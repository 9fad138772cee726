--------------------------- MODULE MCModelServer ---------------------------
(***************************************************************************)
(* The lifecycle of the server with two threads; and, from starts of their *)
(* own in which no thread moves, the decisions of one start: input is one  *)
(* combination of a machine, a configuration or evidence to decide on.     *)
(***************************************************************************)
EXTENDS ModelServer, LaunchDecisions, TLC

Machines ==
    [smi : BOOLEAN, adapter : {{}, {"cim"}, {"wmic"}}, cards : {{}, {700}, {768}, {1000, 300}, {2768}, {9000, 700}},
     size : {900, 4000}, layers : {0, 4, 7}, train : {0, 1000, 40000}, heads : {FALSE},
     siblings : {{}, {"draft"}, {"draft", "mtp"}}, draftWhenRead : BOOLEAN]

Configs ==
    [want : {0, 3, 999}, auto : BOOLEAN, ctx : {4096}, dynamic : {0, 16000}, mtp : BOOLEAN, flash : BOOLEAN]

(* The fit does not look at the draft; the chain of retries can tell apart *)
(* no card, one too small for a layer and one for some layers, and a draft *)
(* file, only one seen earlier and none.                                   *)
FitQuestions ==
    [about : {"fit"}, m : {m \in Machines : m.siblings = {} /\ ~m.draftWhenRead},
     c : {c \in Configs : ~c.mtp /\ ~c.flash}]

ChainQuestions ==
    [about : {"chain"},
     m : {m \in Machines : m.size = 4000 /\ m.layers = 7 /\ m.train = 0 /\ m.cards \in {{}, {700}, {2768}}
                         /\ m.adapter = {}},
     c : {c \in Configs : c.auto /\ c.dynamic = 0 /\ c.want # 3}]

WarnQuestions == [about : {"warn"}, layers : {0, 4}, e : Evidence]

Macs == {mac \in [machine : {"aarch64", "x86_64"}, translated : {"0", "1", "failed"}, chip : {"arm64", "x86_64"},
                  os : {15, 26}] :
            mac \in Mac /\ (mac.machine = "x86_64" /\ mac.chip = "arm64" => mac.os = 15)}

(* A server in a place where one may be: with the application, downloaded, *)
(* unpacked by hand.                                                       *)
Places ==
    {[root |-> "native bundle", folder |-> "itself", named |-> Unknown, manifest |-> 10639],
     [root |-> "native bundle", folder |-> "itself", named |-> Unknown, manifest |-> Unknown],
     [root |-> "native bundle", folder |-> "llama-arm64", named |-> Unknown, manifest |-> Unknown],
     [root |-> "backends", folder |-> "llama_cpp", named |-> Unknown, manifest |-> Unknown],
     [root |-> "backends", folder |-> "llama-b", named |-> 10639, manifest |-> Unknown],
     [root |-> "backends", folder |-> "llama-x64", named |-> 8728, manifest |-> Unknown],
     [root |-> "program", folder |-> "llama-b", named |-> 10700, manifest |-> Unknown],
     [root |-> "program", folder |-> "llama-arm64", named |-> Unknown, manifest |-> Unknown]}

Builds ==
    [builds : {{"arm64"}, {"x86_64"}, {"arm64", "x86_64"}, {"windows"}}, inspected : {TRUE},
     metal : {"lib"}, minOs : {14, 26}, executable : {TRUE}]
        \cup [builds : {{"arm64"}}, inspected : BOOLEAN, metal : {"none"}, minOs : {26}, executable : BOOLEAN]

MacServers == {place @@ build : place \in Places, build \in Builds}

(* One or two of them, in different folders.                               *)
Installed ==
    {{a, b} : <<a, b>> \in {<<a, b>> \in MacServers \X MacServers :
                              a = b \/ <<a.root, a.folder>> # <<b.root, b.folder>>}}

BackendQuestions == [about : {"backend"}, servers : Installed, mac : Macs]

(* What the latest release may offer: an archive built on macOS 26, of any *)
(* architecture, with a digest or without.                                 *)
DownloadQuestions ==
    [about : {"download"}, assets : UNION {[1..n -> {a \in Asset : a.minOs = 26}] : n \in 0..3}, mac : Macs]

(* A text of spaced words, or of words of 30 characters; a server that     *)
(* gives each slot its share, or no more than its model can hold; and one  *)
(* whose /props were read or not.                                          *)
ContextQuestions ==
    [about : {"context"}, words : {1, 60, 800, 1000, 1365, 2000, 8000, 60000}, letters : {5, 30},
     unit : {1, 2, 60, 120, 250, 1000, 1365, 2000, 8000, 60000},
     c : [parallel : {0, 1, 3, 4, 16}, ctx : {4096, 12800, 40000}], holds : {4096, MaxWindow}, props : BOOLEAN, loaded : BOOLEAN]

WarmupQuestions ==
    [about : {"warm-up"}, hotkeys : UNION {[1..n -> {"fix", "polish", "notes"}] : n \in 0..3},
     fallback : {"fix", "full"}, slots : 1..5]

MCQuestions ==
    FitQuestions \cup ChainQuestions \cup WarnQuestions \cup BackendQuestions \cup DownloadQuestions
        \cup ContextQuestions \cup WarmupQuestions

(* The questions are such as LaunchDecisions speaks of.                    *)
ASSUME AskedOfLaunch == \A q \in MCQuestions : q \in Questions

MCInit ==
    /\ Init
    /\ \/ input = [about |-> "nothing"]
       \/ process = 0 /\ input \in MCQuestions

MCNext == input.about = "nothing" /\ Next /\ UNCHANGED input

MCSpec == MCInit /\ [][MCNext]_<<vars, input>> /\ \A t \in Threads : WF_vars(Work(t))
=============================================================================
