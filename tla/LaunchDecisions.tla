--------------------------- MODULE LaunchDecisions ---------------------------
(***************************************************************************)
(* What the decisions of one start of the server promise, for every        *)
(* machine, configuration, evidence, set of installed servers, release,    *)
(* text and set of hotkeys: input is what one decision is about.           *)
(***************************************************************************)
EXTENDS ServerLaunch

VARIABLE input

Known == Nat \cup {Unknown}

Machine ==
    [smi : BOOLEAN, adapter : SUBSET {"cim", "wmic"}, cards : {cards \in SUBSET Nat : IsFiniteSet(cards)},
     size : Nat \ {0}, layers : Nat, train : Nat, heads : BOOLEAN,
     siblings : SUBSET {"draft", "mtp"}, draftWhenRead : BOOLEAN]

Config == [want : Nat, auto : BOOLEAN, ctx : Nat, dynamic : Nat, mtp : BOOLEAN, flash : BOOLEAN]

Evidence ==
    [log : {"gpu", "cpu", "silent", "failed"}, props : {"gpu", "silent", "failed"},
     devices : {"gpu", "silent"}, pendingBefore : BOOLEAN, probedBefore : BOOLEAN]

(* A Mac of a system the application starts on, as it is and as the        *)
(* process sees it: an Intel process on Apple silicon is a translated one, *)
(* which it may fail to learn.                                             *)
Systems == {os \in Nat : os >= 14}

Mac ==
    [machine : {"arm64", "aarch64"}, translated : {"0"}, chip : {"arm64"}, os : Systems]
        \cup [machine : {"x86_64", "amd64", "x64"}, translated : {"1", "failed"}, chip : {"arm64"}, os : Systems]
        \cup [machine : {"x86_64", "amd64", "x64"}, translated : {"0", "failed"}, chip : {"x86_64"}, os : Systems]

Server ==
    [root : {"native bundle", "bundle", "backends", "program"}, folder : STRING, named : Known, manifest : Known,
     builds : (SUBSET {"arm64", "x86_64", "windows"}) \ {{}}, inspected : BOOLEAN, metal : {"lib", "none"},
     minOs : Nat, executable : BOOLEAN]

(* What the latest release may offer: an archive for macOS 26 or older.    *)
Asset == [arch : {"arm64", "x86_64", "windows"}, minOs : 0..26, digest : BOOLEAN]

Questions ==
    [about : {"nothing"}]
        \cup [about : {"fit"}, m : Machine, c : Config]
        \cup [about : {"chain"}, m : Machine, c : Config]
        \cup [about : {"warn"}, layers : Nat, e : Evidence]
        \cup [about : {"backend"}, servers : {servers \in SUBSET Server : IsFiniteSet(servers)}, mac : Mac]
        \cup [about : {"download"}, assets : Seq(Asset), mac : Mac]
        \cup [about : {"context"}, words : Nat, unit : Nat, letters : Nat, c : [parallel : Nat, ctx : Nat],
              holds : Nat, props : BOOLEAN, loaded : BOOLEAN]
        \cup [about : {"warm-up"}, hotkeys : Seq(STRING), fallback : STRING, slots : Nat]

LaunchSpec == input \in Questions /\ [][UNCHANGED input]_input

-----------------------------------------------------------------------------
(* The clamp of the layers is exact: with known metadata and memory a      *)
(* start asks for the most layers, among the wanted and the existing ones, *)
(* whose weights leave the reserve free; and it never asks for more than   *)
(* was wanted (suggest_gpu_layers, "Clamp requested_layers so weights fit  *)
(* in free_vram_mb").                                                      *)
Fits(n, m) == n * m.size <= (Max(m.cards) - ReserveMb) * m.layers

FitsMemory ==
    input.about = "fit" =>
        LET m == input.m
            n == GpuLayers(m, input.c, FirstTry)
        IN  /\ n \in 0..input.c.want
            /\ (m.smi \/ m.adapter # {}) /\ m.cards # {} /\ m.layers > 0 =>
                   n = Max({k \in 0..Smaller(input.c.want, m.layers) : k = 0 \/ Fits(k, m)})

(* A load whose every start fails ends within six of them, whatever the    *)
(* failures say; the processor is tried after a memory error of the card   *)
(* and the card never again; and a start repeats an earlier command only   *)
(* when it was to drop a draft that command did not have (the retries of   *)
(* load_model).                                                            *)
Failures == [1..6 -> Errors]

ChainEnds ==
    input.about = "chain" =>
        \A errors \in Failures :
            LET flags == Attempts(input.m, input.c, errors)
                live == {n \in 1..6 : flags[n] # GaveUp}
                cmd(n) == Command(input.m, input.c, flags[n])
            IN  /\ flags[7] = GaveUp
                /\ \A n \in live : \A k \in live :
                       /\ cmd(n).layers > 0 /\ errors[n] = "memory" => n + 1 \in live /\ cmd(n + 1).layers = 0
                       /\ k > n /\ flags[n].cpu => cmd(k).layers = 0
                       /\ k > n /\ cmd(k) = cmd(n) => flags[k].noMtp /\ cmd(n).draft = "none"

(* The user is warned that the graphics card is not used only when neither *)
(* the log, nor /props, nor the list of devices shows one; and is warned   *)
(* whenever layers were asked for, none of them shows one, and one of them *)
(* could be read ("warn only when it also reports CPU").                   *)
WarnedOnlyWithoutGpu ==
    input.about = "warn" =>
        LET e == input.e
            seen == "gpu" \in {e.log, e.props, e.devices}
        IN  /\ seen \/ input.layers = 0 => Warning(input.layers, e) = "none"
            /\ input.layers > 0 /\ ~seen /\ (e.log = "cpu" \/ e.props # "failed") =>
                   Warning(input.layers, e) # "none"

(* Where several servers are installed the one that is started can run on  *)
(* this machine if any of them is known to, no other that can has a higher *)
(* known release, and one that came with the application is preferred to   *)
(* any of the same release ("ties prefer immutable bundled resources over  *)
(* user state"); but the user's own llama_cpp is preferred to a folder of  *)
(* the bundle, as the code looks into it together with the bundle.         *)
NewestBackend ==
    input.about = "backend" =>
        LET host == DetectHost(input.mac)
            known == {s \in input.servers : s.folder \in ManifestsForHost(host) /\ Verified(s, host)}
            found == FindServer(input.servers, host)
        IN  known # {} =>
                /\ found # {} /\ found \subseteq known
                /\ \A s \in found, t \in known :
                       /\ s.inspected => input.mac.chip \in s.builds \/ (input.mac.chip = "arm64" /\ host.arch \in s.builds)
                       /\ ReleaseNumber(s) >= ReleaseNumber(t)
                       /\ ReleaseNumber(s) = ReleaseNumber(t) /\ t.root = "native bundle" =>
                              s.root = t.root \/ (Legacy(s) /\ t.folder # "itself")

(* What the first run downloads runs on this machine, also when the        *)
(* process is a translated one that does not know it ("the safe choice for *)
(* backend execution"), is pinned by a digest, and is native where the     *)
(* process knows the machine.                                              *)
DownloadRuns ==
    input.about = "download" =>
        LET asset == LatestDownload(input.assets, DetectHost(input.mac))
        IN  /\ asset # NoAsset =>
                   /\ asset.digest /\ asset.minOs <= input.mac.os
                   /\ asset.arch = input.mac.chip \/ (asset.arch = "x86_64" /\ input.mac.translated = "failed")
            /\ asset = NoAsset =>
                   \A i \in DOMAIN input.assets : input.assets[i].digest => input.assets[i].arch # DetectHost(input.mac).arch

(* A correction never reloads the server for a text that had room, and     *)
(* after the one reload it asks for a text of spaced words has room, the   *)
(* same text asks for no other, and every unit of it has an answer as long *)
(* as the unit that fits the slot beside it and is in time at the rate     *)
(* assumed for the device (ensure_context_for_tokens, "scaled so every     *)
(* slot fits"; "Prevent slot overflow").  It need not where the window has *)
(* its largest size, the model holds less than was asked for, /props never *)
(* answered or the unit alone is longer than the longest answer; nor where *)
(* no server was loaded, which is loaded with the configured window also   *)
(* for a longer text: that text has its room when it comes again.          *)
Granted(q, window) == Smaller(window \div Slots(q.c), q.holds)

WindowFits ==
    input.about = "context" =>
        LET q == input
            tokens == TextTokens(q.words)
            live(window) == IF q.props THEN Granted(q, window) ELSE Unknown
            before == live(q.c.ctx)
            asked == Window(tokens, q.c)
            given(loaded) == IF Expands(tokens, loaded, before, q.c) THEN live(asked) ELSE before
            after == given(q.loaded)
            slot == SlotTokens(after, q.c)
            est == EstimateTokens(q.unit, q.unit * q.letters)
            room == MaxTokens(est, slot)
        IN  /\ ~Crowded(tokens, SlotTokens(before, q.c)) => after = before
            /\ q.props /\ asked < MaxWindow /\ q.holds >= MaxWindow =>
                   /\ q.loaded => ~Crowded(tokens, slot) /\ ~Expands(tokens, TRUE, after, q.c)
                   /\ ~Crowded(tokens, SlotTokens(given(TRUE), q.c))
            /\ q.unit <= ChunkWords(q.words, slot) =>
                   /\ est + 192 <= slot => est + RetryTokens(est, slot) <= slot
                   /\ ~Crowded(tokens, slot) /\ q.letters <= 10 /\ est <= 2048 => est <= room
                   /\ \A gpu \in BOOLEAN : RequestTimeout(room, gpu) * Rate(gpu) >= room

(* The warm-up gives every slot a strength of the configuration, and every *)
(* strength a slot when there are enough of them; none has two slots more  *)
(* than another ("Assign each distinct strength to at least one parallel   *)
(* slot").                                                                 *)
SlotsShared ==
    input.about = "warm-up" =>
        LET warm == WarmupStrengths(input.hotkeys, input.fallback, input.slots)
            configured == ToSet(input.hotkeys) \cup {input.fallback}
            given(s) == Cardinality({i \in DOMAIN warm : warm[i] = s})
        IN  /\ ToSet(warm) \subseteq configured
            /\ input.slots >= Cardinality(configured) => ToSet(warm) = configured
            /\ \A s \in configured, t \in configured : given(s) <= given(t) + 1

(* A start asks for what the machine can carry: the layers leave the       *)
(* reserve free, failures lead to the processor and to an end, the warning *)
(* tells the truth, the best server is the one started, or downloaded, its *)
(* slots hold the text and its answer, and all of them are warm.           *)
LaunchDecides ==
    /\ FitsMemory /\ ChainEnds /\ WarnedOnlyWithoutGpu /\ NewestBackend /\ DownloadRuns
    /\ WindowFits /\ SlotsShared
=============================================================================
