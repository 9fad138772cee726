---------------------------- MODULE ServerLaunch ----------------------------
(***************************************************************************)
(* What one start of the language-model server decides before and after    *)
(* the process runs: which of the installed backends (on macOS), how many  *)
(* layers go to the graphics card, which context size, whether a draft     *)
(* model guesses ahead, what a failed start is retried without, which      *)
(* backend it is told to have got, and how the context is used.            *)
(* ModelManager of model_manager.py takes these decisions, with utils.py,  *)
(* gguf_info.py and backend_manager.py; ModelServer models when they are   *)
(* taken.  These are functions of what the machine, the configuration and  *)
(* the files say.  Sizes are whole megabytes and tokens whole, while the   *)
(* code divides floating-point numbers.                                    *)
(***************************************************************************)
EXTENDS Integers, Sequences, FiniteSetsExt, SequencesExt

Unknown == -1       \* None: no graphics card answered, or no metadata
ReserveMb == 768    \* VRAM_RESERVE_MB

Smaller(a, b) == IF a < b THEN a ELSE b
Larger(a, b) == IF a > b THEN a ELSE b

-----------------------------------------------------------------------------
(* has_nvidia: nvidia-smi names a card, or on Windows one of the two       *)
(* queries for the adapter's name does (m.adapter, the queries that do).   *)
HasNvidia(m) == m.smi \/ m.adapter \cap {"cim", "wmic"} # {}

(* query_free_vram_mb: the free memory of the emptiest card, by nvidia-smi. *)
FreeMemory(m) == Max(m.cards \cup {Unknown})

(* _find_mtp_draft_model: of the files beside the model whose names say so *)
(* one that says "mtp", else any.                                          *)
DraftModel(siblings) ==
    IF "mtp" \in siblings THEN "mtp" ELSE IF "draft" \in siblings THEN "draft" ELSE "none"

HasDraft(m) == DraftModel(m.siblings) # "none"

(* The size of the context: the configured one, or what the model was      *)
(* trained for within limits, and never less than a correction asked for.  *)
ContextSize(m, c) ==
    LET derived == IF c.auto /\ m.train > 0 THEN Larger(Smaller(m.train, 12800), 2048) ELSE c.ctx
    IN  Larger(derived, c.dynamic)

(* estimate_model_vram_mb: the weights and 15 %, and the context.          *)
Estimate(m, ctx) == (115 * m.size + 10 * ctx) \div 100

(* suggest_gpu_layers: as many of the wanted layers as the free memory     *)
(* holds beside the reserve, by the size of one layer when the metadata    *)
(* tells the number of layers, else by the estimate.                       *)
SuggestByLayer(want, m) ==
    LET cap == Smaller(want, m.layers)
    IN  Smaller(cap, ((FreeMemory(m) - ReserveMb) * m.layers) \div m.size)

SuggestByEstimate(want, m, est) ==
    IF est <= FreeMemory(m) THEN want ELSE Smaller(want, (want * (FreeMemory(m) - ReserveMb)) \div est)

\* Mutant of SuggestGpuLayers: a card that holds no more than the reserve is still used.
SuggestNoReserve(want, m, est) ==
    IF want <= 0 THEN 0
    ELSE IF FreeMemory(m) = Unknown THEN want
    ELSE IF m.layers > 0 THEN SuggestByLayer(want, m)
    ELSE SuggestByEstimate(want, m, est)

SuggestGpuLayers(want, m, est) ==
    IF want <= 0 THEN 0
    ELSE IF FreeMemory(m) = Unknown THEN want
    ELSE IF FreeMemory(m) <= ReserveMb THEN 0
    ELSE IF m.layers > 0 THEN SuggestByLayer(want, m)
    ELSE SuggestByEstimate(want, m, est)

(* The layers of one start.  Without an NVIDIA card the wish is kept.      *)
GpuLayers(m, c, flags) ==
    IF flags.cpu THEN 0
    ELSE IF ~HasNvidia(m) THEN c.want
    ELSE SuggestGpuLayers(c.want, m, Estimate(m, ContextSize(m, c)))

(* A start that lost all its layers to the fit has no draft either.        *)
CpuFallback(m, c, flags) == ~flags.cpu /\ HasNvidia(m) /\ c.want > 0 /\ GpuLayers(m, c, flags) = 0

(* get_gguf_info_cached keeps what it read until the model file changes,   *)
(* the presence of a sibling draft included: m.draftWhenRead.              *)
SupportsMtp(m) == m.heads \/ m.draftWhenRead \/ HasDraft(m)

Draft(m, c, flags) ==
    IF ~c.mtp \/ flags.noMtp \/ flags.cpu \/ CpuFallback(m, c, flags) THEN "none"
    ELSE IF HasDraft(m) THEN DraftModel(m.siblings)
    ELSE IF SupportsMtp(m) THEN "own" ELSE "none"

(* The command line of one start, as far as it differs between starts.     *)
Command(m, c, flags) ==
    [layers |-> GpuLayers(m, c, flags), ctx |-> ContextSize(m, c), draft |-> Draft(m, c, flags),
     flash |-> IF c.flash /\ ~flags.noFlash THEN "auto" ELSE "off"]

-----------------------------------------------------------------------------
(* The retries of a failed start: a memory error of the card is retried on *)
(* the processor, with every other flag reset; any other failure without   *)
(* the draft, if one was configured; one that names flash attention        *)
(* without that.                                                           *)
Errors == {"memory", "flash", "other"}
FirstTry == [cpu |-> FALSE, noMtp |-> FALSE, noFlash |-> FALSE]
GaveUp == [cpu |-> TRUE, noMtp |-> TRUE, noFlash |-> TRUE, over |-> TRUE]

RetryFlags(m, c, flags, error) ==
    IF GpuLayers(m, c, flags) > 0 /\ error = "memory" THEN [FirstTry EXCEPT !.cpu = TRUE]
    ELSE IF c.mtp /\ ~flags.noMtp THEN [flags EXCEPT !.noMtp = TRUE]
    ELSE IF c.flash /\ ~flags.noFlash /\ error = "flash" THEN [flags EXCEPT !.noFlash = TRUE]
    ELSE GaveUp

(* The flags of each attempt of a load whose attempts fail like errors.    *)
Attempts(m, c, errors) ==
    LET flags[n \in 1..Len(errors) + 1] ==
            IF n = 1 THEN FirstTry
            ELSE IF flags[n - 1] = GaveUp THEN GaveUp
            ELSE RetryFlags(m, c, flags[n - 1], errors[n - 1])
    IN  flags

-----------------------------------------------------------------------------
(* What the server is taken to run on, once it answers: the log of the     *)
(* server, then its /props, then a run with --list-devices.  e.log and     *)
(* e.props are "gpu", "cpu" (the log names the processor), "silent" or     *)
(* "failed"; a log that cannot be read leaves the warning of an earlier    *)
(* start pending, and _props_probed is never reset.                        *)
SeenInLog(e) == e.log = "gpu"
SeenInProps(e) == e.props = "gpu"
SeenAmongDevices(e) == e.devices = "gpu"

Backend(layers, e) ==
    IF layers > 0 /\ (SeenInLog(e) \/ SeenInProps(e) \/ SeenAmongDevices(e)) THEN "gpu" ELSE "cpu"

PendingWarning(e) == IF e.log = "failed" THEN e.pendingBefore ELSE e.log = "cpu"
PropsProbed(e) == e.probedBefore \/ e.props # "failed"

Warning(layers, e) ==
    IF layers = 0 \/ Backend(layers, e) = "gpu" THEN "none"
    ELSE IF PendingWarning(e) THEN "cpu loaded"
    ELSE IF PropsProbed(e) THEN "no gpu found" ELSE "none"

-----------------------------------------------------------------------------
(* The context is shared out among the slots of the server, the requests   *)
(* it serves at a time.  What a slot holds is known from /props (live), or *)
(* taken from the configured size, which need not be the size of Command.  *)
Slots(c) == Larger(1, c.parallel)

SlotTokens(live, c) == IF live # Unknown THEN live ELSE c.ctx \div Slots(c)

(* _estimate_tokens: by the words, or by the characters where words are    *)
(* long or there are none.                                                 *)
EstimateTokens(words, chars) ==
    Larger(1, IF 10 * words < chars \/ words = 0 THEN (75 * chars) \div 100 ELSE (3 * words) \div 2)

(* ensure_context_for_tokens: of a loaded server a text of more than 0.4   *)
(* of a slot is given a window in which it is not, within limits; one that *)
(* is not loaded is then loaded as it is configured.  TextTokens is the    *)
(* caller's own estimate, by the words alone.                              *)
MaxWindow == 131072
TextTokens(words) == (words * 4) \div 3 + 64

Window(tokens, c) ==
    LET slot == ((10 * tokens + 4095) \div 4096) * 1024
    IN  Larger(12800, Smaller(MaxWindow, slot * Slots(c)))

Crowded(tokens, slot) == tokens > (4 * slot) \div 10

Expands(tokens, loaded, live, c) ==
    LET slot == SlotTokens(live, c)
    IN  loaded /\ Crowded(tokens, slot) /\ Window(tokens, c) > slot * Slots(c)

(* The words of a unit and the tokens its answer may have: the room of the *)
(* slot beside the unit itself (_rewrite_sentence_chunk does not count the *)
(* instructions), when an answer was cut once more, half as many again.    *)
ChunkWords(words, slot) == IF slot < 2048 THEN Smaller(words, 120) ELSE words

MaxTokens(est, slot) ==
    LET wanted == Smaller(Larger(3 * est + 128, 512), 2048)
    IN  IF est + wanted > slot THEN Larger(128, slot - est - 64) ELSE wanted

RetryTokens(est, slot) ==
    LET retry == Smaller((3 * MaxTokens(est, slot)) \div 2, slot - est - 64)
    IN  Larger(MaxTokens(est, slot), retry)

(* _request_timeout in seconds: time for the answer at the rate of the     *)
(* device.                                                                 *)
Rate(gpu) == IF gpu THEN 100 ELSE 12
RequestTimeout(tokens, gpu) == Larger(60, Smaller(300, 15 + tokens \div Rate(gpu)))

(* _warmup_prompt_cache: the strengths of the hotkeys in their order, then *)
(* the one without a hotkey, dealt out to the slots.                       *)
Strengths(hotkeys, fallback) ==
    FoldLeft(LAMBDA seen, s : IF Contains(seen, s) THEN seen ELSE Append(seen, s), <<>>,
             Append(hotkeys, fallback))

WarmupStrengths(hotkeys, fallback, slots) ==
    LET strengths == Strengths(hotkeys, fallback)
    IN  [i \in 1..slots |-> strengths[((i - 1) % Len(strengths)) + 1]]

-----------------------------------------------------------------------------
(* On a Mac: what the process finds out about the machine, p.machine being *)
(* the name of its own architecture and p.translated what the system says  *)
(* of it, "1" when Rosetta runs it; no answer is taken for Intel.          *)
NormalizeArchitecture(machine) ==
    CASE machine \in {"arm64", "aarch64"} -> "arm64"
      [] machine \in {"x86_64", "amd64", "x64"} -> "x86_64"
      [] OTHER -> machine

DetectHost(p) ==
    LET process == NormalizeArchitecture(p.machine)
        rosetta == process = "x86_64" /\ p.translated = "1"
    IN  [arch |-> IF rosetta THEN "arm64" ELSE process, os |-> p.os]

(* Where servers are looked for, what came with the application first.     *)
Roots == <<"native bundle", "bundle", "backends", "program">>

(* The folder llama_cpp of the user is looked into together with the first *)
(* of them, after that root itself and before its other folders.           *)
Legacy(s) == s.root = "backends" /\ s.folder = "llama_cpp"
Rank(s) == IF Legacy(s) THEN 1 ELSE CHOOSE i \in DOMAIN Roots : Roots[i] = s.root
Turn(s) == CASE s.folder = "itself" -> 1 [] Legacy(s) -> 2 [] OTHER -> 3

(* BACKEND_MANIFEST: the names of folders looked into for an architecture; *)
(* one without an architecture in its name is for both.                    *)
ManifestFolders ==
    [arm64 |-> {"itself", "llama_cpp", "llama-arm64", "llama-b"},
     x86_64 |-> {"itself", "llama_cpp", "llama-x64", "llama-b"}]

ManifestsForHost(host) == IF host.arch \in DOMAIN ManifestFolders THEN ManifestFolders[host.arch] ELSE {}

(* What the file tool says a program is built for: of a universal one only *)
(* arm64 is seen, and a tool that does not answer says nothing.            *)
InspectArchitecture(s) ==
    IF ~s.inspected THEN "unseen" ELSE IF "arm64" \in s.builds THEN "arm64" ELSE CHOOSE b \in s.builds : TRUE

(* The release of a server: of the folder's name, else of the manifest.    *)
ReleaseNumber(s) == IF s.named # Unknown THEN s.named ELSE s.manifest

(* The oldest system its Metal library runs on; Unknown without one.       *)
MinimumMacosVersion(s) == IF s.metal = "none" THEN Unknown ELSE s.minOs

Verified(s, host) ==
    /\ s.executable
    /\ InspectArchitecture(s) # "unseen" =>
           InspectArchitecture(s) = host.arch /\ MinimumMacosVersion(s) <= host.os

(* resolve_bundled_backend: of the verified servers in those folders the   *)
(* one of the highest known release, of the first root among equals; an    *)
(* unknown release ranks last.                                             *)
RanksAbove(a, b) ==
    \/ ReleaseNumber(a) > ReleaseNumber(b)
    \/ /\ ReleaseNumber(a) = ReleaseNumber(b)
       /\ Rank(a) < Rank(b) \/ (Rank(a) = Rank(b) /\ Turn(a) < Turn(b))

ResolveBundled(candidates, host) ==
    LET verified == {s \in candidates : s.folder \in ManifestsForHost(host) /\ Verified(s, host)}
    IN  {s \in verified : \A t \in verified \ {s} : ~RanksAbove(t, s)}

(* _find_shipped_llama_server: when that finds none the older search goes  *)
(* on without verifying: the user's llama_cpp, then a folder beside the    *)
(* program with "llama" in its name.  The servers one of which is taken.   *)
FindServer(candidates, host) ==
    LET beside == {s \in candidates : s.root = "program" /\ s.folder # "itself"}
        legacy == {s \in candidates : Legacy(s)}
    IN  IF ResolveBundled(candidates, host) # {} THEN ResolveBundled(candidates, host)
        ELSE IF legacy # {} THEN legacy ELSE beside

-----------------------------------------------------------------------------
(* What the first run downloads on a Mac: the release all older systems    *)
(* run, pinned in the code, or of the latest release the first archive of  *)
(* the architecture that has a digest.                                     *)
NoAsset == [arch |-> "none", minOs |-> 0, digest |-> FALSE]
CompatibleAsset(host) == [arch |-> host.arch, minOs |-> 14, digest |-> TRUE]

ReleaseAsset(assets, host) ==
    LET fitting == {i \in DOMAIN assets : assets[i].arch = host.arch /\ assets[i].digest}
    IN  IF fitting = {} THEN NoAsset ELSE assets[Min(fitting)]

LatestDownload(assets, host) ==
    IF host.os < 26 THEN CompatibleAsset(host) ELSE ReleaseAsset(assets, host)
=============================================================================
