----------------------------- MODULE SettingsStore -----------------------------
(***************************************************************************)
(* The settings of a user: ConfigManager (core/config.py), which keeps     *)
(* them in memory and in one file, and who changes them: the settings      *)
(* dialog, which works on a draft taken when it was opened, the correction *)
(* window and the tray beside it, the download monitor, and the thread     *)
(* that loads the model.  Every set() writes the whole of the settings.    *)
(*                                                                         *)
(* Settings are functions from keys to values, as the dictionary they are: *)
(* a file of an older version lacks keys and has others.                   *)
(***************************************************************************)
EXTENDS Naturals, Sequences, FiniteSets

CONSTANTS
  SavedFiles,       \* what the file may hold at the first start
  MaxActs,     \* bound: changes the user asks for
  MaxRestarts, \* bound: stops of the program, at any moment, and starts
  MaxRefusals  \* bound: reads and temporary files that fail, replacements that are denied

ASSUME SettingsAssumption == MaxActs \in Nat /\ MaxRestarts \in Nat /\ MaxRefusals \in Nat

VARIABLES
  config,    \* the settings in memory
  file,      \* what the file holds; Torn when it is not JSON
  draft,     \* the open settings dialog
  todo,      \* per thread: the set() calls its handler has still to make
  saving,    \* per thread: where its save() is
  dump,      \* per thread: the settings as its save() wrote them to its temporary file
  late,      \* per thread: another save has taken up a later state since, written or not
  excused,   \* the last save to end failed, or brought such an older state
  acts, restarts, denials, failures

writing == <<todo, saving, dump, late, excused>>
bounds == <<acts, restarts, denials, failures>>
settingsVars == <<config, file, draft, writing, bounds>>

Threads == {"ui", "loader"}
Torn == [torn |-> TRUE]
NoDraft == [open |-> FALSE]

-----------------------------------------------------------------------------
(* Loading: _load() and auto_detect().                                      *)

Template(name, prompt) == [name |-> name, prompt |-> prompt]
CustomMode(name, threshold) == [name |-> name, threshold |-> threshold]

\* Of the shipped templates one has a name that older versions shipped, too.
Templates == <<Template("Academic", "shipped"), Template("Notes", "shipped")>>
LegacyNames == {"Notes", "Email"}

Defaults ==
  [model_path |-> "", chat_model_path |-> "", chat_use_separate_model |-> FALSE,
   correction_method |-> "patch", streaming_strength |-> "full", hotkeys |-> <<"f9", "f10">>,
   custom_templates |-> Templates, prompts |-> "new", correction_modes |-> <<CustomMode("Patch", "1.0")>>,
   protected_terms |-> {}, llama_server_path |-> "missing", threshold |-> "shipped",
   context_size |-> "shipped", context_size_auto |-> TRUE]

Put(cfg, key, value) == [k \in DOMAIN cfg \cup {key} |-> IF k = key THEN value ELSE cfg[k]]
PutDefault(cfg, key, value) == IF key \in DOMAIN cfg THEN cfg ELSE Put(cfg, key, value)
WithDefaults(saved) ==
  [k \in DOMAIN saved \cup DOMAIN Defaults |-> IF k \in DOMAIN saved THEN saved[k] ELSE Defaults[k]]
Value(saved, key) == IF key \in DOMAIN saved THEN saved[key] ELSE ""
Without(cfg, keys) == [k \in DOMAIN cfg \ keys |-> cfg[k]]

\* One model path and a flag became two paths and the opposite flag.
TwoModels(cfg, saved, same) ==
  Put(Put(Put(cfg, "chat_use_separate_model", ~same), "chat_model_path", Value(saved, "model_path")),
      "model_path", Value(saved, IF same THEN "model_path" ELSE "ac_model_path"))

\* Mutant of MigrateModels: settings that were migrated are migrated again.
MigrateModelsAgain(cfg, saved) ==
  TwoModels(Without(cfg, {"ac_same_as_chat", "ac_model_path"}), saved,
            IF "ac_same_as_chat" \in DOMAIN saved THEN saved.ac_same_as_chat ELSE TRUE)

\* The threshold of a built-in mode has a value of an earlier version, or none that is valid.
MigrateThreshold(cfg) ==
  IF cfg.threshold = "drifted" THEN Put(cfg, "threshold", Defaults.threshold) ELSE cfg

\* A file that has the two paths is not touched.
MigrateModels(cfg, saved) ==
  IF "chat_model_path" \in DOMAIN saved THEN cfg
  ELSE TwoModels(Without(cfg, {"ac_same_as_chat", "ac_model_path"}), saved,
                 IF "ac_same_as_chat" \in DOMAIN saved THEN saved.ac_same_as_chat ELSE TRUE)

MigrateStrength(cfg, saved) ==
  LET rest == Without(cfg, {"correction_mode"})
  IN IF "correction_mode" \in DOMAIN saved /\ "correction_method" \notin DOMAIN saved
     THEN PutDefault(PutDefault(rest, "correction_method", "patch"),
                     "streaming_strength", IF saved.correction_mode = 0 THEN "spelling" ELSE "full")
     ELSE rest

MigrateHotkeys(cfg, saved) ==
  LET old == SelectSeq(<<Value(saved, "hotkey"), Value(saved, "silent_hotkey")>>, LAMBDA k: k /= "")
      rest == Without(cfg, {"hotkey", "silent_hotkey"})
  IN IF "hotkeys" \notin DOMAIN saved /\ old /= <<>> THEN Put(rest, "hotkeys", old) ELSE rest

TemplateNames(templates) == {templates[i].name: i \in DOMAIN templates}

\* Templates with no name but those of older versions are replaced by the shipped ones.
MigrateTemplates(cfg) ==
  IF TemplateNames(cfg.custom_templates) \subseteq LegacyNames
  THEN Put(cfg, "custom_templates", Templates) ELSE cfg

\* The built-in prompts of older versions are replaced; there is one custom mode at least.
MigrateModes(cfg) ==
  LET modes == IF cfg.correction_modes = <<>> THEN Defaults.correction_modes ELSE cfg.correction_modes
  IN Put(Put(cfg, "correction_modes", modes), "prompts", IF cfg.prompts = "old" THEN "new" ELSE cfg.prompts)

\* A size that is not the shipped one was chosen by the user.
MigrateContext(cfg, saved) ==
  IF "context_size_auto" \in DOMAIN saved THEN cfg
  ELSE Put(cfg, "context_size_auto", cfg.context_size = Defaults.context_size)

Migrate(saved) ==
  LET models == MigrateModels(MigrateThreshold(WithDefaults(saved)), saved)
      hotkeys == MigrateHotkeys(MigrateStrength(models, saved), saved)
  IN MigrateContext(MigrateModes(MigrateTemplates(hotkeys)), saved)

\* Only some of the migrations ask for the result to be saved: not that of the strength.
NeedsSave(saved) ==
  \/ "chat_model_path" \notin DOMAIN saved
  \/ "context_size_auto" \notin DOMAIN saved
  \/ {"hotkey", "silent_hotkey"} \cap DOMAIN saved /= {}
  \/ LET cfg == WithDefaults(saved) IN MigrateModes(MigrateTemplates(MigrateThreshold(cfg))) /= cfg

\* A model and a server found in the program's directories take the place of missing ones.
Detected(cfg, model, server) ==
  LET withModel == IF cfg.model_path = "" /\ model /= ""
                   THEN Put(IF cfg.chat_use_separate_model THEN cfg ELSE Put(cfg, "chat_model_path", model),
                            "model_path", model)
                   ELSE cfg
      withChat == IF cfg.chat_use_separate_model /\ cfg.chat_model_path = "" /\ model /= ""
                  THEN Put(withModel, "chat_model_path", model) ELSE withModel
  IN IF cfg.llama_server_path = "missing" /\ server THEN Put(withChat, "llama_server_path", "found")
     ELSE withChat

\* What this program or an older version wrote, in which chat follows the model unless it has one
\* of its own.
ASSUME SavedAssumption ==
  \A s \in SavedFiles:
    /\ s /= Torn
    /\ "ac_same_as_chat" \in DOMAIN s => s.ac_same_as_chat \in BOOLEAN
    /\ "chat_use_separate_model" \in DOMAIN s => s.chat_use_separate_model \in BOOLEAN
    /\ "chat_model_path" \in DOMAIN s /\ ~WithDefaults(s).chat_use_separate_model
         => s.chat_model_path = WithDefaults(s).model_path

-----------------------------------------------------------------------------
(* ConfigManager.set() and save(), in steps.                                *)

Quiet(t) == todo[t] = <<>> /\ saving[t] = "no"
AtRest == \A t \in Threads: Quiet(t)

\* Without a chat model of its own, chat follows the model.
Assigned(cfg, key, value) ==
  LET set == Put(cfg, key, value)
  IN IF key = "model_path" /\ ~set.chat_use_separate_model THEN Put(set, "chat_model_path", value)
     ELSE IF key = "chat_use_separate_model" /\ ~value THEN Put(set, "chat_model_path", set.model_path)
     ELSE set

Assign(t) ==
  /\ saving[t] = "no" /\ todo[t] /= <<>>
  /\ LET call == Head(todo[t]) IN config' = Assigned(config, call[1], call[2])
  /\ todo' = [todo EXCEPT ![t] = Tail(@)] /\ saving' = [saving EXCEPT ![t] = "dump"]
  /\ UNCHANGED <<file, draft, dump, late, excused, bounds>>

\* Mutant of WriteTemporary: a save that finds another under way leaves it to that.
WriteTemporaryUnlessBusy(t) ==
  /\ saving[t] = "dump"
  /\ IF \E u \in Threads \ {t}: saving[u] = "replace"
     THEN saving' = [saving EXCEPT ![t] = "no"] /\ UNCHANGED <<dump, late>>
     ELSE /\ saving' = [saving EXCEPT ![t] = "replace"] /\ dump' = [dump EXCEPT ![t] = config]
          /\ late' = [late EXCEPT ![t] = FALSE]
  /\ UNCHANGED <<config, file, draft, todo, excused, bounds>>

Saves(t) == saving' = [saving EXCEPT ![t] = "no"]

\* A failure of mkstemp, dump or fsync is logged, and the save is over.
WriteTemporary(t) ==
  /\ saving[t] = "dump"
  /\ \/ /\ saving' = [saving EXCEPT ![t] = "replace"]
        /\ dump' = [dump EXCEPT ![t] = config] /\ UNCHANGED <<excused, failures>>
     \/ /\ denials + failures < MaxRefusals /\ failures' = failures + 1
        /\ Saves(t) /\ excused' = TRUE /\ UNCHANGED dump
  /\ late' = [u \in Threads |-> u /= t /\ saving[u] = "replace"]
  /\ UNCHANGED <<config, file, draft, todo, acts, restarts, denials>>

\* os.replace; an error other than a denial is logged and no more.  The temporary file is gone.
Replace(t) ==
  /\ saving[t] = "replace"
  /\ \/ Saves(t) /\ file' = dump[t] /\ excused' = late[t] /\ UNCHANGED denials
     \/ /\ denials + failures < MaxRefusals /\ denials' = denials + 1 /\ UNCHANGED file
        /\ \/ Saves(t) /\ excused' = TRUE
           \/ saving' = [saving EXCEPT ![t] = "open"] /\ UNCHANGED excused
  /\ dump' = [dump EXCEPT ![t] = <<>>] /\ late' = [late EXCEPT ![t] = FALSE]
  /\ UNCHANGED <<config, draft, todo, acts, restarts, failures>>

\* Denied five times, the file itself is opened for writing, which empties it, and written;
\* either may fail.
Truncate(t) ==
  /\ saving[t] = "open"
  /\ \/ file' = Torn /\ saving' = [saving EXCEPT ![t] = "write"] /\ UNCHANGED excused
     \/ Saves(t) /\ excused' = TRUE /\ UNCHANGED file
  /\ UNCHANGED <<config, draft, todo, dump, late, bounds>>

WriteInPlace(t) ==
  /\ saving[t] = "write" /\ Saves(t)
  /\ \/ file' = config /\ excused' = FALSE
     \/ file' = Torn /\ excused' = TRUE
  /\ UNCHANGED <<config, draft, todo, dump, late, bounds>>

Save(t) == Assign(t) \/ WriteTemporary(t) \/ Replace(t) \/ Truncate(t) \/ WriteInPlace(t)

-----------------------------------------------------------------------------
(* Who changes the settings.                                                *)

Calls(t, calls) == todo' = [todo EXCEPT ![t] = calls]

\* A thread that loads the model looks for the server when its path does not exist.
LoadModel ==
  /\ Quiet("loader") /\ config.llama_server_path = "missing"
  /\ Calls("loader", <<<<"llama_server_path", "found">>>>)
  /\ UNCHANGED <<config, file, draft, saving, dump, late, excused, bounds>>

Act == Quiet("ui") /\ acts < MaxActs /\ acts' = acts + 1

ProtectTerm ==
  /\ Act /\ Calls("ui", <<<<"protected_terms", config.protected_terms \cup {"term"}>>>>)
  /\ UNCHANGED <<config, file, draft, saving, dump, late, excused, restarts, denials, failures>>

SelectModel ==
  /\ Act /\ \E m \in {"m1", "m2"}:
       Calls("ui", <<<<"model_path", m>>>>
                   \o (IF config.chat_use_separate_model THEN <<>> ELSE <<<<"chat_model_path", m>>>>))
  /\ UNCHANGED <<config, file, draft, saving, dump, late, excused, restarts, denials, failures>>

\* A download has ended: what it brought is put into the settings, and they are saved.
DownloadEnds ==
  /\ Act /\ config' = Detected(config, "m1", TRUE)
  /\ saving' = IF config' /= config THEN [saving EXCEPT !.ui = "dump"] ELSE saving
  /\ UNCHANGED <<file, draft, todo, dump, late, excused, restarts, denials, failures>>

\* The dialog is not modal: the rest of the program goes on beside it.
OpenDialog ==
  /\ Act /\ ~draft.open
  /\ draft' = [open |-> TRUE, templates |-> config.custom_templates, terms |-> config.protected_terms,
               model |-> config.model_path, separate |-> config.chat_use_separate_model,
               chat |-> config.chat_model_path, server |-> config.llama_server_path,
               modes |-> [i \in DOMAIN config.correction_modes |-> config.correction_modes[i].name]]
  /\ UNCHANGED <<config, file, todo, saving, dump, late, excused, restarts, denials, failures>>

TakenOut(s, i) == SubSeq(s, 1, i - 1) \o SubSeq(s, i + 1, Len(s))

EditDraft ==
  /\ Act /\ draft.open
  /\ \/ \E i \in DOMAIN draft.templates: draft' = [draft EXCEPT !.templates[i].prompt = "edited"]
     \/ \E i \in DOMAIN draft.templates: draft' = [draft EXCEPT !.templates = TakenOut(@, i)]
     \/ \E i \in DOMAIN draft.modes: draft' = [draft EXCEPT !.modes = TakenOut(@, i)]
     \/ draft' = [draft EXCEPT !.modes = Append(@, "New")]
     \/ \E m \in {"m1", "m2"}: draft' = [draft EXCEPT !.model = m]
     \/ draft' = [draft EXCEPT !.separate = ~@]
     \/ draft' = [draft EXCEPT !.terms = {}]
  /\ UNCHANGED <<config, file, todo, saving, dump, late, excused, restarts, denials, failures>>

\* What was known of a custom mode is taken from the mode that had its place in the list.
Rebuilt(names, modes) ==
  [i \in DOMAIN names |-> CustomMode(names[i], IF i \in DOMAIN modes THEN modes[i].threshold ELSE "1.0")]

\* _write_settings_to_config: a set() for each setting, one after the other.
ApplyDialog ==
  /\ Act /\ draft.open
  /\ Calls("ui", <<<<"custom_templates", draft.templates>>, <<"protected_terms", draft.terms>>,
                   <<"llama_server_path", draft.server>>, <<"model_path", draft.model>>,
                   <<"chat_use_separate_model", draft.separate>>>>
                 \o (IF draft.separate THEN <<<<"chat_model_path", draft.chat>>>> ELSE <<>>)
                 \o <<<<"correction_modes", Rebuilt(draft.modes, config.correction_modes)>>>>)
  /\ draft' \in {draft, NoDraft}
  /\ UNCHANGED <<config, file, saving, dump, late, excused, restarts, denials, failures>>

CancelDialog ==
  /\ Quiet("ui") /\ draft.open /\ draft' = NoDraft
  /\ UNCHANGED <<config, file, writing, bounds>>

Starts(saved) ==
  \E model \in {"", "m1"}, server \in BOOLEAN:
    /\ config' = Detected(Migrate(saved), model, server)
    /\ saving' = [t \in Threads |->
                    IF t = "ui" /\ (NeedsSave(saved) \/ config' /= Migrate(saved)) THEN "dump" ELSE "no"]

\* The program stops in the middle of whatever it does, and starts again.  Instead of a file that
\* is torn, or that cannot be read, the defaults are taken.
Restart ==
  /\ restarts < MaxRestarts /\ restarts' = restarts + 1
  /\ \/ file = Torn /\ Starts(<<>>) /\ UNCHANGED failures
     \/ file /= Torn /\ Starts(file) /\ UNCHANGED failures
     \/ denials + failures < MaxRefusals /\ failures' = failures + 1 /\ Starts(<<>>)
  /\ draft' = NoDraft /\ todo' = [t \in Threads |-> <<>>]
  /\ dump' = [t \in Threads |-> <<>>] /\ late' = [t \in Threads |-> FALSE] /\ excused' = FALSE
  /\ UNCHANGED <<file, acts, denials>>

SettingsInit ==
  /\ file \in SavedFiles
  /\ \E model \in {"", "m1"}, server \in BOOLEAN: config = Detected(Migrate(file), model, server)
  /\ saving = [t \in Threads |->
                 IF t = "ui" /\ (NeedsSave(file) \/ config /= Migrate(file)) THEN "dump" ELSE "no"]
  /\ draft = NoDraft /\ todo = [t \in Threads |-> <<>>]
  /\ dump = [t \in Threads |-> <<>>] /\ late = [t \in Threads |-> FALSE] /\ excused = FALSE
  /\ acts = 0 /\ restarts = 0 /\ denials = 0 /\ failures = 0

SettingsNext ==
  \/ \E t \in Threads: Save(t)
  \/ LoadModel \/ ProtectTerm \/ SelectModel \/ DownloadEnds
  \/ OpenDialog \/ EditDraft \/ ApplyDialog \/ CancelDialog
  \/ Restart

SettingsSpec == SettingsInit /\ [][SettingsNext]_settingsVars
-----------------------------------------------------------------------------
Settings == DOMAIN Defaults

\* Starting again from what was saved gives the same settings: the migrations of _load do not
\* undo each other or a choice of the user, who may only have removed templates or custom
\* modes that come back.
RestartKeeps ==
  AtRest =>
    \A k \in DOMAIN config:
      \/ k \in DOMAIN Migrate(config) /\ Migrate(config)[k] = config[k]
      \/ k \in {"custom_templates", "correction_modes"} /\ acts > 0

\* The file is unreadable only if its replacement was denied (os.replace in save()).
TornOnlyByDenial == file = Torn => denials > 0

\* When no save is under way the file holds what is in memory, or what was not changed since it
\* was read, unless the last save failed, or two overlapped and the older one came last.
LagsOnlyByOvertaking ==
  AtRest => file = config \/ excused \/ (file /= Torn /\ Migrate(file) = config)

\* Without a model of its own, chat uses the model of the corrections, whatever was set in
\* which order, detected, applied, stopped and loaded (ConfigManager.set, auto_detect, _load).
ChatModelFollows == ~config.chat_use_separate_model => config.chat_model_path = config.model_path

\* The settings in memory agree with one another and with what a restart would read
\* from them (migrations, defaults and the chat model in _load and set).
SettingsHold == RestartKeeps /\ ChatModelFollows

\* The file keeps up with the settings: it is torn only after a replacement was denied, and behind
\* only where the last save failed or an older one overtook it (save).
FileKeepsUp == TornOnlyByDenial /\ LagsOnlyByOvertaking

\* "Atomically replace the config so an interrupted model download or application shutdown
\* cannot leave a truncated JSON file behind" (config.py:395).
NeverTorn == file /= Torn

\* "Migrate legacy correction_mode (0/1) -> correction_method + streaming_strength"
\* (config.py:164): whoever had spelling only keeps it.
LegacyStrengthKept ==
  "correction_mode" \in DOMAIN file /\ file.correction_mode = 0 /\ acts = 0
    => config.streaming_strength = "spelling"

\* "Preserve existing metadata (hallucination_threshold, builtin flag) if present"
\* (settings.py:1164): the threshold of a custom mode does not change with its neighbours.
ThresholdsStay ==
  [][\A i \in DOMAIN config.correction_modes, j \in DOMAIN config'.correction_modes:
       config.correction_modes[i].name = config'.correction_modes[j].name
         => config.correction_modes[i].threshold = config'.correction_modes[j].threshold]_settingsVars

\* A term protected in the correction window is not lost by settings applied later.
TermsStay ==
  [][config.protected_terms = {"term"} /\ config'.protected_terms = {} => draft.open /\ draft.terms /= {}]_settingsVars
=============================================================================
