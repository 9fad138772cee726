--------------------------- MODULE MCSettingsStore -----------------------------
\* The settings and the history of corrections, each by itself: `about` says which one a behaviour
\* is about.  Files of the first start: none, one of a version with one model path and a strength
\* number, one with two model paths and single hotkeys, and one that lacks but a setting that is newer.
EXTENDS SettingsStore, CorrectionHistory

VARIABLE about

MCSaved ==
  {<<>>,
   [model_path |-> "m1", correction_mode |-> 0, context_size |-> "own", hotkey |-> "f7", silent_hotkey |-> ""],
   [model_path |-> "m1", ac_same_as_chat |-> FALSE, ac_model_path |-> "m2", prompts |-> "old",
    silent_hotkey |-> "f8", threshold |-> "drifted", custom_templates |-> <<Template("Email", "shipped")>>,
    correction_modes |-> <<>>],
   Without([Defaults EXCEPT !.model_path = "m1", !.chat_model_path = "m1", !.llama_server_path = "found",
                            !.correction_modes = <<CustomMode("Patch", "1.0"), CustomMode("Mine", "0.7")>>],
           {"protected_terms"})}

MCInit ==
  /\ about \in {"settings", "history"}
  /\ SettingsInit /\ (about = "history" => file = <<>>)
  /\ HistoryInit /\ (about = "settings" => enabled)

MCNext ==
  \/ about = "settings" /\ SettingsNext /\ UNCHANGED <<historyVars, about>>
  \/ about = "history" /\ HistoryNext /\ UNCHANGED <<settingsVars, about>>

MCSpec == MCInit /\ [][MCNext]_<<settingsVars, historyVars, about>>
=============================================================================
