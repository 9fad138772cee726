----------------------------- MODULE MCAppLifecycle -----------------------------
(***************************************************************************)
(* The life of the application for TLC, one group of its concerns at a     *)
(* time: the groups meet in the modal dialogs and in the retry only, and   *)
(* each scenario has the groups that meet.                                 *)
(***************************************************************************)
EXTENDS AppLifecycle

VARIABLE scenario

Scenarios == {"model", "updates", "setup", "welcome", "launch"}

MCInit ==
    /\ AppInit /\ scenario \in Scenarios
    /\ scenario \in {"model", "updates", "welcome"} => ~missing

\* Starts, kills and the flag matter to each other and to the welcome window.
OneStart == \E i \in Instances : (starts = 0 /\ StartProcess(i)) \/ Attach(i) \/ Create(i) \/ Exit(i)

\* The updates that open dialogs over those of the setup.
Prompts ==
    \/ AutomaticCheck \/ CheckerAnswers \/ OnUpdateAvailable \/ MaybeShowUpdatePopup
    \/ AnswerUpdate

MCNext ==
    /\ UNCHANGED scenario
    /\ \/ IF scenario = "launch" THEN Launches \/ CheckWelcomeFlag ELSE OneStart
       \/ LoadThread \/ ModelSignals \/ HandlerGoesOn \/ TrayQuit
       \/ scenario \in {"model", "welcome"} /\ Loading
       \/ scenario = "updates" /\ (Updates \/ CheckFirstRunDownloads)
       \/ scenario = "setup" /\ (Setup \/ Prompts)
       \/ scenario = "welcome" /\ (CheckFirstRunDownloads \/ Welcome \/ Login)

MCSpec == MCInit /\ [][MCNext]_<<appVars, scenario>> /\ Fairness
=============================================================================
