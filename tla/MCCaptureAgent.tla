--------------------------- MODULE MCCaptureAgent ---------------------------
(* Values for the constants of CaptureAgent: an editor, a terminal and one of *)
(* Stet's own windows; and the scenarios of one state graph: others use the   *)
(* clipboard; the user presses modifiers and changes the window; or the       *)
(* program runs on macOS, where MacPasteboard stands for the agent.           *)
EXTENDS CaptureAgent, MacPasteboard

CONSTANTS editor, terminal, stet, t1, p1, p2

VARIABLE scenario

MCTerminals == {terminal}
MCIneligible == {stet}
OnlyT1(text) == text \in {t1, NoText}

MCInit ==
    /\ Init /\ MacInit /\ scenario \in {"clipboard", "keys", "macos"}
    /\ \A w \in Windows \ {fg} : scenario = "clipboard" \/ w = stet => selection[w] = NoText
    \* the two texts are alike, and the modifiers are the matter of the other scenario
    /\ OnlyT1(clipText) /\ (scenario = "clipboard" => mods \in {{}, Modifiers})
    /\ scenario # "clipboard" => fg # stet /\ \A w \in Windows : OnlyT1(selection[w])
    /\ scenario = "macos" => fg = NoWindow /\ mods = {} /\ clipText = NoText /\ selection = [w \in Windows |-> NoText]

Within ==
    IF scenario = "keys" THEN used.copies = 0 /\ used.locks = 0 /\ "lockHit" \notin flags /\ fg # stet /\ OnlyT1(req.text)
    ELSE used.presses = 0 /\ used.moves = 0

\* The two pastes are alike.
FirstFirst == paste[p2].pc # "none" => paste[p1].pc # "none"

\* Once the user's copy may be lost the rest is of no interest.
MCNext ==
    /\ UNCHANGED scenario
    /\ \/ scenario # "macos" /\ Next /\ Within' /\ UNCHANGED macVars
       \/ scenario = "macos" /\ lost = {} /\ MacNext /\ FirstFirst' /\ UNCHANGED vars

MCSpec == MCInit /\ [][MCNext]_<<vars, macVars, scenario>> /\ WF_vars(Agent)

=============================================================================
