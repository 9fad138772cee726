--------------------------- MODULE MCHotkeyOwner ---------------------------
(* Values for the constants of HotkeyOwner: the hotkey sets a user saves, and *)
(* what may happen under each setting of hotkey_host.  Where the program runs *)
(* on macOS, MacHotkeys moves and the Windows registrar stands still.         *)
EXTENDS HotkeyOwner, MacHotkeys

CONSTANT panel

VARIABLE platform

MCOne == [c \in Combos |-> IF c = 1 THEN panel ELSE NoProfile]
MCAll == [c \in Combos |-> panel]
MCConfigs == [rust |-> {MCAll}, python |-> {MCOne, MCAll}]
MCBounds ==
  [rust |-> [saves |-> 0, recordings |-> 0, timeouts |-> 1, deaths |-> 1, refusals |-> 0,
            grabs |-> 0, total |-> 2],
   python |-> [saves |-> 2, recordings |-> 1, timeouts |-> 1, deaths |-> 1, refusals |-> 1,
              grabs |-> 1, total |-> 3]]

MCMacSets == {{1}, {1, 2}}

MCInit ==
  /\ OwnerInit /\ ListenInit /\ platform \in {"windows", "macos"}
  /\ platform = "macos" => host = "rust"

MCNext ==
  /\ UNCHANGED platform
  /\ \/ platform = "windows" /\ OwnerNext /\ UNCHANGED listenVars
     \/ platform = "macos" /\ ListenNext /\ UNCHANGED allVars

MCSpec == MCInit /\ [][MCNext]_<<allVars, listenVars, platform>>

=============================================================================
