---------------------------- MODULE MacPasteboard ----------------------------
(***************************************************************************)
(* Capture and paste on macOS (core/input_macos.py, clipboard_macos.py and *)
(* their callers in app.py).  Where accessibility does not give the        *)
(* selected text, the application has the target copy it, and it pastes by *)
(* writing the general pasteboard and sending Command-V; both borrow the   *)
(* user's pasteboard, and the change count is the only evidence of whose   *)
(* content is on it.  Pastes run on threads of their own: of the window,   *)
(* of a silent correction, of an undo.                                     *)
(***************************************************************************)
EXTENDS Naturals, FiniteSets

CONSTANTS
  Pastes,       \* the pastes that may be asked for
  MaxCaptures,  \* bound: captures
  MaxMine       \* bound: copies the user makes

ASSUME MacAssumption == MaxCaptures \in Nat /\ MaxMine \in Nat /\ "main" \notin Pastes

VARIABLES
  board,      \* what is on the pasteboard
  count,      \* its changeCount: how often it was taken
  ours,       \* Stet was the last to take it: only then it may write
  copying,    \* Command-C the target has yet to handle
  original,   \* _mac_clipboard_snapshot
  capturedAt, \* _mac_clipboard_change_count
  ownCount,   \* _last_capture_change_count
  cap,        \* the worker that captures: where it is, its snapshot, the count it saw
  paste,      \* per paste: where it is, what it was given and what it keeps
  back,       \* per thread: the restoration it owes
  captures, mine, \* used of the bounds; the user's last copy is the mine-th
  lost        \* history: what happened that may cost the user's copy

macVars == <<board, count, ours, copying, original, capturedAt, ownCount, cap, paste, back, captures, mine, lost>>

User(n) == [by |-> "user", n |-> n]
Selected == [by |-> "target", n |-> 0]
Fix == [by |-> "stet", n |-> 0]
Cleared == [by |-> "nobody", n |-> 0]

\* None: no snapshot, no change count.
NoSnapshot == [count |-> 0, items |-> Cleared]
NothingOwed == [at |-> "no", value |-> Cleared, expected |-> 0]

MacInit ==
  /\ board = User(0) /\ count = 1 /\ ours = FALSE /\ copying = 0
  /\ original = NoSnapshot /\ capturedAt = 0 /\ ownCount = 0
  /\ cap = [pc |-> "idle", snap |-> NoSnapshot, seen |-> 0]
  /\ paste = [p \in Pastes |-> [pc |-> "none", silent |-> FALSE, original |-> NoSnapshot, value |-> Cleared]]
  /\ back = [h \in Pastes \cup {"main"} |-> NothingOwed]
  /\ captures = 0 /\ mine = 0 /\ lost = {}

\* Threads that have a hand on the pasteboard, besides h.
Others(h) ==
  {q \in Pastes \ {h} : paste[q].pc \notin {"none", "done"}}
  \cup {g \in DOMAIN back \ {h} : back[g].at # "no"}
  \cup (IF h # "main" /\ cap.pc \in {"count", "poll", "read", "settle"} THEN {"main"} ELSE {})
Overlap(h) == IF Others(h) = {} THEN {} ELSE {"overlap"}

\* clearContents: the one call that takes the pasteboard, and counts.
Take(content) == board' = content /\ count' = count + 1
Clear == Take(Cleared) /\ ours' = TRUE

\* setString and writeObjects: refused when another program has taken the pasteboard
\* since, whose content then is what counts.
Write(content) == ours /\ board' = content /\ UNCHANGED <<count, ours>>
Refused == UNCHANGED <<board, count, ours>> /\ lost' = IF ours THEN lost \cup {"refused"} ELSE lost
Owe(h, value, expected) == back' = [back EXCEPT ![h] = [at |-> "check", value |-> value, expected |-> expected]]

-----------------------------------------------------------------------------
(* restore_snapshot: a look at the change count, then the old content, of  *)
(* which an empty one is put back by clearing once more.                   *)

RestoreCheck(h) ==
  /\ back[h].at = "check"
  /\ IF count = back[h].expected THEN back' = [back EXCEPT ![h].at = "put"] ELSE back' = [back EXCEPT ![h] = NothingOwed]
  /\ UNCHANGED <<board, count, ours, lost>>

RestoreClear(h) ==
  /\ back[h].at = "put" /\ Clear
  /\ back' = [back EXCEPT ![h].at = "write"]
  /\ lost' = IF count # back[h].expected THEN lost \cup {"raced"} ELSE lost

RestoreWrite(h) ==
  /\ back[h].at = "write"
  /\ back' = [back EXCEPT ![h] = NothingOwed]
  /\ IF back[h].value = Cleared
     THEN Clear /\ lost' = IF ours THEN lost ELSE lost \cup {"raced"}
     ELSE \/ Write(back[h].value) /\ UNCHANGED lost
          \/ Refused

RestoreStep(h) ==
  /\ RestoreCheck(h) \/ RestoreClear(h) \/ RestoreWrite(h)
  /\ UNCHANGED <<copying, original, capturedAt, ownCount, cap, paste, captures, mine>>

-----------------------------------------------------------------------------
(* capture_selection, on the worker of a hotkey.                           *)

\* What the application keeps of a capture: nothing, unless the text came over
\* the pasteboard.
NoCapture == original' = NoSnapshot /\ capturedAt' = 0 /\ cap' = [cap EXCEPT !.pc = "idle"]

CaptureBegin ==
  /\ cap.pc = "idle" /\ back["main"].at = "no" /\ captures < MaxCaptures
  /\ ~\E p \in Pastes : paste[p].silent /\ paste[p].pc \notin {"none", "done"}
  /\ captures' = captures + 1 /\ ownCount' = 0
  \* no foreground application, or accessibility has the text
  /\ \/ NoCapture
     \/ cap' = [cap EXCEPT !.pc = "snapshot"] /\ UNCHANGED <<original, capturedAt>>
  /\ UNCHANGED <<board, count, ours, copying, paste, back, mine, lost>>

\* snapshot_pasteboard: the items, then the change count.  The pasteboard may be
\* unreadable, and Command-C may not be permitted.
CaptureSnapshot ==
  /\ cap.pc = "snapshot"
  /\ \/ NoCapture /\ UNCHANGED lost
     \/ /\ cap' = [cap EXCEPT !.pc = "count", !.snap.items = board]
        /\ lost' = lost \cup Overlap("main")
        /\ UNCHANGED <<original, capturedAt>>
  /\ UNCHANGED <<board, count, ours, copying, ownCount, paste, back, captures, mine>>

CaptureCount ==
  /\ cap.pc = "count"
  /\ \/ NoCapture /\ UNCHANGED copying
     \/ /\ cap' = [cap EXCEPT !.pc = "poll", !.snap.count = count]
        /\ copying' = copying + 1
        /\ UNCHANGED <<original, capturedAt>>
  /\ UNCHANGED <<board, count, ours, ownCount, paste, back, captures, mine, lost>>

\* The target handles Command-C when it gets to it, if it has a selection.
TargetCopies ==
  /\ copying > 0 /\ copying' = copying - 1
  /\ \/ Take(Selected) /\ ours' = FALSE /\ lost' = IF cap.pc = "poll" THEN lost ELSE lost \cup {"late copy"}
     \/ UNCHANGED <<board, count, ours, lost>>
  /\ UNCHANGED <<original, capturedAt, ownCount, cap, paste, back, captures, mine>>

CapturePoll ==
  /\ cap.pc = "poll"
  /\ IF count # cap.snap.count
     THEN cap' = [cap EXCEPT !.pc = "read", !.seen = count] /\ UNCHANGED <<original, capturedAt>>
     ELSE NoCapture  \* the deadline
  /\ UNCHANGED <<board, count, ours, copying, ownCount, paste, back, captures, mine, lost>>

\* What was copied may have no text.
CaptureRead ==
  /\ cap.pc = "read"
  /\ \/ /\ board # Cleared
        /\ ownCount' = cap.seen /\ original' = cap.snap /\ capturedAt' = cap.seen
        /\ cap' = [cap EXCEPT !.pc = "settle"]
        /\ UNCHANGED back
     \/ NoCapture /\ UNCHANGED ownCount /\ Owe("main", cap.snap.items, cap.seen)
  /\ UNCHANGED <<board, count, ours, copying, paste, captures, mine, lost>>

\* _restore_macos_clipboard: the window has the text, or there is nothing to paste.
Settle ==
  /\ cap.pc = "settle" /\ cap' = [cap EXCEPT !.pc = "idle"]
  /\ Owe("main", original.items, capturedAt)
  /\ UNCHANGED <<board, count, ours, copying, original, capturedAt, ownCount, paste, captures, mine, lost>>

-----------------------------------------------------------------------------
(* paste_text.                                                             *)

PasteGoto(p, to) == paste' = [paste EXCEPT ![p].pc = to]

\* By the silent worker, which is then done with its capture, or by the window's
\* or the undo's thread, with what the application remembers of the last capture.
PasteBegin(p) ==
  /\ paste[p].pc = "none" /\ captures > 0
  /\ \E silent \in BOOLEAN :
       /\ silent => cap.pc = "settle"
       /\ cap' = IF silent THEN [cap EXCEPT !.pc = "idle"] ELSE cap
       /\ paste' = [paste EXCEPT ![p].pc = "activate", ![p].silent = silent, ![p].original = original]
  /\ UNCHANGED <<board, count, ours, copying, original, capturedAt, ownCount, back, captures, mine, lost>>

\* _activate_target and, when the target has gone or lost the focus,
\* _restore_capture_if_owned, which gives up when it cannot read the pasteboard.
PasteActivate(p) ==
  /\ paste[p].pc = "activate"
  /\ \/ PasteGoto(p, "snapshot") /\ UNCHANGED back /\ lost' = lost \cup Overlap(p)
     \/ /\ PasteGoto(p, "done")
        /\ IF paste[p].original # NoSnapshot /\ ownCount # 0 /\ count = ownCount
           THEN Owe(p, paste[p].original.items, ownCount) ELSE UNCHANGED back
        /\ lost' = lost \cup Overlap(p)
     \/ PasteGoto(p, "done") /\ UNCHANGED back /\ lost' = lost \cup {"refused"}
  /\ UNCHANGED <<board, count, ours, copying, original, capturedAt, ownCount, cap, captures, mine>>

\* Mutant of Owned: the count the capture saw is not looked at.
OwnedBefore(p) == paste[p].original # NoSnapshot /\ count = paste[p].original.count

\* capture_owned: what is on the board is ours, or what the capture found there.
Owned(p) == paste[p].original # NoSnapshot /\ count \in {paste[p].original.count, ownCount}

\* snapshot_pasteboard again: the items, then the count.
PasteSnapshot(p) ==
  /\ paste[p].pc = "snapshot"
  /\ \/ /\ paste' = [paste EXCEPT ![p].pc = "owned", ![p].value = board]
        /\ lost' = lost \cup Overlap(p)
     \/ PasteGoto(p, "done") /\ lost' = lost \cup {"refused"}
  /\ UNCHANGED <<board, count, ours, copying, original, capturedAt, ownCount, cap, back, captures, mine>>

PasteOwned(p) ==
  /\ paste[p].pc = "owned"
  /\ paste' = [paste EXCEPT ![p].pc = "clear", ![p].value = IF Owned(p) THEN paste[p].original.items ELSE @]
  /\ UNCHANGED <<board, count, ours, copying, original, capturedAt, ownCount, cap, back, captures, mine, lost>>

\* write_text: clear, write, and read the count that is to show that the text is Stet's.
PasteClear(p) ==
  /\ paste[p].pc = "clear" /\ Clear /\ PasteGoto(p, "text")
  /\ UNCHANGED <<copying, original, capturedAt, ownCount, cap, back, captures, mine, lost>>

PasteText(p) ==
  /\ paste[p].pc = "text"
  /\ \/ Write(Fix) /\ PasteGoto(p, "count") /\ UNCHANGED lost
     \/ Refused /\ PasteGoto(p, "done")
  /\ UNCHANGED <<copying, original, capturedAt, ownCount, cap, back, captures, mine>>

PasteCount(p) ==
  /\ paste[p].pc = "count" /\ PasteGoto(p, "post") /\ Owe(p, paste[p].value, count)
  /\ UNCHANGED <<board, count, ours, copying, original, capturedAt, ownCount, cap, captures, mine, lost>>

\* Command-V; the old content is put back 0.55 s later on another thread, or at
\* once when the key could not be sent.
PastePost(p) ==
  /\ paste[p].pc = "post" /\ PasteGoto(p, "done")
  /\ UNCHANGED <<board, count, ours, copying, original, capturedAt, ownCount, cap, back, captures, mine, lost>>

-----------------------------------------------------------------------------
\* Where a copy of the user's cannot be told from what Stet expects on the pasteboard.
Blind ==
  (IF cap.pc \in {"count", "poll", "read"} THEN {"copied during a capture"} ELSE {})
  \cup (IF \E p \in Pastes : paste[p].pc \in {"owned", "clear", "count"} THEN {"copied during a paste"} ELSE {})

MacCopies ==
  /\ mine < MaxMine /\ mine' = mine + 1
  /\ Take(User(mine')) /\ ours' = FALSE
  /\ lost' = lost \cup Blind
  /\ UNCHANGED <<copying, original, capturedAt, ownCount, cap, paste, back, captures>>

PasteMove(p) ==
  \/ PasteBegin(p) \/ PasteActivate(p) \/ PasteSnapshot(p) \/ PasteOwned(p)
  \/ PasteClear(p) \/ PasteText(p) \/ PasteCount(p) \/ PastePost(p)

MacNext ==
  \/ CaptureBegin \/ CaptureSnapshot \/ CaptureCount \/ CapturePoll \/ CaptureRead \/ Settle
  \/ \E p \in Pastes : PasteMove(p)
  \/ \E h \in DOMAIN back : (h \in Pastes => paste[h].pc = "done") /\ RestoreStep(h)
  \/ TargetCopies \/ MacCopies

MacSpec == MacInit /\ [][MacNext]_macVars

-----------------------------------------------------------------------------
AtRest ==
  /\ cap.pc = "idle" /\ copying = 0
  /\ \A p \in Pastes : paste[p].pc \in {"none", "done"}
  /\ \A h \in DOMAIN back : back[h].at = "no"

\* The user's clipboard comes back (capture_selection, paste_text: "If the clipboard
\* changed after capture, that newer content belongs to the user"): at rest the
\* pasteboard holds what the user copied last, in whatever order captures, pastes,
\* restorations and the user's own copies fell, also between the clearing of the
\* pasteboard and the writing, unless one of a few named things happened: the target
\* copied after the capture had given up; the user copied while a capture waited, or
\* after the clipboard was read for a paste and before it was cleared, or between the
\* writing of the text and the reading of its change count; a paste began before the
\* last one had put the clipboard back; the pasteboard could not be read or refused
\* what its owner wrote; or the user copied between the look at the change count and
\* the clearing for a restoration.
ClipboardComesBack == AtRest /\ lost = {} => board = User(mine)

=============================================================================
