-------------------------- MODULE CorrectionHistory --------------------------
(***************************************************************************)
(* The history of corrections (core/history.py), one file that every       *)
(* operation reads whole and writes whole under a lock, and who uses it:   *)
(* the silent worker and the correction window, which record; the history  *)
(* window (ui/history_window.py), which lists, removes and clears by rows  *)
(* read earlier; and the threads that try to paste an original back and    *)
(* then mark its entry.  A read may fail part of the way, a replacement    *)
(* for good.                                                               *)
(*                                                                         *)
(* Beside the file there is one undo token in memory, which the undo of    *)
(* any entry uses first.  What it pastes is the business of HotkeyFlow.    *)
(***************************************************************************)
EXTENDS Naturals, Sequences, FiniteSets, SequencesExt

CONSTANTS
  Limit,      \* history_limit
  MaxUses,    \* bound: corrections and actions of the user
  MaxFaults,  \* bound: reads and replacements that fail
  MaxStops    \* bound: stops of the program, at any moment, and starts

ASSUME HistoryAssumption == Limit \in Nat \ {0} /\ {MaxUses, MaxFaults, MaxStops} \subseteq Nat

VARIABLES
  lines,    \* the file: [id, undone] per entry, the oldest first
  enabled, consent, \* _enabled and _consent_granted, and the settings of these names
  token,    \* _last_undo_token: [state, of], "none", "fresh", or "spent": consumed or expired
  undoing,  \* the threads of fallback undos: [id, pc]
  panel,    \* the correction window: [at, n, text, key]
  browser,  \* the history window: [open, rows, row, button]
  made,     \* per entry, in the order they were made: the panel and the text it records
  gone,     \* entries that have left the file
  removed,  \* those the user removed
  tried,    \* entries an undo of which came through its paste without an exception
  marked,   \* entries marked as undone, on disk
  copied,   \* the last "Copy last correction": "none", "latest" or "older"
  latest,   \* the correction, and its text, the user saw last
  unkept,   \* a correction was made while the history was off
  lossy,    \* a read that failed was written back, or a new entry was not written
  faults, uses, stops

store == <<lines, gone, marked, lossy, faults>>
panels == <<panel, made, latest, unkept>>
user == <<enabled, consent, undoing, browser, removed, tried, copied>>
historyVars == <<store, token, panels, user, uses, stops>>

Ids(entries) == {entries[i].id: i \in DOMAIN entries}
Correction(n, text) == [n |-> n, text |-> text]
NoToken == [state |-> "none", of |-> Correction(0, "original")]
Token(n, text) == [state |-> "fresh", of |-> Correction(n, text)]
NoPanel == [at |-> "closed", n |-> 0, text |-> "original", key |-> "none"]
NoBrowser == [open |-> FALSE, rows |-> <<>>, row |-> 0, button |-> FALSE]

-----------------------------------------------------------------------------
(* The store.                                                               *)

\* _save_unlocked: a replacement denied five times leaves the file as it was, and nobody is told.
SaveEntries(entries, misses) ==
  \E denied \in 0..1:
    /\ faults' = faults + misses + denied /\ faults' <= MaxFaults
    /\ lines' = IF denied = 1 THEN lines ELSE entries
    /\ lossy' = (lossy \/ IF denied = 1 THEN ~Ids(entries) \subseteq Ids(lines) ELSE misses = 1)
    /\ gone' = gone \cup (Ids(lines) \ Ids(lines'))
    /\ marked' = marked \cup {lines'[i].id: i \in {j \in DOMAIN lines': lines'[j].undone}}

\* _load_unlocked: what it returns when it fails after k entries, or reads all of them.
LoadEntries(k) == SubSeq(lines, 1, k)

\* A load, a change and a save.  Nothing is saved when the entry the change is about was not read.
Update(wanted, change(_)) ==
  \E k \in 0..Len(lines):
    LET read == LoadEntries(k)
        misses == IF k < Len(lines) THEN 1 ELSE 0
    IN IF wanted \subseteq Ids(read)
         THEN SaveEntries(change(read), misses)
         ELSE /\ faults' = faults + misses /\ faults' <= MaxFaults
              /\ UNCHANGED <<lines, gone, marked, lossy>>

Newest(entries) == SubSeq(entries, IF Len(entries) > Limit THEN Len(entries) - Limit + 1 ELSE 1, Len(entries))

\* Mutant of AddEntry: a full history keeps its oldest entries.
AddEntryKeepsOldest(n, text) ==
  /\ made' = Append(made, Correction(n, text))
  /\ Update({}, LAMBDA read: IF Len(read) = Limit THEN read ELSE Append(read, [id |-> Len(made'), undone |-> FALSE]))

AddEntry(n, text) ==
  /\ made' = Append(made, Correction(n, text))
  /\ Update({}, LAMBDA read: Newest(Append(read, [id |-> Len(made'), undone |-> FALSE])))

\* add() refuses without consent, and a pair that is no correction.
Records(text) == enabled /\ consent /\ text # "original"
AddIfKept(n, text) ==
  /\ IF Records(text) THEN AddEntry(n, text) ELSE UNCHANGED <<store, made>>
  /\ latest' = IF text = "original" THEN latest ELSE Correction(n, text)
  /\ unkept' = (unkept \/ (text # "original" /\ ~Records(text)))

\* All that have the identifier, which is one.
RemoveEntry(id) ==
  Update({id}, LAMBDA read: RemoveAt(read, CHOOSE i \in DOMAIN read: read[i].id = id))
MarkUndone(id) ==
  Update({id}, LAMBDA read: [i \in DOMAIN read |-> [read[i] EXCEPT !.undone = @ \/ read[i].id = id]])

-----------------------------------------------------------------------------
(* The corrections.                                                         *)

Use == uses < MaxUses /\ uses' = uses + 1

SilentCorrection ==
  /\ Use /\ panel.at = "closed"
  /\ AddIfKept(panel.n + 1, "fix") /\ panel' = [panel EXCEPT !.n = @ + 1]
  /\ token' = Token(panel.n + 1, "fix")
  /\ UNCHANGED <<user, stops>>

\* _record_panel_history: once for each text that follows another.
RecordPanel(p) ==
  IF p.text = p.key
    THEN panel' = p /\ UNCHANGED <<store, made, latest, unkept>>
    ELSE AddIfKept(p.n, p.text) /\ panel' = IF Records(p.text) THEN [p EXCEPT !.key = p.text] ELSE p

PanelReady ==
  /\ Use /\ panel.at = "closed"
  /\ RecordPanel([NoPanel EXCEPT !.at = "open", !.n = panel.n + 1, !.text = "fix"])
  /\ UNCHANGED <<token, user, stops>>

\* The user edits the text, or takes changes back.
ChangeText ==
  /\ Use /\ panel.at = "open"
  /\ \E text \in {"original", "fix", "typed"} \ {panel.text}: panel' = [panel EXCEPT !.text = text]
  /\ UNCHANGED <<store, token, user, made, latest, unkept, stops>>

CopyOrClose ==
  /\ Use /\ panel.at = "open"
  /\ \E at \in {"open", "accepted", "closed"}: RecordPanel([panel EXCEPT !.at = at])
  /\ UNCHANGED <<token, user, stops>>

\* _paste_text, one round of the event loop after Accept closed the window.
PasteAccepted ==
  /\ panel.at = "accepted"
  /\ RecordPanel([panel EXCEPT !.at = "closed"])
  /\ token' = Token(panel.n, panel.text)
  /\ UNCHANGED <<user, uses, stops>>

\* "Copy last correction": of the window, or else the newest of the history, or else of the token,
\* used or not.  Reads that only show are taken to succeed.
CopyLast ==
  /\ Use
  /\ LET ofPanel == panel.at # "closed" /\ panel.text # "original"
         found == IF lines = <<>> THEN token.of ELSE made[Last(lines).id]
     IN /\ ofPanel \/ found # NoToken.of
        /\ copied' = IF ofPanel \/ found = latest THEN "latest" ELSE "older"
  /\ UNCHANGED <<store, token, panels, enabled, consent, undoing, browser, removed, tried, stops>>

-----------------------------------------------------------------------------
(* The history window.                                                      *)

Entry(id) == SelectSeq(lines, LAMBDA e: e.id = id)

\* _on_selection_changed: a row whose entry is gone leaves the button as it was.
Selected(b, row, entries) ==
  LET entry == SelectSeq(entries, LAMBDA e: e.id = b.rows[row])
  IN [b EXCEPT !.row = row, !.button = IF entry = <<>> THEN @ ELSE ~entry[1].undone]

\* _refresh: the newest first, and that one selected.
Refreshed(entries) ==
  LET all == [NoBrowser EXCEPT !.open = TRUE, !.rows = Reverse([i \in DOMAIN entries |-> entries[i].id])]
  IN IF entries = <<>> THEN all ELSE Selected(all, 1, entries)

OpenBrowser ==
  /\ Use
  /\ browser' = Refreshed(lines)
  /\ UNCHANGED <<store, token, panels, enabled, consent, undoing, removed, tried, copied, stops>>

SelectRow ==
  /\ Use
  /\ \E row \in DOMAIN browser.rows: browser' = Selected(browser, row, lines)
  /\ UNCHANGED <<store, token, panels, enabled, consent, undoing, removed, tried, copied, stops>>

DeleteEntry ==
  /\ Use /\ browser.row # 0
  /\ LET id == browser.rows[browser.row]
     IN RemoveEntry(id) /\ removed' = removed \cup (IF id \in Ids(lines') THEN {} ELSE {id})
  /\ browser' = Refreshed(lines')
  /\ UNCHANGED <<token, panels, enabled, consent, undoing, tried, copied, stops>>

ClearAll ==
  /\ Use /\ browser.open
  /\ SaveEntries(<<>>, 0)
  /\ removed' = removed \cup (Ids(lines) \ Ids(lines'))
  /\ browser' = Refreshed(lines')
  /\ UNCHANGED <<token, panels, enabled, consent, undoing, tried, copied, stops>>

Toggle ==
  /\ Use /\ browser.open
  /\ enabled' = ~enabled /\ consent' = (consent \/ enabled')
  /\ UNCHANGED <<store, token, panels, undoing, browser, removed, tried, copied, stops>>

Spent == IF token.state = "none" THEN token ELSE [token EXCEPT !.state = "spent"]

\* _undo_entry, and _undo_correction: whatever the entry, a token there is goes first.
UndoEntry ==
  /\ Use /\ browser.row # 0 /\ browser.button
  /\ browser' = NoBrowser
  /\ LET id == browser.rows[browser.row]
         entry == Entry(id)
     IN IF token.state = "none" /\ consent /\ entry # <<>> /\ ~entry[1].undone
          THEN undoing' = Append(undoing, [id |-> id, pc |-> "paste"]) /\ UNCHANGED token
          ELSE token' = Spent /\ UNCHANGED undoing
  /\ UNCHANGED <<store, panels, enabled, consent, removed, tried, copied, stops>>

CloseBrowser ==
  /\ Use /\ browser.open /\ browser' = NoBrowser
  /\ UNCHANGED <<store, token, panels, enabled, consent, undoing, removed, tried, copied, stops>>

-----------------------------------------------------------------------------
(* Undo.                                                                    *)

\* Nothing asks whether the target took the original: without a target on macOS, or when
\* paste_text refuses, the thread goes on to mark the entry as if it had.
UndoPastes(i) ==
  /\ undoing[i].pc = "paste"
  /\ undoing' = [undoing EXCEPT ![i].pc = "mark"]
  /\ tried' = tried \cup {undoing[i].id}
  /\ UNCHANGED <<store, token, panels, enabled, consent, browser, removed, copied, uses, stops>>

\* A paste that raises an exception marks nothing.
UndoEnds(i) ==
  /\ \/ undoing[i].pc = "mark" /\ MarkUndone(undoing[i].id)
     \/ undoing[i].pc = "paste" /\ UNCHANGED store
  /\ undoing' = RemoveAt(undoing, i)
  /\ UNCHANGED <<token, panels, enabled, consent, browser, removed, tried, copied, uses, stops>>

\* Five minutes pass, or an undo from the notice consumes it; the undo of the tray removes it.
TokenEnds ==
  /\ token.state # "none" /\ token' \in {Spent, NoToken} \ {token}
  /\ UNCHANGED <<store, panels, user, uses, stops>>

\* Who kept a history before consent was asked for has consented.
StopAndStart ==
  /\ stops < MaxStops /\ stops' = stops + 1
  /\ token' = NoToken /\ undoing' = <<>> /\ browser' = NoBrowser
  /\ panel' = [NoPanel EXCEPT !.n = panel.n]
  /\ consent' = (consent \/ enabled)
  /\ UNCHANGED <<store, made, latest, unkept, enabled, removed, tried, copied, uses>>

HistoryInit ==
  /\ lines = <<>> /\ made = <<>>
  /\ enabled \in BOOLEAN /\ consent = enabled
  /\ token = NoToken /\ undoing = <<>> /\ panel = NoPanel /\ browser = NoBrowser
  /\ gone = {} /\ removed = {} /\ tried = {} /\ marked = {}
  /\ copied = "none" /\ latest = NoToken.of /\ unkept = FALSE
  /\ lossy = FALSE /\ faults = 0 /\ uses = 0 /\ stops = 0

HistoryNext ==
  \/ SilentCorrection \/ PanelReady \/ ChangeText \/ CopyOrClose \/ PasteAccepted \/ CopyLast
  \/ OpenBrowser \/ SelectRow \/ DeleteEntry \/ ClearAll \/ Toggle \/ UndoEntry \/ CloseBrowser
  \/ \E i \in DOMAIN undoing: UndoPastes(i) \/ UndoEnds(i)
  \/ TokenEnds \/ StopAndStart

-----------------------------------------------------------------------------
NothingReturns == gone \cap Ids(lines) = {}

LostOnlyForLater ==
  \A id \in DOMAIN made \ Ids(lines): id \in removed \/ lossy \/ Len(made) - id >= Limit

ListedInOrder ==
  /\ Len(lines) <= Limit
  /\ \A i, j \in DOMAIN lines: i < j => lines[i].id < lines[j].id

\* "Undone" is not of another entry, and it is not taken back.
UndoneWasTried ==
  \A i \in DOMAIN lines: /\ lines[i].undone => lines[i].id \in tried
                         /\ lines[i].id \in marked => lines[i].undone

\* A panel does not record one text twice in a row.
RecordedOnce ==
  \A i, j \in DOMAIN made:
    i < j /\ made[i] = made[j] => \E k \in i..j: made[k].text # made[i].text

CopiesLatest == copied = "older" => unkept \/ lossy \/ removed # {}

\* The history keeps the latest corrections in their order; what was removed, cleared or pushed out
\* does not come back by a write that began with an older read, an entry is lost early only to a
\* read or a write that failed, the last correction is the one "Copy last correction" copies, and
\* an entry is "undone" for good after an undo of that entry came through its paste, which does not
\* say that the target took it (CorrectionHistory.add, mark_undone, remove, clear;
\* StetApp._undo_correction).
HistoryFaithful ==
  NothingReturns /\ LostOnlyForLater /\ ListedInOrder /\ UndoneWasTried /\ RecordedOnce /\ CopiesLatest
=============================================================================
