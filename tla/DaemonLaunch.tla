----------------------------- MODULE DaemonLaunch -----------------------------
(***************************************************************************)
(* How the application gets its native daemon (core/native_daemon.py,      *)
(* app.py, the main function of stet-core): it ends daemons left over from *)
(* earlier runs, starts its own, hands it a fresh secret over stdin and    *)
(* greets whoever holds the pipe.  The application may be killed at any    *)
(* moment and started again; an end asked of a process takes its time.     *)
(***************************************************************************)
EXTENDS Naturals

CONSTANT MaxRuns  \* bound: runs of the application

ASSUME LaunchAssumption == MaxRuns \in Nat

VARIABLES
  run,     \* how many times the application was started
  app,     \* "stop stale", "spawn", "write", "check", "open", "greet", "connected", "fallback", "dead"
  old,     \* a daemon of an earlier run: "none", "booting", "serving", "dying"
  mine,    \* the daemon of this run: the same
  stdin,   \* of mine: "open", "whole" once the bootstrap is written, "cut" if closed without it
  tied,     \* whether mine ends with the application
  holder,  \* of the pipe's name: "nobody", "old", "mine"
  peer     \* the one the application is connected to

launchVars == <<run, app, old, mine, stdin, tied, holder, peer>>

LaunchInit ==
  /\ run = 1 /\ app = "stop stale"
  /\ old \in {"none", "serving"} /\ holder = (IF old = "serving" THEN "old" ELSE "nobody")
  /\ mine = "none" /\ stdin = "open" /\ tied = FALSE /\ peer = "nobody"

Ended(process) == IF process \in {"booting", "serving"} THEN "dying" ELSE process

\* _terminate_stale_daemons: a process that cannot be opened is passed over.
StopStale ==
  /\ app = "stop stale"
  /\ old' \in {old, Ended(old)}
  /\ app' = "spawn"
  /\ UNCHANGED <<run, mine, stdin, tied, holder, peer>>

\* The binary is missing, or the process does not start.
NoDaemon ==
  /\ app = "spawn"
  /\ app' = "fallback"
  /\ UNCHANGED <<run, old, mine, stdin, tied, holder, peer>>

Spawn ==
  /\ app = "spawn"
  /\ app' = "write" /\ mine' = "booting" /\ stdin' = "open" /\ tied' \in BOOLEAN
  /\ UNCHANGED <<run, old, holder, peer>>

\* Whatever fails once the process was started, the application ends it and goes on
\* without: the write raised, the process is gone, the pipe did not appear in time,
\* is busy or broke, or the answer to hello was not "authenticated".
GiveUp ==
  /\ app \in {"write", "check", "open", "greet"}
  /\ app' = "fallback" /\ peer' = "nobody" /\ mine' = Ended(mine)
  /\ UNCHANGED <<run, old, stdin, tied, holder>>

WriteBootstrap ==
  /\ app = "write" /\ mine = "booting"
  /\ app' = "check" /\ stdin' = "whole"
  /\ UNCHANGED <<run, old, mine, tied, holder, peer>>

StillAlive ==
  /\ app = "check" /\ mine # "none"
  /\ app' = "open"
  /\ UNCHANGED <<run, old, mine, stdin, tied, holder, peer>>

\* Opening retries while no one holds the name.
OpenPipe ==
  /\ app = "open" /\ holder # "nobody"
  /\ app' = "greet" /\ peer' = holder
  /\ UNCHANGED <<run, old, mine, stdin, tied, holder>>

\* Mutant of Greeted: any answer will do.
GreetedAnyhow ==
  /\ app = "greet" /\ peer = holder
  /\ app' = "connected"
  /\ UNCHANGED <<run, old, mine, stdin, tied, holder, peer>>

\* Only a daemon that was given this run's secret finds the proof right.
Greeted ==
  /\ app = "greet" /\ peer = "mine" /\ holder = "mine" /\ mine = "serving"
  /\ app' = "connected"
  /\ UNCHANGED <<run, old, mine, stdin, tied, holder, peer>>

-----------------------------------------------------------------------------
\* main of the daemon: no bootstrap, no service; and no service under a name that
\* another process holds (FILE_FLAG_FIRST_PIPE_INSTANCE).
Serve ==
  /\ mine = "booting" /\ stdin = "whole" /\ holder = "nobody"
  /\ mine' = "serving" /\ holder' = "mine"
  /\ UNCHANGED <<run, app, old, stdin, tied, peer>>

Refuse ==
  /\ mine = "booting"
  /\ \/ stdin = "cut"
     \/ stdin = "whole"   \* the name is held, or its security could not be built
  /\ mine' = "none"
  /\ UNCHANGED <<run, app, old, stdin, tied, holder, peer>>

\* A process told to end does, and its name is free.
MineEnds ==
  /\ mine = "dying"
  /\ mine' = "none" /\ holder' = IF holder = "mine" THEN "nobody" ELSE holder
  /\ UNCHANGED <<run, app, old, stdin, tied, peer>>

OldEnds ==
  /\ old = "dying"
  /\ old' = "none" /\ holder' = IF holder = "old" THEN "nobody" ELSE holder
  /\ UNCHANGED <<run, app, mine, stdin, tied, peer>>

-----------------------------------------------------------------------------
\* The application is killed.  The job object takes its daemon along; one that
\* still waits for its bootstrap reads the end of stdin.
Killed ==
  /\ app # "dead"
  /\ app' = "dead" /\ peer' = "nobody"
  /\ stdin' = IF stdin = "open" THEN "cut" ELSE stdin
  /\ mine' = IF tied THEN Ended(mine) ELSE mine
  /\ UNCHANGED <<run, old, tied, holder>>

\* Of an earlier daemon and this run's, at most one is left when it starts again.
Restart ==
  /\ app = "dead" /\ run < MaxRuns
  /\ old = "none" \/ mine = "none"
  /\ mine \in {"none", "serving", "dying"}
  /\ run' = run + 1 /\ app' = "stop stale"
  /\ IF mine = "none" THEN UNCHANGED <<old, holder>>
     ELSE old' = mine /\ holder' = IF holder = "mine" THEN "old" ELSE holder
  /\ mine' = "none" /\ stdin' = "open" /\ tied' = FALSE
  /\ UNCHANGED peer

LaunchNext ==
  \/ StopStale \/ NoDaemon \/ Spawn \/ GiveUp \/ WriteBootstrap \/ StillAlive \/ OpenPipe \/ Greeted
  \/ Serve \/ Refuse \/ MineEnds \/ OldEnds
  \/ Killed \/ Restart

-----------------------------------------------------------------------------
\* The application that takes itself for connected is connected to the daemon it
\* started in this run, also when one of an earlier run could not be ended and still
\* holds the pipe; and one that goes on without a daemon leaves none of its own
\* behind that would go on to serve (app.py: "falling back to direct Win32").
LaunchIsClean ==
  /\ app = "connected" => peer = "mine" /\ stdin = "whole"
  /\ app = "fallback" => mine \notin {"booting", "serving"}
=============================================================================
