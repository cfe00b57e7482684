-------------------------- MODULE ServiceLifespan --------------------------
(***************************************************************************)
(* The process and its maintenance thread.                                 *)
(*                                                                         *)
(* Importing the module constructs the application, start-up cleanup       *)
(* included.  Each time a server enters the lifespan of the application    *)
(* `start` creates a thread, which waits for the interval or for the stop  *)
(* event, whichever comes first; `stop` sets the event and joins the       *)
(* thread.  Event and runner object outlive a lifespan: a server, or a     *)
(* test client, may enter the lifespan of the same application again.      *)
(***************************************************************************)

CONSTANTS
  Threads,    \* maintenance threads a process can create, one per lifespan
  NoThread

ASSUME ThreadAssumption == NoThread \notin Threads

VARIABLES
  app,        \* of the process: down, cleaning, built, serving, leaving
  stopEvent,  \* _PeriodicAssetMaintenance._stop_event
  runner,     \* _PeriodicAssetMaintenance._thread
  thread      \* what each thread is doing

lifespanVars == <<app, stopEvent, runner, thread>>

\* create_app: recovery and start-up cleanup run before anything is served.
\* (Nothing has been touched when the interval is invalid: the process ends.)
StartProcess ==
  /\ app = "down"
  /\ app' = "cleaning"
  /\ stopEvent' = FALSE
  /\ runner' = NoThread
  /\ thread' = [t \in Threads |-> "unborn"]

\* The runner is constructed, and not started.
ConstructionEnds ==
  /\ app = "cleaning"
  /\ app' = "built"
  /\ UNCHANGED <<stopEvent, runner, thread>>

\* Mutant of Start: the event of the lifespan before is not cleared.
StartUncleared(t) ==
  /\ runner = NoThread
  /\ runner' = t
  /\ thread' = [thread EXCEPT ![t] = "waiting"]
  /\ UNCHANGED stopEvent

\* _PeriodicAssetMaintenance.start
Start(t) ==
  /\ runner = NoThread
  /\ stopEvent' = FALSE
  /\ runner' = t
  /\ thread' = [thread EXCEPT ![t] = "waiting"]

\* A server enters the lifespan; there is always a thread left that has not
\* been created (Threads bounds the lifespans of one process).
EnterLifespan(t) ==
  /\ app = "built"
  /\ thread[t] = "unborn"
  /\ Start(t)
  /\ app' = "serving"

\* Mutant of LeaveLifespan: stop does not join the thread.
LeaveWithoutJoin ==
  /\ app = "serving"
  /\ app' = "built"
  /\ stopEvent' = TRUE
  /\ runner' = NoThread
  /\ UNCHANGED thread

\* The server leaves the lifespan: stop sets the event and starts to join.
LeaveLifespan ==
  /\ app = "serving"
  /\ app' = "leaving"
  /\ stopEvent' = TRUE
  /\ UNCHANGED <<runner, thread>>

\* The thread has ended, join returns and stop forgets it.
Joined ==
  /\ app = "leaving"
  /\ runner # NoThread => thread[runner] = "ended"
  /\ app' = "built"
  /\ runner' = NoThread
  /\ UNCHANGED <<stopEvent, thread>>

\* Mutant of IntervalElapses: the loop sleeps without looking at the event.
SleepElapses(t) ==
  /\ thread[t] = "waiting"
  /\ thread' = [thread EXCEPT ![t] = "cycle"]
  /\ UNCHANGED <<app, stopEvent, runner>>

\* wait(interval) returns False: a cycle begins.  (A whole interval passes
\* before the first one.)
IntervalElapses(t) ==
  /\ thread[t] = "waiting" /\ ~stopEvent
  /\ thread' = [thread EXCEPT ![t] = "cycle"]
  /\ UNCHANGED <<app, stopEvent, runner>>

\* The cycle is over, whether it raised or not.
CycleEnds(t) ==
  /\ thread[t] = "cycle"
  /\ thread' = [thread EXCEPT ![t] = "waiting"]
  /\ UNCHANGED <<app, stopEvent, runner>>

\* wait returns True: the loop, and with it the thread, ends.
ThreadStops(t) ==
  /\ thread[t] = "waiting" /\ stopEvent
  /\ thread' = [thread EXCEPT ![t] = "ended"]
  /\ UNCHANGED <<app, stopEvent, runner>>

\* The interpreter exits once no thread is left: maintenance is no daemon.
Exit ==
  /\ app = "built"
  /\ \A t \in Threads : thread[t] \in {"unborn", "ended"}
  /\ app' = "down"
  /\ UNCHANGED <<stopEvent, runner, thread>>

Die ==
  /\ app # "down"
  /\ app' = "down"
  /\ thread' = [t \in Threads |-> "unborn"]
  /\ UNCHANGED <<stopEvent, runner>>

LifespanInit ==
  /\ app = "down"
  /\ stopEvent = FALSE
  /\ runner = NoThread
  /\ thread = [t \in Threads |-> "unborn"]

IsAlive(t) == thread[t] \in {"waiting", "cycle"}
=============================================================================
