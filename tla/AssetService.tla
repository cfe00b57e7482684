---------------------------- MODULE AssetService ----------------------------
(***************************************************************************)
(* Uploads, the Asset directory and the maintenance thread in one process. *)
(*                                                                         *)
(* The main thread runs the orphan pass once while the application is      *)
(* constructed; then the event loop runs the upload handlers while the     *)
(* maintenance thread of the present lifespan repeats the pass.  A crash   *)
(* can come at any time.                                                   *)
(***************************************************************************)
EXTENDS AssetUpload, ServiceLifespan

CONSTANT MaxCrashes

ASSUME CrashAssumption == MaxCrashes \in Nat

VARIABLE crashes

vars == <<uploadVars, lifespanVars, crashes>>

-----------------------------------------------------------------------------

Init == UploadInit /\ LifespanInit /\ crashes = 0

Serve(u) ==
  /\ app = "serving"
  /\ Handle(u)
  /\ UNCHANGED <<lifespanVars, crashes>>

Maintain ==
  /\ ListStep
  /\ UNCHANGED <<lifespanVars, crashes>>

TimePasses(i) ==
  /\ GraceEnds(i)
  /\ UNCHANGED <<lifespanVars, crashes>>

\* _build_analysis_use_cases runs the orphan pass before it returns.
Boot == StartProcess /\ BeginPass /\ UNCHANGED crashes

BootEnds ==
  /\ listing = "idle"
  /\ ConstructionEnds
  /\ UNCHANGED <<uploadVars, crashes>>

Enter(t) == EnterLifespan(t) /\ UNCHANGED <<uploadVars, crashes>>

\* The server leaves the lifespan when it has answered what it accepted.
Leave ==
  /\ \A u \in Uploads : ~InProgress(u)
  /\ LeaveLifespan
  /\ UNCHANGED <<uploadVars, crashes>>

Join == Joined /\ UNCHANGED <<uploadVars, crashes>>

\* maintenance_snapshot takes the coordinator's lock for the whole cycle.
BeginCycle(t) == IntervalElapses(t) /\ BeginPass /\ UNCHANGED crashes

\* _run_one_cycle returns; it swallows what the cycle raised.
EndCycle(t) ==
  /\ listing = "idle"
  /\ CycleEnds(t)
  /\ UNCHANGED <<uploadVars, crashes>>

Stop(t) == ThreadStops(t) /\ UNCHANGED <<uploadVars, crashes>>

Quit == Exit /\ UNCHANGED <<uploadVars, crashes>>

Crash ==
  /\ crashes < MaxCrashes
  /\ crashes' = crashes + 1
  /\ Die
  /\ LoseHandlers

Next ==
  \/ \E u \in Uploads : Serve(u)
  \/ Maintain
  \/ \E i \in Ids : TimePasses(i)
  \/ Boot
  \/ BootEnds
  \/ \E t \in Threads : Enter(t)
  \/ Leave
  \/ Join
  \/ \E t \in Threads : BeginCycle(t)
  \/ \E t \in Threads : EndCycle(t)
  \/ \E t \in Threads : Stop(t)
  \/ Quit
  \/ Crash

Spec == Init /\ [][Next]_vars

\* Code that is running goes on, the interval and the grace window elapse, and
\* a process that is down or idle is started or ended.  No client is obliged
\* to send anything, and no server to leave its lifespan.
Fairness ==
  /\ WF_vars(Maintain)
  /\ WF_vars(Boot) /\ WF_vars(BootEnds) /\ WF_vars(Join)
  /\ WF_vars(Quit \/ \E t \in Threads : Enter(t))
  /\ \A t \in Threads : WF_vars(BeginCycle(t) \/ EndCycle(t) \/ Stop(t))
  /\ \A i \in Ids : WF_vars(TimePasses(i))

FairSpec == Spec /\ Fairness

-----------------------------------------------------------------------------
(* Properties *)

TypeOK ==
  /\ upload \in [Uploads -> Answers \cup {"idle", "receiving", "parsed", "allocating",
                                         "writing", "undoing"}]
  /\ kind \in [Uploads -> Kinds]
  /\ total \in [Uploads -> Nat]
  /\ attempts \in [Uploads -> Nat]
  /\ place \in [Uploads -> Ids \cup {NoId}]
  /\ file \in [Ids -> {"absent", "partial", "whole"}]
  /\ aged \in SUBSET Ids /\ excused \in SUBSET Ids
  /\ listing \in {"idle", "children", "delete"} /\ pass \in {"orphans", "usage"}
  /\ horizon \in SUBSET aged
  /\ children \in SUBSET Ids /\ entries \in SUBSET Ids /\ probed \in Ids \cup {NoId}
  /\ app \in {"down", "cleaning", "built", "serving", "leaving"}
  /\ stopEvent \in BOOLEAN /\ runner \in Threads \cup {NoThread}
  /\ thread \in [Threads -> {"unborn", "waiting", "cycle", "ended"}]
  /\ faults \in Nat /\ crashes \in Nat

\* The uploads whose client was given an identifier.
Answered == {u \in Uploads : upload[u] = "created"}

\* The identifier a client was given names a whole file that no other client
\* was told of, until the grace window ends: no failing write, collision,
\* listing, crash or restart takes the file or gives it to someone else.
AnsweredAssetsAreWhole ==
  \A u \in Answered :
    /\ file[place[u]] = "whole" \/ (file[place[u]] = "absent" /\ place[u] \in aged)
    /\ \A v \in Answered \ {u} : place[v] # place[u]

\* A file that is being written, or that a client was told of.
IsAccountedFor(i) ==
  \E u \in Uploads :
    place[u] = i /\ (upload[u] \in {"writing", "undoing"} \/ u \in Answered)

\* A failed upload leaves nothing on disk.  A file nobody knows of is due to a
\* crash in the middle of a write or to an unlink that failed as well, never
\* to a refusal that came after the file had been created.
LeftoversHaveACause ==
  \A i \in Ids : file[i] # "absent" /\ ~IsAccountedFor(i) => i \in excused

\* A pass that gets past its deletions has missed nothing: although children
\* vanish and handlers write while the directory is listed, no file whose grace
\* window was over when it began is left.
PassesAreThorough ==
  listing = "children" /\ pass = "usage" => \A i \in horizon : file[i] = "absent"

\* What a failed upload or a crash leaves behind has a cause, and does not
\* outlast the first pass after its grace window that gets past its deletions.
LeftoversAreTemporary == LeftoversHaveACause /\ PassesAreThorough

\* However a client cuts its body into chunks, and whatever length it declares,
\* the parser is never given more than the limit.
BodiesAreBounded == \A u \in Uploads : total[u] <= MaxSize[kind[u]]

\* At most one maintenance thread is alive, and none once `stop` has returned:
\* a second lifespan does not revive the thread of the first.
OneMaintenanceThread ==
  /\ \A t, s \in Threads : IsAlive(t) /\ IsAlive(s) => t = s
  /\ app \notin {"serving", "leaving"} => \A t \in Threads : ~IsAlive(t)

\* A server that serves has a maintenance thread, in a second lifespan too: no
\* event left over from the first one has ended it.
ServingIsMaintained == app = "serving" => \E t \in Threads : IsAlive(t)

\* Once `stop` has set the event no cycle begins and no thread is started: the
\* join waits for the cycle in progress at most.
StopOnlyWindsDown ==
  [][app = "leaving" =>
       \A t \in Threads :
         /\ thread'[t] = "cycle" => thread[t] = "cycle"
         /\ thread'[t] = "waiting" => thread[t] \in {"cycle", "waiting"}]_vars

\* What the client of an upload knows of its Asset: nothing before the answer.
Life(i) ==
  IF \A u \in Answered : place[u] # i THEN "unknown"
  ELSE IF file[i] # "whole" THEN "deleted"
  ELSE IF i \in aged THEN "unprotected" ELSE "promised"

Store == INSTANCE AssetStore WITH Assets <- Ids, life <- [i \in Ids |-> Life(i)]

\* Allocation, collisions, failing writes, listings, crashes and lifespans
\* together move an Asset only as the abstract store does, which AssetRetention
\* implements with an upload of one step: nothing of the steps before the answer,
\* and nothing a listing does to unanswered files, can be seen by a client.
ImplementsStore == Store!Spec

\* A partial file that a crash or a failed unlink left behind is deleted in the
\* end, although listings may raise, cycles are abandoned and lifespans end.
LeftoversAreReclaimed == \A i \in Ids : i \in excused ~> file[i] = "absent"

\* `stop` returns, also when it comes in the middle of a cycle.
ShutdownEnds == app = "leaving" ~> app # "leaving"
=============================================================================
