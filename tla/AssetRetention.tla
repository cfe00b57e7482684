--------------------------- MODULE AssetRetention ---------------------------
(***************************************************************************)
(* Who may delete the bytes of an Asset, and when.                         *)
(*                                                                         *)
(* Create requests (one FastAPI worker thread each), the executor and the  *)
(* periodic maintenance thread share the SQLite table of Analyses, the     *)
(* Asset directory and the reservation counts of the process-local         *)
(* coordinator.  The maintenance thread is modelled query by query and     *)
(* file by file, since `_all_records` is four separate SELECTs and every   *)
(* thread may run between any two of them.  A crash loses the              *)
(* reservations, the requests and the cycle, and keeps table and files;    *)
(* start-up then runs recovery and both cleanup passes without a lock.     *)
(***************************************************************************)
EXTENDS LifecycleRules, Integers, FiniteSets

CONSTANTS
  Analyses,         \* identifiers uuid4() can hand out
  Assets,           \* identifiers of stored files
  Requests,         \* threads that can execute CreateAnalysisUseCase.create
  RetentionWindow,  \* MINIMUM_RETENTION_WINDOW, in ticks of the clock
  GraceWindow,      \* ORPHAN_UPLOAD_GRACE_WINDOW, in ticks of the clock
  MaxClock,         \* bound on the clock
  MaxFaults,        \* bound on exceptions raised inside a cleanup pass
  MaxCrashes        \* bound on crashes of the process

ASSUME WindowAssumption ==
  /\ RetentionWindow \in Nat
  /\ GraceWindow \in Nat
  /\ GraceWindow <= RetentionWindow   \* 24 hours <= 7 days

ASSUME GraceAssumption == GraceWindow > 0   \* 24 hours

ASSUME BoundAssumption ==
  /\ MaxClock \in Nat
  /\ MaxFaults \in Nat
  /\ MaxCrashes \in Nat

ASSUME RequestAssumption == IsFiniteSet(Requests)

ASSUME FileAssumption == IsFiniteSet(Assets)   \* 128-bit identifiers

VARIABLES
  clock,         \* wall clock shared by every component
  phase,         \* of the process: down, recovering, startup, serving
  records,       \* the table `analyses`
  issued,        \* Asset identifiers ever allocated by `ingest`
  present,       \* files in the storage directory
  storedAt,      \* st_mtime of each file ever written
  reservations,  \* coordinator: _reservation_counts, 0 for a missing key
  reqPc,         \* control point of each create request
  wanted,        \* the Asset ids a request reserved
  unread,        \* those it has still to read and canonicalize
  step,          \* control point of the maintenance thread
  pass,          \* which cleanup function it is executing
  now,           \* effective_now of that call
  protected,     \* the snapshot yielded by maintenance_snapshot
  query,         \* next SELECT of the current _all_records, 5 when done
  seen,          \* records_by_id of the current _all_records
  target,        \* the candidate about to be rechecked, or InitialScan
  candidates,    \* candidates not yet rechecked
  faults,
  crashes

storageVars == <<issued, present, storedAt>>
requestVars == <<reservations, reqPc, wanted, unread>>
cycleVars   == <<step, pass, now, protected, query, seen, target, candidates>>
budgetVars  == <<faults, crashes>>
vars == <<clock, phase, records, storageVars, requestVars, cycleVars, budgetVars>>

-----------------------------------------------------------------------------
(* Records *)

\* `since` is the timestamp of the state a record is in.
Record == [state : LifecycleStates \cup {ABSENT},
           assets : SUBSET Assets,
           since : Nat]

NoRecord == [state |-> ABSENT, assets |-> {}, since |-> 0]

NothingSeen == [a \in Analyses |-> NoRecord]

\* A row after a committed transition: a new state and its timestamp.
Moved(record, to) == [state |-> to, assets |-> record.assets, since |-> clock]

\* The owner of an orphan candidate, and the target of an initial scan.
NoOwner == "no owner"
NoAsset == "no asset"
InitialScan == [owner |-> NoOwner, asset |-> NoAsset]

ASSUME AssetAssumption == NoAsset \notin Assets

Candidate == [owner : Analyses \cup {NoOwner}, asset : Assets]

\* _is_eligible: terminal for at least the retention window.
IsEligible(record) ==
  /\ IsTerminal(record.state)
  /\ now - record.since >= RetentionWindow

\* _references_by_asset, over the records the scan collected.
References(x) == {a \in Analyses : x \in seen[a].assets}

\* Mutant of IsOldEnough: one tick short of the grace window.
IsAlmostOldEnough(x) == now - storedAt[x] >= GraceWindow - 1

\* Mutant of IsOldEnough: a file exactly as old as the window is passed over.
IsOlderThanNeeded(x) == now - storedAt[x] > GraceWindow

\* _is_orphan_age_eligible: at least the grace window old.
IsOldEnough(x) == now - storedAt[x] >= GraceWindow

\* The ids _AssetMaintenanceCoordinator yields as frozenset(counts).
ReservedIds == {x \in Assets : reservations[x] > 0}

\* maintenance_snapshot holds the coordinator lock for a whole cycle; every
\* other critical section of the lock is a single step of this module.
LockIsFree == step = "idle"

-----------------------------------------------------------------------------
(* Clock, uploads, and the executor as this module sees it *)

Tick ==
  /\ clock < MaxClock
  /\ clock' = clock + 1
  /\ UNCHANGED <<phase, records, storageVars, requestVars, cycleVars, budgetVars>>

\* An upload handler stores bytes under a fresh identifier.
Ingest(x) ==
  /\ phase = "serving"
  /\ x \notin issued
  /\ issued' = issued \cup {x}
  /\ present' = present \cup {x}
  /\ storedAt' = [storedAt EXCEPT ![x] = clock]
  /\ UNCHANGED <<clock, phase, records, requestVars, cycleVars, budgetVars>>

\* The repository commits a valid transition on behalf of an executor thread.
Transition(a, to) ==
  /\ phase = "serving"
  /\ IsValidTransition(records[a].state, to)
  /\ records' = [records EXCEPT ![a] = Moved(@, to)]
  /\ UNCHANGED <<clock, phase, storageVars, requestVars, cycleVars, budgetVars>>

-----------------------------------------------------------------------------
(* CreateAnalysisUseCase.create *)

\* Mutant of Reserve: counts without waiting for the lock.
ReserveDuringCycle(r, ids) ==
  /\ phase = "serving"
  /\ reqPc[r] = "idle"
  /\ reservations' = [x \in Assets |->
                        IF x \in ids THEN reservations[x] + 1 ELSE reservations[x]]
  /\ reqPc' = [reqPc EXCEPT ![r] = "reading"]
  /\ wanted' = [wanted EXCEPT ![r] = ids]
  /\ unread' = [unread EXCEPT ![r] = ids]
  /\ UNCHANGED <<clock, phase, records, storageVars, cycleVars, budgetVars>>

\* Enter `with self._reserve_asset_ids(asset_ids)`: blocks while a
\* maintenance cycle holds the lock.
Reserve(r, ids) ==
  /\ phase = "serving"
  /\ reqPc[r] = "idle"
  /\ LockIsFree
  /\ reservations' = [x \in Assets |->
                        IF x \in ids THEN reservations[x] + 1 ELSE reservations[x]]
  /\ reqPc' = [reqPc EXCEPT ![r] = "reading"]
  /\ wanted' = [wanted EXCEPT ![r] = ids]
  /\ unread' = [unread EXCEPT ![r] = ids]
  /\ UNCHANGED <<clock, phase, records, storageVars, cycleVars, budgetVars>>

\* _resolve_and_canonicalize found the bytes of one Asset.
ReadAsset(r, x) ==
  /\ reqPc[r] = "reading"
  /\ x \in unread[r]
  /\ x \in present
  /\ unread' = [unread EXCEPT ![r] = @ \ {x}]
  /\ UNCHANGED <<clock, phase, records, storageVars, reservations, reqPc, wanted,
                 cycleVars, budgetVars>>

\* An Asset is missing or unusable, a window is invalid, or the INSERT raised:
\* nothing is persisted and the exception leaves the `with` block.
Reject(r) ==
  /\ reqPc[r] = "reading"
  /\ reqPc' = [reqPc EXCEPT ![r] = "releasing"]
  /\ UNCHANGED <<clock, phase, records, storageVars, reservations, wanted, unread,
                 cycleVars, budgetVars>>

\* repository.create, still inside the `with` block.
Persist(r, a) ==
  /\ reqPc[r] = "reading"
  /\ unread[r] = {}
  /\ records[a].state = ABSENT
  /\ records' = [records EXCEPT ![a] = [state |-> QUEUED, assets |-> wanted[r],
                                        since |-> clock]]
  /\ reqPc' = [reqPc EXCEPT ![r] = "releasing"]
  /\ UNCHANGED <<clock, phase, storageVars, reservations, wanted, unread,
                 cycleVars, budgetVars>>

\* Mutants of Decrement: the key is dropped, or kept, whatever the count.
DropCount(n) == 0

KeepCount(n) == n

\* _reservation_counts after one holder left; a key that reaches zero is popped.
Decrement(n) == IF n > 0 THEN n - 1 ELSE 0

\* Leave the `with` block: needs the lock again.
Release(r) ==
  /\ reqPc[r] = "releasing"
  /\ LockIsFree
  /\ reservations' = [x \in Assets |->
                        IF x \in wanted[r] THEN Decrement(reservations[x])
                                           ELSE reservations[x]]
  /\ reqPc' = [reqPc EXCEPT ![r] = "idle"]
  /\ wanted' = [wanted EXCEPT ![r] = {}]
  /\ unread' = [unread EXCEPT ![r] = {}]
  /\ UNCHANGED <<clock, phase, records, storageVars, cycleVars, budgetVars>>

-----------------------------------------------------------------------------
(* A maintenance cycle: cleanup_expired_assets, then cleanup_orphaned_assets *)

\* Both cleanup functions open with their own clock reading and _all_records.
OpenPass(which) ==
  /\ pass' = which
  /\ now' = clock
  /\ step' = "scan"
  /\ query' = 1
  /\ seen' = NothingSeen
  /\ target' = InitialScan
  /\ candidates' = {}

\* The thread leaves the cycle: the coordinator lock is released.
CloseCycle ==
  /\ step' = "idle"
  /\ pass' = "owned"
  /\ now' = 0
  /\ protected' = {}
  /\ query' = 1
  /\ seen' = NothingSeen
  /\ target' = InitialScan
  /\ candidates' = {}

\* Mutant of AbandonCycle: the thread hangs instead of leaving the cycle.
HangInCycle == UNCHANGED <<phase, cycleVars>>

\* An exception leaves the cleanup call: _run_one_cycle swallows it, at
\* start-up it ends create_app and with it the process.
AbandonCycle ==
  /\ CloseCycle
  /\ phase' = IF phase = "startup" THEN "down" ELSE phase

\* The local results of one _all_records call are used once.
ForgetScan ==
  /\ query' = 1
  /\ seen' = NothingSeen
  /\ target' = InitialScan

\* The interval elapsed: take the lock, snapshot the reserved ids.
BeginCycle ==
  /\ phase = "serving"
  /\ LockIsFree
  /\ protected' = ReservedIds
  /\ OpenPass("owned")
  /\ UNCHANGED <<clock, phase, records, storageVars, requestVars, budgetVars>>

\* The rows of the next `list_by_state`.
Rows == {a \in Analyses : records[a].state = DeclaredOrder[query]}

\* A row that an earlier SELECT of this scan returned with another value.
HasConflict == \E a \in Rows : seen[a] # NoRecord /\ seen[a] # records[a]

\* One SELECT of _all_records.
ScanQuery ==
  /\ step = "scan"
  /\ query <= 4
  /\ ~HasConflict
  /\ seen' = [a \in Analyses |-> IF a \in Rows THEN records[a] ELSE seen[a]]
  /\ query' = query + 1
  /\ UNCHANGED <<clock, phase, records, storageVars, requestVars, step, pass, now,
                 protected, target, candidates, budgetVars>>

\* An Analysis moved between two SELECTs and was returned by both:
\* InvalidRetentionPolicyError.
ScanConflict ==
  /\ step = "scan"
  /\ query <= 4
  /\ HasConflict
  /\ AbandonCycle
  /\ UNCHANGED <<clock, records, storageVars, requestVars, budgetVars>>

ScanIsComplete == step = "scan" /\ query = 5

\* cleanup_expired_assets: unprotected Assets of eligible Analyses that no
\* other Analysis references.
SelectExpired ==
  /\ ScanIsComplete
  /\ pass = "owned"
  /\ target = InitialScan
  /\ candidates' = {c \in [owner : Analyses, asset : Assets] :
                      /\ IsEligible(seen[c.owner])
                      /\ c.asset \in seen[c.owner].assets
                      /\ References(c.asset) = {c.owner}
                      /\ c.asset \notin protected}
  /\ step' = "choose"
  /\ ForgetScan
  /\ UNCHANGED <<clock, phase, records, storageVars, requestVars, pass, now,
                 protected, budgetVars>>

\* cleanup_orphaned_assets: list_entries, then the old, unreferenced and
\* unprotected ones.
SelectOrphans ==
  /\ ScanIsComplete
  /\ pass = "orphan"
  /\ target = InitialScan
  /\ candidates' = {c \in [owner : {NoOwner}, asset : present] :
                      /\ References(c.asset) = {}
                      /\ c.asset \notin protected
                      /\ IsOldEnough(c.asset)}
  /\ step' = "choose"
  /\ ForgetScan
  /\ UNCHANGED <<clock, phase, records, storageVars, requestVars, pass, now,
                 protected, budgetVars>>

\* Take the next candidate and refresh the records for it.  Candidates are
\* sorted by random identifiers, so any order can be the sorted one.
Choose(c) ==
  /\ step = "choose"
  /\ c \in candidates
  /\ candidates' = candidates \ {c}
  /\ target' = c
  /\ step' = "scan"
  /\ UNCHANGED <<clock, phase, records, storageVars, requestVars, pass, now,
                 protected, query, seen, budgetVars>>

\* The refreshed records still allow the deletion of the target.
RecheckAllows ==
  IF pass = "owned"
    THEN /\ IsEligible(seen[target.owner])
         /\ References(target.asset) = {target.owner}
    ELSE References(target.asset) = {}

\* storage.delete(asset_id): unlink, and a missing file is not an error.
Settle ==
  /\ ScanIsComplete
  /\ target # InitialScan
  /\ present' = IF RecheckAllows THEN present \ {target.asset} ELSE present
  /\ step' = "choose"
  /\ ForgetScan
  /\ UNCHANGED <<clock, phase, records, issued, storedAt, requestVars, pass, now,
                 protected, candidates, budgetVars>>

OwnedPassDone ==
  /\ step = "choose"
  /\ pass = "owned"
  /\ candidates = {}
  /\ OpenPass("orphan")
  /\ UNCHANGED <<clock, phase, records, storageVars, requestVars, protected,
                 budgetVars>>

\* After the orphan pass a periodic cycle releases the lock, and start-up
\* goes on to serve requests.
OrphanPassDone ==
  /\ step = "choose"
  /\ pass = "orphan"
  /\ candidates = {}
  /\ CloseCycle
  /\ phase' = "serving"
  /\ UNCHANGED <<clock, records, storageVars, requestVars, budgetVars>>

\* Any I/O of a pass raises: locked database, failing stat or unlink.
CycleRaises ==
  /\ step # "idle"
  /\ faults < MaxFaults
  /\ faults' = faults + 1
  /\ AbandonCycle
  /\ UNCHANGED <<clock, records, storageVars, requestVars, crashes>>

-----------------------------------------------------------------------------
(* Crash and start-up *)

Crash ==
  /\ phase # "down"
  /\ crashes < MaxCrashes
  /\ crashes' = crashes + 1
  /\ phase' = "down"
  /\ reservations' = [x \in Assets |-> 0]
  /\ reqPc' = [r \in Requests |-> "idle"]
  /\ wanted' = [r \in Requests |-> {}]
  /\ unread' = [r \in Requests |-> {}]
  /\ CloseCycle
  /\ UNCHANGED <<clock, records, storageVars, faults>>

Restart ==
  /\ phase = "down"
  /\ phase' = "recovering"
  /\ UNCHANGED <<clock, records, storageVars, requestVars, cycleVars, budgetVars>>

\* The rows list_by_state(RUNNING) hands to run_startup_recovery.
IsInterrupted(a) == records[a].state = RUNNING

\* run_startup_recovery resolves one interrupted Analysis.
Recover(a) ==
  /\ phase = "recovering"
  /\ IsInterrupted(a)
  /\ records' = [records EXCEPT ![a] = Moved(@, FAILED)]
  /\ UNCHANGED <<clock, phase, storageVars, requestVars, cycleVars, budgetVars>>

\* _build_analysis_use_cases goes on to the two cleanup passes, which start-up
\* runs without a snapshot.
StartupCleanup ==
  /\ phase = "recovering"
  /\ \A a \in Analyses : ~IsInterrupted(a)
  /\ phase' = "startup"
  /\ protected' = {}
  /\ OpenPass("owned")
  /\ UNCHANGED <<clock, records, storageVars, requestVars, budgetVars>>

-----------------------------------------------------------------------------

Init ==
  /\ clock = 0
  /\ phase = "down"
  /\ records = [a \in Analyses |-> NoRecord]
  /\ issued = {}
  /\ present = {}
  /\ storedAt = [x \in Assets |-> 0]
  /\ reservations = [x \in Assets |-> 0]
  /\ reqPc = [r \in Requests |-> "idle"]
  /\ wanted = [r \in Requests |-> {}]
  /\ unread = [r \in Requests |-> {}]
  /\ step = "idle"
  /\ pass = "owned"
  /\ now = 0
  /\ protected = {}
  /\ query = 1
  /\ seen = NothingSeen
  /\ target = InitialScan
  /\ candidates = {}
  /\ faults = 0
  /\ crashes = 0

RequestStep ==
  \E r \in Requests :
    \/ \E ids \in SUBSET Assets \ {{}} : Reserve(r, ids)
    \/ \E x \in Assets : ReadAsset(r, x)
    \/ Reject(r)
    \/ \E a \in Analyses : Persist(r, a)
    \/ Release(r)

MaintenanceStep ==
  \/ ScanQuery
  \/ ScanConflict
  \/ SelectExpired
  \/ SelectOrphans
  \/ \E c \in candidates : Choose(c)
  \/ Settle
  \/ OwnedPassDone
  \/ OrphanPassDone

Next ==
  \/ Tick
  \/ \E x \in Assets : Ingest(x)
  \/ \E a \in Analyses, to \in LifecycleStates : Transition(a, to)
  \/ RequestStep
  \/ BeginCycle
  \/ MaintenanceStep
  \/ CycleRaises
  \/ Crash
  \/ Restart
  \/ \E a \in Analyses : Recover(a)
  \/ StartupCleanup

Spec == Init /\ [][Next]_vars

-----------------------------------------------------------------------------
(* Properties *)

TypeOK ==
  /\ clock \in Nat /\ now \in Nat
  /\ phase \in {"down", "recovering", "startup", "serving"}
  /\ records \in [Analyses -> Record]
  /\ issued \in SUBSET Assets /\ present \in SUBSET issued
  /\ storedAt \in [Assets -> Nat]
  /\ reservations \in [Assets -> Nat]
  /\ reqPc \in [Requests -> {"idle", "reading", "releasing"}]
  /\ wanted \in [Requests -> SUBSET Assets]
  /\ unread \in [Requests -> SUBSET Assets]
  /\ step \in {"idle", "scan", "choose"}
  /\ pass \in {"owned", "orphan"}
  /\ protected \in SUBSET Assets
  /\ query \in 1..5
  /\ seen \in [Analyses -> Record]
  /\ target \in Candidate \cup {InitialScan}
  /\ candidates \in SUBSET Candidate
  /\ faults \in Nat /\ crashes \in Nat

\* The requests whose `with` block is open and reserves x.
Holders(x) == {r \in Requests : reqPc[r] # "idle" /\ x \in wanted[r]}

\* The count the coordinator keeps for an Asset is the number of requests that
\* hold it, through overlapping requests, rejections and crashes: a count too
\* low lets a cycle delete what a request is reading, a count too high
\* protects an orphan for the life of the process.
ReservationCountsAreExact ==
  \A x \in Assets : reservations[x] = Cardinality(Holders(x))

\* What a request has read stays on disk until the request is over, although
\* cycles run between its reads: the ids it persists name existing files.
ReadAssetsStayPresent ==
  \A r \in Requests : wanted[r] \ unread[r] \subseteq present

\* The Assets of an Analysis that is QUEUED or RUNNING exist, whatever
\* interleaving of requests, transitions, cycles and restarts led there.
LiveAnalysesKeepTheirAssets ==
  \A a \in Analyses :
    records[a].state \in {QUEUED, RUNNING} => records[a].assets \subseteq present

\* The seven-day promise: the Assets of a terminal Analysis exist for the whole
\* retention window, counted from the terminal timestamp.
RetainedAnalysesKeepTheirAssets ==
  \A a \in Analyses :
    /\ IsTerminal(records[a].state)
    /\ clock - records[a].since < RetentionWindow
    => records[a].assets \subseteq present

\* The grace promise: an upload is not deleted by any pass, referenced or not,
\* before the grace window has elapsed.
FreshUploadsAreKept ==
  \A x \in issued : clock - storedAt[x] < GraceWindow => x \in present

\* An Asset that two Analyses reference is never deleted, not even when both
\* are long expired: exclusive ownership is the condition of every deletion.
SharedAssetsAreNeverDeleted ==
  \A a, b \in Analyses :
    a # b => records[a].assets \cap records[b].assets \subseteq present

\* No interleaving of requests, transitions, cycles, crashes and restarts deletes
\* what is in use: read by a request, referenced by an open Analysis, or shared.
AssetsInUseStay ==
  /\ ReadAssetsStayPresent
  /\ LiveAnalysesKeepTheirAssets
  /\ SharedAssetsAreNeverDeleted

\* No interleaving deletes what a window still covers: the retention window of a
\* terminal Analysis, or the grace window of an upload.
PromisedWindowsAreKept == RetainedAnalysesKeepTheirAssets /\ FreshUploadsAreKept

\* Under the coordinator the re-check before each deletion never finds a new
\* reference: any request that could create one either reserved the Asset
\* before the snapshot or waits for the lock.
RecheckIsRedundant ==
  ScanIsComplete /\ target # InitialScan => RecheckAllows

\* What the pass in progress is for, as of the moment it began.
IsGarbage(x) ==
  IF pass = "owned"
    THEN \E a \in Analyses : /\ {b \in Analyses : x \in records[b].assets} = {a}
                             /\ IsTerminal(records[a].state)
                             /\ now - records[a].since >= RetentionWindow
    ELSE /\ \A a \in Analyses : x \notin records[a].assets
         /\ now - storedAt[x] >= GraceWindow

\* A pass that gets to its end has missed nothing: whatever requests, uploads and
\* transitions came between its queries and its deletions, no file that was
\* garbage when it began, and that no request held, is left.
PassesAreThorough ==
  step = "choose" /\ candidates = {} => \A x \in present \ protected : ~IsGarbage(x)

\* The steps a cycle may still take: per candidate a choice, four queries and the
\* settlement; per pass four queries, the selection and the end.
StepsLeft ==
  LET Pending == IF step = "scan" /\ target = InitialScan THEN Cardinality(Assets)
                                                         ELSE Cardinality(candidates)
  IN  IF step = "idle" THEN 0
      ELSE (IF step = "scan" THEN 6 - query ELSE 0) + 6 * Pending + 1
           + (IF pass = "owned" THEN 6 * Cardinality(Assets) + 6 ELSE 0)

\* However many requests, uploads and transitions come in between, the lock of the
\* coordinator is held for at most 12 * Cardinality(Assets) + 12 steps of the
\* maintenance thread, and each of them brings the end of the cycle closer.
CyclesAreShort ==
  [][/\ MaintenanceStep => StepsLeft' < StepsLeft
     /\ step # "idle" /\ step' # "idle" => StepsLeft' <= StepsLeft
     /\ step = "idle" /\ step' # "idle" => StepsLeft' = 12 * Cardinality(Assets) + 12]_vars

\* A pass deletes what it selected, and selects all that there is to delete.
CleanupIsExact == RecheckIsRedundant /\ PassesAreThorough

Lifecycle == INSTANCE AnalysisLifecycle WITH
               state <- [a \in Analyses |-> records[a].state]

\* Requests, executor, recovery and cleanup together move a row only as the
\* abstract lifecycle does; a cleanup pass never touches the table.
ImplementsLifecycle == Lifecycle!Spec

\* What the client of an upload knows of its Asset.
Life(x) ==
  IF x \notin issued THEN "unknown"
  ELSE IF x \notin present THEN "deleted"
  ELSE IF clock - storedAt[x] < GraceWindow THEN "promised" ELSE "unprotected"

Store == INSTANCE AssetStore WITH life <- [x \in Assets |-> Life(x)]

\* The upload, the clock and every deletion, at start-up and in a cycle, move an
\* Asset only as the abstract store does: no deletion within the grace window,
\* and no file under an identifier whose first file was deleted.
ImplementsStore == Store!Spec

-----------------------------------------------------------------------------
(* Liveness *)

\* The interval always elapses again and the maintenance thread runs; requests
\* run, and find the lock free between two cycles, which are a whole interval
\* apart; a process that went down is started again.  Nothing obliges a client
\* to send a request, an executor to move a record or the clock to advance.
Fairness ==
  /\ WF_vars(BeginCycle)
  /\ WF_vars(MaintenanceStep)
  /\ WF_vars(Restart)
  /\ WF_vars(StartupCleanup)
  /\ \A a \in Analyses : WF_vars(Recover(a))
  /\ \A r \in Requests : SF_vars(Release(r))

FairSpec == Spec /\ Fairness

\* No request in progress and no record keeps x, and its grace is over.
IsReclaimableOrphan(x) ==
  /\ x \in present
  /\ Holders(x) = {}
  /\ \A a \in Analyses : x \notin records[a].assets
  /\ clock - storedAt[x] >= GraceWindow

\* No request in progress keeps x, and the one record that does is expired.
IsReclaimableExpired(x) ==
  /\ x \in present
  /\ Holders(x) = {}
  /\ \E a \in Analyses :
       /\ {b \in Analyses : x \in records[b].assets} = {a}
       /\ IsTerminal(records[a].state)
       /\ clock - records[a].since >= RetentionWindow

\* An abandoned upload does not stay on disk for ever: aborted cycles, crashes
\* and restarts only delay its deletion.
OrphansAreReclaimed == \A x \in Assets : []<>~IsReclaimableOrphan(x)

\* Nor does an Asset of one expired Analysis.
ExpiredAssetsAreReclaimed == \A x \in Assets : []<>~IsReclaimableExpired(x)

\* Neither kind of garbage stays for ever.
GarbageIsReclaimed == OrphansAreReclaimed /\ ExpiredAssetsAreReclaimed

\* A cycle holds the lock only for its own duration: a request that has
\* finished its work gets to release its reservation.
RequestsGetPastTheLock ==
  \A r \in Requests : reqPc[r] = "releasing" ~> reqPc[r] = "idle"

=============================================================================
