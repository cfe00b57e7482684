-------------------------- MODULE AnalysisExecution --------------------------
(***************************************************************************)
(* From the INSERT of a QUEUED Analysis to its terminal state.             *)
(*                                                                         *)
(* A create request persists an Analysis and then, outside any             *)
(* transaction, submits it to LocalAnalysisExecutor: a FIFO queue in       *)
(* memory, served by a bounded ThreadPoolExecutor.  A worker claims the    *)
(* Analysis, matches, saves the Result in an in-memory store and writes    *)
(* the terminal state.  The table is durable; queue, workers and Results   *)
(* are not.  The process may crash between any two steps or be stopped     *)
(* gracefully, a repository write may raise, and start-up resolves what    *)
(* was RUNNING.                                                            *)
(***************************************************************************)
EXTENDS LifecycleRules, FiniteSets

CONSTANTS
  Analyses,        \* identifiers uuid4() can hand out
  Workers,         \* threads of the pool: max_concurrency of them
  NoJob,           \* the job of an idle worker
  MaxResubmissions,  \* bound on further calls of submit for one Analysis
  MaxFaults,       \* bound on exceptions raised in a worker outside its try
  MaxCrashes       \* bound on crashes of the process

ASSUME WorkerAssumption ==
  /\ IsFiniteSet(Workers)
  /\ Workers # {}            \* max_concurrency must be a positive integer
  /\ NoJob \notin Analyses

ASSUME BoundAssumption ==
  /\ MaxResubmissions \in Nat
  /\ MaxFaults \in Nat
  /\ MaxCrashes \in Nat

VARIABLES
  phase,        \* of the process: down, recovering, serving, draining
  state,        \* state column of the table `analyses`
  reference,    \* Analyses whose result_reference column is set
  results,      \* Analyses with a Result in InMemoryResultReferenceStore
  pending,      \* persisted by a request that has not called submit yet
  queue,        \* _work_queue of the ThreadPoolExecutor
  pc,           \* control point of each worker in _claim_and_run
  job,          \* the Analysis each worker was handed
  interrupted,  \* RUNNING rows run_startup_recovery has still to resolve
  resubmissions,  \* calls of submit beyond the create request's own
  faults,
  crashes,
  runs,         \* history: times run_multi_cue_analysis was invoked
  outlived,     \* history: SUCCEEDED before the present process started
  dropped       \* history: open Analyses whose carrier in memory is gone

tableVars   == <<state, reference>>
poolVars    == <<queue, pc, job>>
historyVars == <<runs, outlived, dropped>>
vars == <<phase, tableVars, results, pending, poolVars, interrupted, resubmissions,
          faults, crashes, historyVars>>

-----------------------------------------------------------------------------
(* CreateAnalysisUseCase.create, after its validation *)

\* repository.create commits the row.
Create(a) ==
  /\ phase = "serving"
  /\ state[a] = ABSENT
  /\ state' = [state EXCEPT ![a] = QUEUED]
  /\ pending' = pending \cup {a}
  /\ UNCHANGED <<phase, reference, results, poolVars, interrupted, resubmissions,
                 faults, crashes, historyVars>>

\* executor.submit: hand _claim_and_run to the pool, never block.
Enqueue(a) ==
  /\ queue' = Append(queue, a)
  /\ UNCHANGED <<phase, tableVars, results, pc, job, interrupted, faults, crashes,
                 historyVars>>

\* The last statement of the create request.
Submit(a) ==
  /\ a \in pending
  /\ Enqueue(a)
  /\ pending' = pending \ {a}
  /\ UNCHANGED resubmissions

\* Another caller of the executor's public API submits an id it knows.
Resubmit(a) ==
  /\ phase = "serving"
  /\ state[a] # ABSENT
  /\ a \notin pending
  /\ resubmissions[a] < MaxResubmissions
  /\ resubmissions' = [resubmissions EXCEPT ![a] = @ + 1]
  /\ Enqueue(a)
  /\ UNCHANGED pending

-----------------------------------------------------------------------------
(* LocalAnalysisExecutor._claim_and_run, on one worker of the pool *)

\* Mutant of Write: the state is overwritten without validation.
WriteUnvalidated(w, to) == state' = [state EXCEPT ![job[w]] = to]

\* repository.transition as a worker calls it: validated, then written.
Write(w, to) ==
  /\ IsValidTransition(state[job[w]], to)
  /\ state' = [state EXCEPT ![job[w]] = to]

GoOn(w, from, to) ==
  /\ pc[w] = from
  /\ pc' = [pc EXCEPT ![w] = to]

Return(w, from) ==
  /\ GoOn(w, from, "idle")
  /\ job' = [job EXCEPT ![w] = NoJob]

\* A thread of the pool takes the oldest job, also while the pool is shut down.
Dequeue(w) ==
  /\ queue # <<>>
  /\ GoOn(w, "idle", "claiming")
  /\ job' = [job EXCEPT ![w] = Head(queue)]
  /\ queue' = Tail(queue)
  /\ UNCHANGED <<phase, tableVars, results, pending, interrupted, resubmissions, faults,
                 crashes, historyVars>>

\* The claim is the QUEUED -> RUNNING transition; run_multi_cue_analysis is
\* invoked next.
Claim(w) ==
  /\ GoOn(w, "claiming", "matching")
  /\ Write(w, RUNNING)
  /\ runs' = [runs EXCEPT ![job[w]] = @ + 1]
  /\ dropped' = dropped \ {job[w]}
  /\ UNCHANGED <<phase, reference, results, pending, queue, job, interrupted,
                 resubmissions, faults, crashes, outlived>>

\* Mutant of ClaimRejected: the rejected submission is queued once more.
ClaimRejectedRequeues(w) ==
  /\ Return(w, "claiming")
  /\ ~IsValidTransition(state[job[w]], RUNNING)
  /\ queue' = Append(queue, job[w])
  /\ UNCHANGED <<phase, tableVars, results, pending, interrupted, resubmissions, faults,
                 crashes, historyVars>>

\* AnalysisAlreadyClaimedError, raised into a Future nobody reads.
ClaimRejected(w) ==
  /\ Return(w, "claiming")
  /\ ~IsValidTransition(state[job[w]], RUNNING)
  /\ UNCHANGED <<phase, tableVars, results, pending, queue, interrupted, resubmissions,
                 faults, crashes, historyVars>>

\* Mutant of MatchingReturns: the state is written and no Result is saved.
MatchingReturnsUnsaved(w) ==
  /\ GoOn(w, "matching", "succeeding")
  /\ UNCHANGED <<phase, tableVars, results, pending, queue, job, interrupted,
                 resubmissions, faults, crashes, historyVars>>

MatchingReturns(w) ==
  /\ GoOn(w, "matching", "saving")
  /\ UNCHANGED <<phase, tableVars, results, pending, queue, job, interrupted,
                 resubmissions, faults, crashes, historyVars>>

\* Mutant of MatchingRaises: the exception of the matching is not caught.
MatchingRaisesUncaught(w) ==
  /\ Return(w, "matching")
  /\ UNCHANGED <<phase, tableVars, results, pending, queue, interrupted, resubmissions,
                 faults, crashes, historyVars>>

MatchingRaises(w) ==
  /\ GoOn(w, "matching", "failing")
  /\ UNCHANGED <<phase, tableVars, results, pending, queue, job, interrupted,
                 resubmissions, faults, crashes, historyVars>>

PersistFailed(w) ==
  /\ Return(w, "failing")
  /\ Write(w, FAILED)
  /\ UNCHANGED <<phase, reference, results, pending, queue, interrupted, resubmissions,
                 faults, crashes, historyVars>>

\* result_store.save(analysis_id, analysis_result).
SaveResult(w) ==
  /\ GoOn(w, "saving", "succeeding")
  /\ results' = results \cup {job[w]}
  /\ UNCHANGED <<phase, tableVars, pending, queue, job, interrupted, resubmissions,
                 faults, crashes, historyVars>>

PersistSucceeded(w) ==
  /\ Return(w, "succeeding")
  /\ Write(w, SUCCEEDED)
  /\ reference' = reference \cup {job[w]}
  /\ UNCHANGED <<phase, results, pending, queue, interrupted, resubmissions, faults,
                 crashes, historyVars>>

\* An exception outside the try around the matching: a transition on a locked
\* database, or a Result that cannot be serialized.  The Future keeps it and
\* nothing else happens; a submission that lost the claim loses nothing.
WorkerRaises(w) ==
  /\ pc[w] \in {"claiming", "saving", "succeeding", "failing"}
  /\ faults < MaxFaults
  /\ faults' = faults + 1
  /\ Return(w, pc[w])
  /\ dropped' = IF pc[w] # "claiming" \/ state[job[w]] = QUEUED
                  THEN dropped \cup {job[w]} ELSE dropped
  /\ UNCHANGED <<phase, tableVars, results, pending, queue, interrupted, resubmissions,
                 crashes, runs, outlived>>

-----------------------------------------------------------------------------
(* The life of the process *)

\* What lives in the process's memory is gone: requests, pool, Results.
LoseMemory ==
  /\ phase' = "down"
  /\ pending' = {}
  /\ queue' = <<>>
  /\ pc' = [w \in Workers |-> "idle"]
  /\ job' = [w \in Workers |-> NoJob]
  /\ results' = {}
  /\ interrupted' = {}
  /\ outlived' = {a \in Analyses : state[a] = SUCCEEDED}
  /\ UNCHANGED <<tableVars, resubmissions, runs>>

Crash ==
  /\ phase # "down"
  /\ crashes < MaxCrashes
  /\ crashes' = crashes + 1
  /\ LoseMemory
  /\ dropped' = {a \in Analyses : state[a] = QUEUED}
  /\ UNCHANGED faults

\* A graceful stop: the server finishes its requests and accepts no more, and
\* the interpreter joins the pool threads, which first empty their queue.
Stop ==
  /\ phase = "serving"
  /\ pending = {}
  /\ phase' = "draining"
  /\ UNCHANGED <<tableVars, results, pending, poolVars, interrupted, resubmissions,
                 faults, crashes, historyVars>>

Exit ==
  /\ phase = "draining"
  /\ queue = <<>>
  /\ \A w \in Workers : pc[w] = "idle"
  /\ LoseMemory
  /\ UNCHANGED <<faults, crashes, dropped>>

\* Mutant of RunningRows: recovery finds nothing to resolve.
NoRows == {}

\* list_by_state(RUNNING).
RunningRows == {a \in Analyses : state[a] = RUNNING}

\* run_startup_recovery lists the RUNNING rows, before the executor exists.
Boot ==
  /\ phase = "down"
  /\ phase' = "recovering"
  /\ interrupted' = RunningRows
  /\ UNCHANGED <<tableVars, results, pending, poolVars, resubmissions, faults, crashes,
                 historyVars>>

\* Mutant of Recover: an interrupted Analysis is queued once more.
RecoverByRetry(a) ==
  /\ phase = "recovering"
  /\ a \in interrupted
  /\ state' = [state EXCEPT ![a] = QUEUED]
  /\ interrupted' = interrupted \ {a}
  /\ UNCHANGED <<phase, reference, results, pending, poolVars, resubmissions, faults,
                 crashes, historyVars>>

\* ... and resolves them one by one.
Recover(a) ==
  /\ phase = "recovering"
  /\ a \in interrupted
  /\ IsValidTransition(state[a], FAILED)
  /\ state' = [state EXCEPT ![a] = FAILED]
  /\ interrupted' = interrupted \ {a}
  /\ dropped' = dropped \ {a}
  /\ UNCHANGED <<phase, reference, results, pending, poolVars, resubmissions, faults,
                 crashes, runs, outlived>>

Serve ==
  /\ phase = "recovering"
  /\ interrupted = {}
  /\ phase' = "serving"
  /\ UNCHANGED <<tableVars, results, pending, poolVars, interrupted, resubmissions,
                 faults, crashes, historyVars>>

-----------------------------------------------------------------------------

Init ==
  /\ phase = "down"
  /\ state = [a \in Analyses |-> ABSENT]
  /\ reference = {} /\ results = {} /\ pending = {}
  /\ queue = <<>>
  /\ pc = [w \in Workers |-> "idle"]
  /\ job = [w \in Workers |-> NoJob]
  /\ interrupted = {}
  /\ resubmissions = [a \in Analyses |-> 0]
  /\ faults = 0 /\ crashes = 0
  /\ runs = [a \in Analyses |-> 0]
  /\ outlived = {} /\ dropped = {}

WorkerStep(w) ==
  \/ Dequeue(w)
  \/ Claim(w)
  \/ ClaimRejected(w)
  \/ MatchingReturns(w)
  \/ MatchingRaises(w)
  \/ PersistFailed(w)
  \/ SaveResult(w)
  \/ PersistSucceeded(w)

Next ==
  \/ \E a \in Analyses : Create(a) \/ Submit(a) \/ Resubmit(a) \/ Recover(a)
  \/ \E w \in Workers : WorkerStep(w) \/ WorkerRaises(w)
  \/ Crash
  \/ Stop
  \/ Exit
  \/ Boot
  \/ Serve

Spec == Init /\ [][Next]_vars

-----------------------------------------------------------------------------
(* What a client sees *)

\* QueryAnalysisUseCase.get_result: a terminal state is final and Results are
\* only added while the process lives, so its two reads are as good as one.
GetResult(a) ==
  CASE state[a] = ABSENT -> "not found"
    [] state[a] \in {QUEUED, RUNNING} -> "not ready"
    [] state[a] = FAILED -> "failed"
    [] state[a] = SUCCEEDED /\ a \in reference /\ a \in results -> "result"
    [] OTHER -> "integrity error"

-----------------------------------------------------------------------------
(* Properties *)

WorkerPc == {"idle", "claiming", "matching", "saving", "succeeding", "failing"}

TypeOK ==
  /\ phase \in {"down", "recovering", "serving", "draining"}
  /\ state \in [Analyses -> LifecycleStates \cup {ABSENT}]
  /\ reference \in SUBSET Analyses /\ results \in SUBSET Analyses
  /\ pending \in SUBSET Analyses
  /\ queue \in Seq(Analyses)
  /\ pc \in [Workers -> WorkerPc]
  /\ job \in [Workers -> Analyses \cup {NoJob}]
  /\ \A w \in Workers : pc[w] = "idle" <=> job[w] = NoJob
  /\ interrupted \in SUBSET Analyses
  /\ resubmissions \in [Analyses -> Nat]
  /\ faults \in Nat /\ crashes \in Nat
  /\ runs \in [Analyses -> Nat]
  /\ outlived \in SUBSET Analyses /\ dropped \in SUBSET Analyses

\* A worker past its claim.
Owns(w, a) == job[w] = a /\ pc[w] \notin {"idle", "claiming"}

\* The claim is exclusive: between two workers handed the same Analysis only
\* one gets past it, and the row stays RUNNING until that worker writes its
\* terminal state, which the repository therefore never rejects.
ClaimIsExclusive ==
  \A w \in Workers, a \in Analyses :
    Owns(w, a) => /\ state[a] = RUNNING
                  /\ \A v \in Workers : Owns(v, a) => v = w

\* Matching is invoked at most once per Analysis, over duplicate submissions,
\* worker failures, crashes and restarts: there is no retry.
RunsAtMostOnce == \A a \in Analyses : runs[a] <= 1

\* An Analysis has one run: one worker at a time owns it, over its whole life it
\* is matched once, and the row says RUNNING as long as the owner works on it.
NoAnalysisRunsTwice == ClaimIsExclusive /\ RunsAtMostOnce

\* Something in memory will still take an open Analysis further.
IsCarried(a) ==
  \/ state[a] = QUEUED /\ (a \in pending \/ (\E i \in DOMAIN queue : queue[i] = a)
                            \/ \E w \in Workers : job[w] = a)
  \/ state[a] = RUNNING /\ \E w \in Workers : Owns(w, a)

\* A serving process has no open Analysis without a carrier, except the ones a
\* crash left QUEUED or an exception outside the worker's try abandoned: after
\* recovery no stale RUNNING row is left, and a graceful stop loses nothing.
OpenAnalysesAreCarried ==
  phase \in {"serving", "draining"} =>
    \A a \in Analyses :
      state[a] \in {QUEUED, RUNNING} => IsCarried(a) \/ a \in dropped

\* The 500 of a SUCCEEDED Analysis whose Result cannot be read is reserved for
\* Results of an earlier process: the Result is saved before the state says so.
IntegrityErrorsOnlyAfterRestart ==
  \A a \in Analyses : GetResult(a) = "integrity error" => a \in outlived

\* What nothing in memory carries is stuck: no scheduling of workers, no further
\* request and no restart claims it, unless someone submits the QUEUED one again
\* or the next start-up resolves the RUNNING one.
StrandedAnalysesStay ==
  [][\A a \in Analyses : ~IsCarried(a) =>
       /\ state[a] = QUEUED /\ resubmissions'[a] = resubmissions[a] =>
            state'[a] = QUEUED /\ ~IsCarried(a)'
       /\ state[a] = RUNNING /\ phase # "recovering" =>
            state'[a] = RUNNING /\ ~IsCarried(a)']_vars

\* How much of _claim_and_run a worker has still before it.
TurnsLeft(at) ==
  CASE at = "claiming" -> 4 [] at = "matching" -> 3 [] at = "saving" -> 2
    [] at \in {"succeeding", "failing"} -> 1 [] at = "idle" -> 0

\* A process that was told to stop takes nothing on: every step is that of one
\* worker, which takes a job off the queue or gets further with its own, however
\* it ends.  When the process exits no Analysis is open but for the ones that a
\* crash or an exception had cost their carrier before.
StopOnlyDrains ==
  [][phase = "draining" =>
       \/ /\ phase' = "draining"
          /\ \E w \in Workers :
               /\ \A v \in Workers \ {w} : pc'[v] = pc[v] /\ job'[v] = job[v]
               /\ \/ pc[w] = "idle" /\ queue # <<>> /\ queue' = Tail(queue)
                  \/ queue' = queue /\ TurnsLeft(pc'[w]) < TurnsLeft(pc[w])
       \/ phase' = "down" /\ crashes' > crashes
       \/ /\ phase' = "down"
          /\ \A a \in Analyses : state'[a] \in {QUEUED, RUNNING} => a \in dropped']_vars

Lifecycle == INSTANCE AnalysisLifecycle

\* Executor, duplicate submissions, crashes and recovery together move a row
\* only as the abstract lifecycle does.
ImplementsLifecycle == Lifecycle!Spec

-----------------------------------------------------------------------------
(* Liveness *)

\* Requests and pool threads are scheduled, matching terminates, a process that
\* went down is started again and one that was told to stop exits.  Clients,
\* operators, crashes and faults are under no obligation.
Fairness ==
  /\ \A a \in Analyses : WF_vars(Submit(a)) /\ WF_vars(Recover(a))
  /\ \A w \in Workers : WF_vars(WorkerStep(w))
  /\ WF_vars(Exit)
  /\ WF_vars(Boot)
  /\ WF_vars(Serve)

FairSpec == Spec /\ Fairness

\* Without crashes and faults a created Analysis reaches a terminal state,
\* behind any number of others in the queue and across graceful restarts.
EveryAnalysisTerminates ==
  \A a \in Analyses : state[a] = QUEUED ~> IsTerminal(state[a])

\* With crashes and exceptions, an open Analysis reaches a terminal state unless
\* one of them has taken its carrier: being queued behind others, submitted
\* twice, or handed over to another process never costs an Analysis its end.
CarriedAnalysesTerminate ==
  \A a \in Analyses :
    state[a] \in {QUEUED, RUNNING} ~> IsTerminal(state[a]) \/ a \in dropped

\* With crashes too, a RUNNING Analysis is finished by its worker or resolved
\* by the recovery of the next process.
RunningIsResolved ==
  \A a \in Analyses : state[a] = RUNNING ~> IsTerminal(state[a])

\* A graceful stop completes, whatever is queued and whichever workers raise.
StopCompletes == phase = "draining" ~> phase = "down"

=============================================================================
