----------------------- MODULE AnalysisExecution_proofs -----------------------
(***************************************************************************)
(* Proofs about AnalysisExecution, for any sets of Analyses and workers    *)
(* and any numbers of resubmissions, faults and crashes.                   *)
(***************************************************************************)
EXTENDS AnalysisExecution, TLAPS

\* The names of the states differ.
LEMMA StatesAreDistinct ==
  /\ QUEUED # RUNNING /\ QUEUED # SUCCEEDED /\ QUEUED # FAILED /\ QUEUED # ABSENT
  /\ RUNNING # SUCCEEDED /\ RUNNING # FAILED /\ RUNNING # ABSENT
  /\ SUCCEEDED # FAILED /\ SUCCEEDED # ABSENT /\ FAILED # ABSENT
BY DEF QUEUED, RUNNING, SUCCEEDED, FAILED, ABSENT

\* The members of the closed set of states.
LEMMA StatesAreStates ==
  /\ QUEUED \in LifecycleStates /\ RUNNING \in LifecycleStates
  /\ SUCCEEDED \in LifecycleStates /\ FAILED \in LifecycleStates
BY DEF LifecycleStates

\* What each write of the executor and of recovery requires.
LEMMA ValidTransitions ==
  ASSUME NEW s
  PROVE  /\ IsValidTransition(s, RUNNING) <=> s = QUEUED
         /\ IsValidTransition(s, SUCCEEDED) <=> s = RUNNING
         /\ IsValidTransition(s, FAILED) <=> s = RUNNING
BY DEF QUEUED, RUNNING, SUCCEEDED, FAILED, IsValidTransition, VALID_TRANSITIONS

\* Each variable has its type, and a worker is idle if and only if it has no job.
THEOREM TypeCorrect == Spec => []TypeOK
<1>1. Init => TypeOK
  BY WorkerAssumption DEF Init, TypeOK, WorkerPc
<1>2. TypeOK /\ [Next]_vars => TypeOK'
  <2> SUFFICES ASSUME TypeOK, [Next]_vars PROVE TypeOK'
    OBVIOUS
  <2> USE StatesAreStates, WorkerAssumption
      DEF TypeOK, WorkerPc, tableVars, poolVars, historyVars
  <2>1. ASSUME NEW a \in Analyses, Create(a) \/ Submit(a) \/ Resubmit(a) \/ Recover(a)
        PROVE  TypeOK'
    <3>1. Append(queue, a) \in Seq(Analyses)
      OBVIOUS
    <3>2. CASE Create(a)
      BY <3>2 DEF Create
    <3>5. CASE Recover(a)
      BY <3>5 DEF Recover
    <3>3. CASE Submit(a)
      BY <3>1, <3>3 DEF Submit, Enqueue
    <3>4. CASE Resubmit(a)
      BY <3>1, <3>4 DEF Resubmit, Enqueue
    <3> QED
      BY <2>1, <3>2, <3>3, <3>4, <3>5
  <2>2. ASSUME NEW w \in Workers, Dequeue(w) PROVE TypeOK'
    <3>1. Head(queue) \in Analyses /\ Tail(queue) \in Seq(Analyses)
      BY <2>2 DEF Dequeue
    <3>2. Head(queue) # NoJob
      BY <3>1
    <3> QED
      BY <2>2, <3>1, <3>2 DEF Dequeue, GoOn
  <2>3. ASSUME NEW w \in Workers, Claim(w) PROVE TypeOK'
    BY <2>3 DEF Claim, GoOn, Write
  <2>4. ASSUME NEW w \in Workers,
               MatchingReturns(w) \/ MatchingRaises(w) \/ SaveResult(w)
        PROVE  TypeOK'
    BY <2>4 DEF MatchingReturns, MatchingRaises, SaveResult, GoOn
  <2>5. ASSUME NEW w \in Workers, Return(w, pc[w])
        PROVE  /\ pc' \in [Workers -> WorkerPc]
               /\ job' \in [Workers -> Analyses \cup {NoJob}]
               /\ \A v \in Workers : pc'[v] = "idle" <=> job'[v] = NoJob
    BY <2>5 DEF Return, GoOn
  <2>6. ASSUME NEW w \in Workers,
               ClaimRejected(w) \/ PersistFailed(w) \/ PersistSucceeded(w) \/ WorkerRaises(w)
        PROVE  TypeOK'
    <3>1. Return(w, pc[w]) /\ UNCHANGED queue
      BY <2>6 DEF ClaimRejected, PersistFailed, PersistSucceeded, WorkerRaises, Return, GoOn
    <3>2. pc[w] # "idle" => job[w] \in Analyses
      OBVIOUS
    <3>3. CASE ClaimRejected(w) \/ WorkerRaises(w)
      BY <2>5, <3>1, <3>2, <3>3 DEF ClaimRejected, WorkerRaises
    <3>4. CASE PersistFailed(w)
      BY <2>5, <3>1, <3>4 DEF PersistFailed, Write
    <3>5. CASE PersistSucceeded(w)
      <4>1. job[w] \in Analyses
        BY <3>2, <3>5 DEF PersistSucceeded, Return, GoOn
      <4> QED
        BY <2>5, <3>1, <3>5, <4>1 DEF PersistSucceeded, Write
    <3> QED
      BY <2>6, <3>3, <3>4, <3>5
  <2>7. CASE Crash \/ Exit
    <3>1. /\ <<>> \in Seq(Analyses)
          /\ {a \in Analyses : state[a] = SUCCEEDED} \in SUBSET Analyses
          /\ {a \in Analyses : state[a] = QUEUED} \in SUBSET Analyses
      OBVIOUS
    <3>2. CASE LoseMemory
      <4>1. /\ \A w \in Workers : pc'[w] = "idle" /\ job'[w] = NoJob
            /\ pc' \in [Workers -> WorkerPc]
            /\ job' \in [Workers -> Analyses \cup {NoJob}]
        BY <3>2 DEF LoseMemory
      <4> QED
        BY <2>7, <3>1, <3>2, <4>1 DEF Crash, Exit, LoseMemory
    <3> QED
      BY <2>7, <3>2 DEF Crash, Exit
  <2>8. CASE Stop \/ Boot \/ Serve
    BY <2>8 DEF Stop, Boot, Serve, RunningRows
  <2>9. CASE UNCHANGED vars
    BY <2>9 DEF vars
  <2> QED
    BY <2>1, <2>2, <2>3, <2>4, <2>5, <2>6, <2>7, <2>8, <2>9 DEF Next, WorkerStep
<1> QED
  BY <1>1, <1>2, PTL DEF Spec

-----------------------------------------------------------------------------
(* The claim *)

\* Workers have jobs only in a process that serves or drains: recovery never
\* resolves a row that a live worker owns.
PoolInv ==
  /\ phase \in {"down", "recovering"} =>
       queue = <<>> /\ \A w \in Workers : pc[w] = "idle"
  /\ phase # "serving" => pending = {}

\* A row that was never claimed was never matched.
RunsInv ==
  \A a \in Analyses : /\ runs[a] <= 1
                      /\ state[a] \in {ABSENT, QUEUED} => runs[a] = 0

\* A Result is saved before its state is written, and lives as long as the
\* process.
ResultInv ==
  /\ \A w \in Workers : pc[w] = "succeeding" => job[w] \in results
  /\ \A a \in Analyses :
       state[a] = SUCCEEDED /\ a \notin outlived => a \in reference /\ a \in results

\* The inductive invariant of the claim.
ClaimInv == PoolInv /\ ClaimIsExclusive /\ RunsInv /\ ResultInv

\* Each step keeps the claim exclusive, together with the facts it rests on.
LEMMA ClaimStep ==
  ASSUME TypeOK, ClaimInv, [Next]_vars
  PROVE  ClaimInv'
<1> USE StatesAreDistinct, WorkerAssumption
    DEF TypeOK, tableVars, poolVars, historyVars, PoolInv, ClaimIsExclusive, RunsInv,
        ResultInv, ClaimInv, Owns
<1>1. ASSUME NEW a \in Analyses, Create(a) PROVE ClaimInv'
  BY <1>1 DEF Create
<1>2. ASSUME NEW a \in Analyses, Submit(a) \/ Resubmit(a) PROVE ClaimInv'
  BY <1>2 DEF Submit, Resubmit, Enqueue
<1>3. ASSUME NEW a \in Analyses, Recover(a) PROVE ClaimInv'
  <2>1. state[a] = RUNNING /\ phase = "recovering"
    BY <1>3, ValidTransitions DEF Recover
  <2> QED
    BY <1>3, <2>1 DEF Recover
<1>4. ASSUME NEW w \in Workers, Dequeue(w) PROVE ClaimInv'
  BY <1>4 DEF Dequeue, GoOn
<1>5. ASSUME NEW w \in Workers, Claim(w) PROVE ClaimInv'
  <2>1. /\ pc[w] = "claiming" /\ job[w] \in Analyses /\ state[job[w]] = QUEUED
        /\ pc' = [pc EXCEPT ![w] = "matching"]
        /\ state' = [state EXCEPT ![job[w]] = RUNNING]
        /\ runs' = [runs EXCEPT ![job[w]] = @ + 1]
        /\ UNCHANGED <<phase, reference, results, pending, queue, job, outlived>>
    BY <1>5, ValidTransitions DEF Claim, GoOn, Write
  <2>2. \A v \in Workers : ~Owns(v, job[w])
    BY <2>1
  <2>3. ClaimIsExclusive'
    BY <2>1, <2>2
  <2>4. RunsInv'
    BY <2>1
  <2> QED
    BY <2>1, <2>3, <2>4
<1>6. ASSUME NEW w \in Workers, MatchingReturns(w) \/ MatchingRaises(w) PROVE ClaimInv'
  BY <1>6 DEF MatchingReturns, MatchingRaises, GoOn
<1>7. ASSUME NEW w \in Workers, SaveResult(w) PROVE ClaimInv'
  BY <1>7 DEF SaveResult, GoOn
<1>8. ASSUME NEW w \in Workers, ClaimRejected(w) \/ WorkerRaises(w) PROVE ClaimInv'
  <2>1. /\ pc' = [pc EXCEPT ![w] = "idle"] /\ job' = [job EXCEPT ![w] = NoJob]
        /\ UNCHANGED <<phase, tableVars, results, pending, queue, runs, outlived>>
    BY <1>8 DEF ClaimRejected, WorkerRaises, Return, GoOn
  <2>2. \A v \in Workers, a \in Analyses : Owns(v, a)' => Owns(v, a)
    BY <2>1
  <2>3. PoolInv'
    BY <2>1
  <2>4. ClaimIsExclusive'
    BY <2>1, <2>2
  <2>5. RunsInv' /\ ResultInv'
    BY <2>1
  <2> QED
    BY <2>3, <2>4, <2>5
<1>9. ASSUME NEW w \in Workers, PersistFailed(w) PROVE ClaimInv'
  <2>1. /\ pc[w] = "failing" /\ job[w] \in Analyses /\ Owns(w, job[w])
        /\ pc' = [pc EXCEPT ![w] = "idle"] /\ job' = [job EXCEPT ![w] = NoJob]
        /\ state' = [state EXCEPT ![job[w]] = FAILED] /\ state[job[w]] = RUNNING
        /\ UNCHANGED <<phase, reference, results, pending, queue, runs, outlived>>
    BY <1>9, ValidTransitions DEF PersistFailed, Return, GoOn, Write
  <2>2. \A v \in Workers : v # w => ~Owns(v, job[w])
    BY <2>1
  <2>3. ClaimIsExclusive'
    BY <2>1, <2>2
  <2> QED
    BY <2>1, <2>3
<1>10. ASSUME NEW w \in Workers, PersistSucceeded(w) PROVE ClaimInv'
  <2>1. /\ pc[w] = "succeeding" /\ job[w] \in Analyses /\ Owns(w, job[w])
        /\ pc' = [pc EXCEPT ![w] = "idle"] /\ job' = [job EXCEPT ![w] = NoJob]
        /\ state' = [state EXCEPT ![job[w]] = SUCCEEDED] /\ state[job[w]] = RUNNING
        /\ reference' = reference \cup {job[w]}
        /\ UNCHANGED <<phase, results, pending, queue, runs, outlived>>
    BY <1>10, ValidTransitions DEF PersistSucceeded, Return, GoOn, Write
  <2>2. \A v \in Workers : v # w => ~Owns(v, job[w])
    BY <2>1
  <2>3. ClaimIsExclusive'
    BY <2>1, <2>2
  <2> QED
    BY <2>1, <2>3
<1>11. CASE Crash \/ Exit
  <2>1. /\ \A w \in Workers : pc'[w] = "idle"
        /\ queue' = <<>> /\ pending' = {} /\ UNCHANGED <<state, reference, runs>>
        /\ \A a \in Analyses : state[a] = SUCCEEDED => a \in outlived'
    BY <1>11 DEF Crash, Exit, LoseMemory
  <2> QED
    BY <2>1
<1>12. CASE Stop \/ Boot \/ Serve
  BY <1>12 DEF Stop, Boot, Serve
<1>13. CASE UNCHANGED vars
  BY <1>13 DEF vars
<1> QED
  BY <1>1, <1>2, <1>3, <1>4, <1>5, <1>6, <1>7, <1>8, <1>9, <1>10, <1>11, <1>12, <1>13
  DEF Next, WorkerStep

\* The claim stays exclusive in every behaviour.
LEMMA ClaimInvariant == Spec => []ClaimInv
<1>1. Init => ClaimInv
  BY StatesAreDistinct DEF Init, ClaimInv, PoolInv, ClaimIsExclusive, RunsInv, ResultInv, Owns
<1>2. TypeOK /\ ClaimInv /\ [Next]_vars => ClaimInv'
  BY ClaimStep
<1> QED
  BY <1>1, <1>2, TypeCorrect, PTL DEF Spec

\* No two workers get past the claim of one Analysis, and the row of a claimed
\* Analysis stays RUNNING until its owner writes the terminal state.
THEOREM ClaimsAreExclusive == Spec => []ClaimIsExclusive
<1>1. ClaimInv => ClaimIsExclusive
  BY DEF ClaimInv
<1> QED
  BY <1>1, ClaimInvariant, PTL

\* Matching is invoked at most once per Analysis.
THEOREM NoSecondRun == Spec => []RunsAtMostOnce
<1>1. ClaimInv => RunsAtMostOnce
  BY DEF ClaimInv, RunsInv, RunsAtMostOnce
<1> QED
  BY <1>1, ClaimInvariant, PTL

\* An Analysis has one owner and one run.
THEOREM OneRun == Spec => []NoAnalysisRunsTwice
BY ClaimsAreExclusive, NoSecondRun, PTL DEF NoAnalysisRunsTwice

\* A SUCCEEDED Analysis of the present process has a readable Result.
THEOREM ResultsAreReadable == Spec => []IntegrityErrorsOnlyAfterRestart
<1>1. TypeOK /\ ClaimInv => IntegrityErrorsOnlyAfterRestart
  <2> SUFFICES ASSUME TypeOK, ClaimInv, NEW a \in Analyses, a \notin outlived
               PROVE  GetResult(a) # "integrity error"
    BY DEF IntegrityErrorsOnlyAfterRestart
  <2>1. state[a] \in {QUEUED, RUNNING, SUCCEEDED, FAILED, ABSENT}
    BY DEF TypeOK, LifecycleStates
  <2>2. state[a] = SUCCEEDED => a \in reference /\ a \in results
    BY DEF ClaimInv, ResultInv
  <2> QED
    BY <2>1, <2>2, StatesAreDistinct DEF GetResult
<1> QED
  BY <1>1, TypeCorrect, ClaimInvariant, PTL

-----------------------------------------------------------------------------
(* Nothing is forgotten *)

\* Where the open rows of the table stand while no pool works on them: recovery
\* has listed exactly the RUNNING ones, and a QUEUED one was dropped by a crash
\* or an exception, since a graceful stop empties the queue first.
LeftoverInv ==
  /\ phase = "recovering" => interrupted = {a \in Analyses : state[a] = RUNNING}
  /\ phase \in {"down", "recovering"} =>
       \A a \in Analyses : state[a] = QUEUED => a \in dropped

CarriedInv == OpenAnalysesAreCarried /\ LeftoverInv

\* An Analysis handed to nobody else is still in the queue behind its head.
LEMMA TailKeeps ==
  ASSUME TypeOK, queue # <<>>, NEW i \in DOMAIN queue
  PROVE  queue[i] = Head(queue) \/ \E k \in DOMAIN Tail(queue) : Tail(queue)[k] = queue[i]
<1>1. queue \in Seq(Analyses) /\ Len(queue) \in Nat /\ Len(queue) > 0 /\ i \in 1..Len(queue)
  BY DEF TypeOK
<1>2. CASE i = 1
  BY <1>1, <1>2
<1>3. CASE i # 1
  <2>1. /\ Len(Tail(queue)) = Len(queue) - 1 /\ i - 1 \in 1..Len(Tail(queue))
        /\ Tail(queue)[i - 1] = queue[i]
    BY <1>1, <1>3
  <2> QED
    BY <1>1, <2>1
<1> QED
  BY <1>2, <1>3

\* Submitting keeps what is queued and adds the new Analysis.
LEMMA AppendKeeps ==
  ASSUME TypeOK, NEW a \in Analyses
  PROVE  /\ \A i \in DOMAIN queue : i \in DOMAIN Append(queue, a)
                                    /\ Append(queue, a)[i] = queue[i]
         /\ \E i \in DOMAIN Append(queue, a) : Append(queue, a)[i] = a
<1>1. queue \in Seq(Analyses) /\ Len(queue) \in Nat
  BY DEF TypeOK
<1>2. /\ DOMAIN queue = 1..Len(queue) /\ DOMAIN Append(queue, a) = 1..(Len(queue) + 1)
      /\ Append(queue, a)[Len(queue) + 1] = a
      /\ \A i \in 1..Len(queue) : Append(queue, a)[i] = queue[i]
  BY <1>1
<1> QED
  BY <1>1, <1>2

\* The two ways of being carried.
InMemory(a) ==
  \/ a \in pending
  \/ \E i \in DOMAIN queue : queue[i] = a
  \/ \E w \in Workers : job[w] = a

\* A worker owns the Analysis.
HasOwner(a) == \E w \in Workers : Owns(w, a)

\* A step that keeps the state, the carriers and the drop marks of a keeps a
\* carried.
LEMMA CarriedFrame ==
  ASSUME OpenAnalysesAreCarried, NEW a \in Analyses, phase \in {"serving", "draining"},
         state'[a] = state[a], dropped \subseteq dropped',
         InMemory(a) => InMemory(a)', HasOwner(a) => HasOwner(a)'
  PROVE  state'[a] \in {QUEUED, RUNNING} => IsCarried(a)' \/ a \in dropped'
BY DEF OpenAnalysesAreCarried, IsCarried, InMemory, HasOwner

\* Each step keeps a carrier for every open Analysis, or marks it dropped.
LEMMA CarriedStep ==
  ASSUME TypeOK, ClaimInv, CarriedInv, [Next]_vars
  PROVE  CarriedInv'
<1> USE StatesAreDistinct, WorkerAssumption
    DEF TypeOK, tableVars, poolVars, historyVars, CarriedInv, LeftoverInv
<1>0. /\ phase \in {"down", "recovering"} =>
           queue = <<>> /\ (\A w \in Workers : pc[w] = "idle" /\ job[w] = NoJob)
      /\ phase # "serving" => pending = {}
  BY DEF ClaimInv, PoolInv
<1>1. ASSUME NEW a \in Analyses, Create(a) PROVE CarriedInv'
  <2>1. /\ phase = "serving" /\ phase' = "serving"
        /\ state' = [state EXCEPT ![a] = QUEUED] /\ a \in pending'
        /\ pending \subseteq pending' /\ UNCHANGED <<queue, pc, job, dropped>>
    BY <1>1 DEF Create
  <2>2. ASSUME NEW x \in Analyses, state'[x] \in {QUEUED, RUNNING}
        PROVE  IsCarried(x)' \/ x \in dropped'
    <3>1. CASE x = a
      BY <2>1, <3>1 DEF IsCarried
    <3>2. CASE x # a
      BY <2>1, <2>2, <3>2, CarriedFrame DEF InMemory, HasOwner, Owns
    <3> QED
      BY <3>1, <3>2
  <2> QED
    BY <2>1, <2>2 DEF OpenAnalysesAreCarried
<1>2. ASSUME NEW a \in Analyses, Submit(a) \/ Resubmit(a) PROVE CarriedInv'
  <2>1. /\ phase = "serving" /\ phase' = "serving" /\ queue' = Append(queue, a)
        /\ pending \subseteq pending' \cup {a} /\ UNCHANGED <<state, pc, job, dropped>>
    BY <1>0, <1>2 DEF Submit, Resubmit, Enqueue
  <2>2. ASSUME NEW x \in Analyses, state'[x] \in {QUEUED, RUNNING}
        PROVE  IsCarried(x)' \/ x \in dropped'
    <3>1. InMemory(x) => InMemory(x)'
      <4>1. CASE x \in pending
        BY <2>1, <4>1, AppendKeeps DEF InMemory
      <4>2. CASE \E i \in DOMAIN queue : queue[i] = x
        BY <2>1, <4>2, AppendKeeps DEF InMemory
      <4>3. CASE \E w \in Workers : job[w] = x
        BY <2>1, <4>3 DEF InMemory
      <4> QED
        BY <4>1, <4>2, <4>3 DEF InMemory
    <3>2. HasOwner(x) => HasOwner(x)'
      BY <2>1 DEF HasOwner, Owns
    <3> QED
      BY <2>1, <2>2, <3>1, <3>2, CarriedFrame
  <2> QED
    BY <2>1, <2>2 DEF OpenAnalysesAreCarried
<1>3. ASSUME NEW a \in Analyses, Recover(a) PROVE CarriedInv'
  BY <1>3, ValidTransitions DEF Recover, OpenAnalysesAreCarried
<1>4. ASSUME NEW w \in Workers, Dequeue(w) PROVE CarriedInv'
  <2>1. /\ phase \in {"serving", "draining"} /\ phase' = phase /\ queue # <<>>
        /\ pc[w] = "idle" /\ job[w] = NoJob
        /\ pc' = [pc EXCEPT ![w] = "claiming"]
        /\ job' = [job EXCEPT ![w] = Head(queue)]
        /\ queue' = Tail(queue) /\ UNCHANGED <<state, pending, dropped>>
    BY <1>0, <1>4 DEF Dequeue, GoOn
  <2>2. ASSUME NEW x \in Analyses, state'[x] \in {QUEUED, RUNNING}
        PROVE  IsCarried(x)' \/ x \in dropped'
    <3>1. InMemory(x) => InMemory(x)'
      <4>1. CASE x \in pending
        BY <2>1, <4>1 DEF InMemory
      <4>2. CASE \E i \in DOMAIN queue : queue[i] = x
        <5>1. PICK i \in DOMAIN queue : queue[i] = x
          BY <4>2
        <5>2. x = Head(queue) \/ \E k \in DOMAIN Tail(queue) : Tail(queue)[k] = x
          BY <2>1, <5>1, TailKeeps
        <5>3. job'[w] = Head(queue)
          BY <2>1
        <5> QED
          BY <2>1, <5>2, <5>3 DEF InMemory
      <4>3. CASE \E v \in Workers : job[v] = x
        BY <2>1, <4>3 DEF InMemory
      <4> QED
        BY <4>1, <4>2, <4>3 DEF InMemory
    <3>2. HasOwner(x) => HasOwner(x)'
      BY <2>1 DEF HasOwner, Owns
    <3> QED
      BY <2>1, <2>2, <3>1, <3>2, CarriedFrame
  <2> QED
    BY <2>1, <2>2 DEF OpenAnalysesAreCarried
<1>5. ASSUME NEW w \in Workers, Claim(w) PROVE CarriedInv'
  <2>1. /\ phase \in {"serving", "draining"} /\ phase' = phase
        /\ pc[w] = "claiming" /\ job[w] \in Analyses
        /\ pc' = [pc EXCEPT ![w] = "matching"]
        /\ state' = [state EXCEPT ![job[w]] = RUNNING]
        /\ dropped' = dropped \ {job[w]}
        /\ UNCHANGED <<queue, pending, job>>
    BY <1>0, <1>5, ValidTransitions DEF Claim, GoOn, Write
  <2>2. ASSUME NEW x \in Analyses, state'[x] \in {QUEUED, RUNNING}
        PROVE  IsCarried(x)' \/ x \in dropped'
    <3>1. CASE x = job[w]
      BY <2>1, <3>1 DEF IsCarried, Owns
    <3>2. CASE x # job[w]
      <4>1. state[x] \in {QUEUED, RUNNING} /\ state'[x] = state[x]
        BY <2>1, <2>2, <3>2
      <4>2. x \in dropped \/ IsCarried(x)
        BY <2>1, <4>1 DEF OpenAnalysesAreCarried
      <4>3. InMemory(x) => InMemory(x)'
        BY <2>1 DEF InMemory
      <4>4. HasOwner(x) => HasOwner(x)'
        BY <2>1, <3>2 DEF HasOwner, Owns
      <4>5. IsCarried(x) => IsCarried(x)'
        BY <4>1, <4>3, <4>4 DEF IsCarried, InMemory, HasOwner
      <4> QED
        BY <2>1, <3>2, <4>2, <4>5
    <3> QED
      BY <3>1, <3>2
  <2> QED
    BY <2>1, <2>2 DEF OpenAnalysesAreCarried
<1>6. ASSUME NEW w \in Workers, NEW next \in WorkerPc \ {"idle", "claiming"},
             pc[w] \notin {"idle", "claiming"}, pc' = [pc EXCEPT ![w] = next],
             UNCHANGED <<phase, state, pending, queue, job, interrupted, dropped>>
      PROVE  CarriedInv'
  <2>1. phase \in {"serving", "draining"}
    BY <1>0, <1>6
  <2>2. ASSUME NEW x \in Analyses, state'[x] \in {QUEUED, RUNNING}
        PROVE  IsCarried(x)' \/ x \in dropped'
    <3>1. InMemory(x) => InMemory(x)'
      BY <1>6 DEF InMemory
    <3>2. HasOwner(x) => HasOwner(x)'
      BY <1>6 DEF HasOwner, Owns
    <3> QED
      BY <1>6, <2>1, <2>2, <3>1, <3>2, CarriedFrame
  <2> QED
    BY <1>6, <2>1, <2>2 DEF OpenAnalysesAreCarried
<1>7. ASSUME NEW w \in Workers, MatchingReturns(w) \/ MatchingRaises(w) \/ SaveResult(w)
      PROVE  CarriedInv'
  <2>1. CASE MatchingReturns(w)
    BY <1>6, <2>1 DEF MatchingReturns, GoOn, WorkerPc
  <2>2. CASE MatchingRaises(w)
    BY <1>6, <2>2 DEF MatchingRaises, GoOn, WorkerPc
  <2>3. CASE SaveResult(w)
    BY <1>6, <2>3 DEF SaveResult, GoOn, WorkerPc
  <2> QED
    BY <1>7, <2>1, <2>2, <2>3
<1>8. ASSUME NEW w \in Workers, Return(w, pc[w]), pc[w] # "idle",
             UNCHANGED <<phase, pending, queue>>,
             \A x \in Analyses : x # job[w] => state'[x] = state[x],
             dropped \subseteq dropped',
             state'[job[w]] \in {QUEUED, RUNNING} =>
               \/ job[w] \in dropped'
               \/ state'[job[w]] = RUNNING /\ state[job[w]] = RUNNING /\ pc[w] = "claiming"
      PROVE  CarriedInv'
  <2>1. /\ phase \in {"serving", "draining"} /\ job[w] \in Analyses
        /\ pc' = [pc EXCEPT ![w] = "idle"] /\ job' = [job EXCEPT ![w] = NoJob]
    BY <1>0, <1>8 DEF Return, GoOn
  <2>2. ASSUME NEW x \in Analyses, state'[x] \in {QUEUED, RUNNING}
        PROVE  IsCarried(x)' \/ x \in dropped'
    <3>1. CASE x # job[w]
      <4>1. InMemory(x) => InMemory(x)'
        BY <1>8, <2>1, <3>1 DEF InMemory
      <4>2. HasOwner(x) => HasOwner(x)'
        BY <2>1, <3>1 DEF HasOwner, Owns
      <4> QED
        BY <1>8, <2>1, <2>2, <3>1, <4>1, <4>2, CarriedFrame
    <3>2. CASE x = job[w] /\ x \notin dropped'
      <4>1. state'[x] = RUNNING /\ state[x] = RUNNING /\ pc[w] = "claiming" /\ x \notin dropped
        BY <1>8, <2>2, <3>2
      <4>2. PICK v \in Workers : Owns(v, x)
        BY <2>1, <4>1 DEF OpenAnalysesAreCarried, IsCarried
      <4>3. v # w
        BY <4>1, <4>2 DEF Owns
      <4> QED
        BY <2>1, <4>1, <4>2, <4>3 DEF IsCarried, Owns
    <3> QED
      BY <3>1, <3>2
  <2> QED
    BY <1>8, <2>1, <2>2 DEF OpenAnalysesAreCarried
<1>9. ASSUME NEW w \in Workers,
             ClaimRejected(w) \/ WorkerRaises(w) \/ PersistFailed(w) \/ PersistSucceeded(w)
      PROVE  CarriedInv'
  <2>1. /\ Return(w, pc[w]) /\ pc[w] # "idle" /\ UNCHANGED <<phase, pending, queue>>
        /\ job[w] \in Analyses
    BY <1>9 DEF ClaimRejected, WorkerRaises, PersistFailed, PersistSucceeded, Return, GoOn
  <2>2. CASE ClaimRejected(w)
    <3>1. pc[w] = "claiming" /\ state[job[w]] # QUEUED /\ UNCHANGED <<state, dropped>>
      BY <2>2, ValidTransitions DEF ClaimRejected, Return, GoOn
    <3> QED
      BY <1>8, <2>1, <3>1
  <2>3. CASE WorkerRaises(w)
    <3>1. /\ UNCHANGED state /\ dropped \subseteq dropped'
          /\ job[w] \in dropped' \/ (pc[w] = "claiming" /\ state[job[w]] # QUEUED)
      BY <2>3 DEF WorkerRaises
    <3> QED
      BY <1>8, <2>1, <3>1
  <2>4. CASE PersistFailed(w)
    <3>1. state' = [state EXCEPT ![job[w]] = FAILED] /\ UNCHANGED dropped
      BY <2>4 DEF PersistFailed, Write
    <3> QED
      BY <1>8, <2>1, <3>1
  <2>5. CASE PersistSucceeded(w)
    <3>1. state' = [state EXCEPT ![job[w]] = SUCCEEDED] /\ UNCHANGED dropped
      BY <2>5 DEF PersistSucceeded, Write
    <3> QED
      BY <1>8, <2>1, <3>1
  <2> QED
    BY <1>9, <2>2, <2>3, <2>4, <2>5
<1>10. CASE Crash
  BY <1>10 DEF Crash, LoseMemory, OpenAnalysesAreCarried
<1>11. CASE Exit
  <2>1. /\ phase = "draining" /\ queue = <<>> /\ pending = {}
        /\ \A w \in Workers : job[w] = NoJob
        /\ phase' = "down" /\ UNCHANGED <<state, dropped>>
    BY <1>0, <1>11 DEF Exit, LoseMemory
  <2>2. \A a \in Analyses : state[a] = QUEUED => a \in dropped
    BY <2>1 DEF OpenAnalysesAreCarried, IsCarried
  <2> QED
    BY <2>1, <2>2 DEF OpenAnalysesAreCarried
<1>12. CASE Stop
  <2>1. /\ phase = "serving" /\ phase' = "draining"
        /\ UNCHANGED <<state, pending, queue, pc, job, dropped>>
    BY <1>12 DEF Stop
  <2> QED
    BY <2>1 DEF OpenAnalysesAreCarried, IsCarried, Owns
<1>13. CASE Boot
  BY <1>13 DEF Boot, RunningRows, OpenAnalysesAreCarried
<1>14. CASE Serve
  BY <1>14 DEF Serve, OpenAnalysesAreCarried
<1>15. CASE UNCHANGED vars
  BY <1>15 DEF vars, OpenAnalysesAreCarried, IsCarried, Owns
<1> QED
  BY <1>1, <1>2, <1>3, <1>4, <1>5, <1>7, <1>9, <1>10, <1>11, <1>12, <1>13, <1>14, <1>15
  DEF Next, WorkerStep

\* Every open Analysis has a carrier or was marked as dropped, in every behaviour.
LEMMA CarriedInvariant == Spec => []CarriedInv
<1>1. Init => CarriedInv
  BY StatesAreDistinct DEF Init, CarriedInv, LeftoverInv, OpenAnalysesAreCarried
<1>2. TypeOK /\ ClaimInv /\ CarriedInv /\ [Next]_vars => CarriedInv'
  BY CarriedStep
<1> QED
  BY <1>1, <1>2, TypeCorrect, ClaimInvariant, PTL DEF Spec

\* A serving or draining process has a carrier for every open Analysis that no
\* crash and no exception outside the worker's try has stranded.
THEOREM NothingIsForgotten == Spec => []OpenAnalysesAreCarried
<1>1. CarriedInv => OpenAnalysesAreCarried
  BY DEF CarriedInv
<1> QED
  BY <1>1, CarriedInvariant, PTL

-----------------------------------------------------------------------------
(* What is stranded stays *)

\* Submitting adds nothing else to the queue.
LEMMA AppendAdds ==
  ASSUME TypeOK, NEW b \in Analyses, NEW i \in DOMAIN Append(queue, b)
  PROVE  Append(queue, b)[i] = b \/ \E k \in DOMAIN queue : queue[k] = Append(queue, b)[i]
<1>1. queue \in Seq(Analyses) /\ Len(queue) \in Nat
  BY DEF TypeOK
<1>2. /\ DOMAIN queue = 1..Len(queue) /\ DOMAIN Append(queue, b) = 1..(Len(queue) + 1)
      /\ Append(queue, b)[Len(queue) + 1] = b
      /\ \A k \in 1..Len(queue) : Append(queue, b)[k] = queue[k]
  BY <1>1
<1> QED
  BY <1>1, <1>2

\* What leaves the queue was in it, and so was what stays.
LEMMA NothingNewIsTaken ==
  ASSUME TypeOK, queue # <<>>
  PROVE  /\ \E k \in DOMAIN queue : queue[k] = Head(queue)
         /\ \A i \in DOMAIN Tail(queue) : \E k \in DOMAIN queue : queue[k] = Tail(queue)[i]
<1>1. queue \in Seq(Analyses) /\ Len(queue) \in Nat /\ Len(queue) > 0
  BY DEF TypeOK
<1>2. 1 \in DOMAIN queue /\ queue[1] = Head(queue)
  BY <1>1
<1>3. ASSUME NEW i \in DOMAIN Tail(queue)
      PROVE  i + 1 \in DOMAIN queue /\ queue[i + 1] = Tail(queue)[i]
  BY <1>1, <1>3
<1> QED
  BY <1>2, <1>3

\* A QUEUED Analysis is claimed only out of memory, and gets back into it only by
\* being submitted once more.
LEMMA QueuedStays ==
  ASSUME TypeOK, ClaimInv, [Next]_vars, NEW a \in Analyses,
         state[a] = QUEUED, ~InMemory(a), resubmissions'[a] = resubmissions[a]
  PROVE  state'[a] = QUEUED /\ ~InMemory(a)'
<1> USE StatesAreDistinct, WorkerAssumption DEF TypeOK, tableVars, poolVars, historyVars
<1>0. /\ a \notin pending /\ (\A i \in DOMAIN queue : queue[i] # a)
      /\ \A w \in Workers : job[w] # a
  BY DEF InMemory
<1>1. ASSUME NEW b \in Analyses, Create(b) PROVE state'[a] = QUEUED /\ ~InMemory(a)'
  <2>1. b # a /\ state' = [state EXCEPT ![b] = QUEUED] /\ pending' = pending \cup {b}
        /\ UNCHANGED <<queue, job>>
    BY <1>1 DEF Create
  <2> QED
    BY <1>0, <2>1 DEF InMemory
<1>2. ASSUME NEW b \in Analyses, Submit(b) \/ Resubmit(b)
      PROVE  state'[a] = QUEUED /\ ~InMemory(a)'
  <2>1. b # a
    BY <1>0, <1>2 DEF Submit, Resubmit
  <2>2. /\ queue' = Append(queue, b) /\ pending' \subseteq pending
        /\ UNCHANGED <<state, job>>
    BY <1>2 DEF Submit, Resubmit, Enqueue
  <2>3. \A i \in DOMAIN Append(queue, b) : Append(queue, b)[i] # a
    BY <1>0, <2>1, AppendAdds
  <2> QED
    BY <1>0, <2>2, <2>3 DEF InMemory
<1>3. ASSUME NEW b \in Analyses, Recover(b) PROVE state'[a] = QUEUED /\ ~InMemory(a)'
  <2>1. b # a
    BY <1>3, ValidTransitions DEF Recover
  <2> QED
    BY <1>0, <1>3, <2>1 DEF Recover, InMemory
<1>4. ASSUME NEW w \in Workers, Dequeue(w) PROVE state'[a] = QUEUED /\ ~InMemory(a)'
  <2>1. /\ queue # <<>> /\ job' = [job EXCEPT ![w] = Head(queue)]
        /\ queue' = Tail(queue) /\ UNCHANGED <<state, pending>>
    BY <1>4 DEF Dequeue
  <2>2. Head(queue) # a /\ \A i \in DOMAIN Tail(queue) : Tail(queue)[i] # a
    BY <1>0, <2>1, NothingNewIsTaken
  <2> QED
    BY <1>0, <2>1, <2>2 DEF InMemory
<1>5. ASSUME NEW w \in Workers, NEW to \in LifecycleStates, pc[w] # "idle", Write(w, to),
             job' \in {job, [job EXCEPT ![w] = NoJob]}, UNCHANGED <<queue, pending>>
      PROVE  state'[a] = QUEUED /\ ~InMemory(a)'
  BY <1>0, <1>5 DEF Write, InMemory
<1>6. ASSUME NEW w \in Workers, Claim(w) \/ PersistFailed(w) \/ PersistSucceeded(w)
      PROVE  state'[a] = QUEUED /\ ~InMemory(a)'
  BY <1>5, <1>6, StatesAreStates DEF Claim, PersistFailed, PersistSucceeded, Return, GoOn
<1>7. ASSUME UNCHANGED <<state, queue, pending>>, \E w \in Workers : job' \in {job, [job EXCEPT ![w] = NoJob]}
      PROVE  state'[a] = QUEUED /\ ~InMemory(a)'
  BY <1>0, <1>7 DEF InMemory
<1>8. ASSUME NEW w \in Workers, \/ ClaimRejected(w) \/ MatchingReturns(w)
                                \/ MatchingRaises(w) \/ SaveResult(w) \/ WorkerRaises(w)
      PROVE  state'[a] = QUEUED /\ ~InMemory(a)'
  BY <1>7, <1>8 DEF ClaimRejected, MatchingReturns, MatchingRaises, SaveResult, WorkerRaises,
                    Return
<1>9. CASE Crash \/ Exit
  BY <1>9 DEF Crash, Exit, LoseMemory, InMemory
<1>10. CASE Stop \/ Boot \/ Serve \/ UNCHANGED vars
  BY <1>0, <1>10 DEF Stop, Boot, Serve, vars, InMemory
<1> QED
  BY <1>1, <1>2, <1>3, <1>4, <1>6, <1>8, <1>9, <1>10 DEF Next, WorkerStep

\* A RUNNING Analysis that has lost its worker gets no other, and keeps its state
\* until recovery resolves it.
LEMMA RunningStays ==
  ASSUME TypeOK, ClaimInv, [Next]_vars, NEW a \in Analyses,
         state[a] = RUNNING, ~HasOwner(a), phase # "recovering"
  PROVE  state'[a] = RUNNING /\ ~HasOwner(a)'
<1> USE StatesAreDistinct, WorkerAssumption
    DEF TypeOK, tableVars, poolVars, historyVars, HasOwner, Owns
<1>1. ASSUME NEW b \in Analyses, Create(b) \/ Submit(b) \/ Resubmit(b) \/ Recover(b)
      PROVE  state'[a] = RUNNING /\ ~HasOwner(a)'
  BY <1>1 DEF Create, Submit, Resubmit, Enqueue, Recover
<1>2. ASSUME NEW w \in Workers, Dequeue(w) PROVE state'[a] = RUNNING /\ ~HasOwner(a)'
  BY <1>2 DEF Dequeue, GoOn
<1>3. ASSUME NEW w \in Workers, Claim(w) PROVE state'[a] = RUNNING /\ ~HasOwner(a)'
  <2>1. job[w] # a
    BY <1>3, ValidTransitions DEF Claim, Write
  <2> QED
    BY <1>3, <2>1 DEF Claim, Write, GoOn
<1>4. ASSUME NEW w \in Workers, MatchingReturns(w) \/ MatchingRaises(w) \/ SaveResult(w)
      PROVE  state'[a] = RUNNING /\ ~HasOwner(a)'
  BY <1>4 DEF MatchingReturns, MatchingRaises, SaveResult, GoOn
<1>5. ASSUME NEW w \in Workers, ClaimRejected(w) \/ WorkerRaises(w)
      PROVE  state'[a] = RUNNING /\ ~HasOwner(a)'
  BY <1>5 DEF ClaimRejected, WorkerRaises, Return, GoOn
<1>6. ASSUME NEW w \in Workers, PersistFailed(w) \/ PersistSucceeded(w)
      PROVE  state'[a] = RUNNING /\ ~HasOwner(a)'
  <2>1. job[w] # a
    BY <1>6 DEF PersistFailed, PersistSucceeded, Return, GoOn
  <2> QED
    BY <1>6, <2>1 DEF PersistFailed, PersistSucceeded, Return, GoOn, Write
<1>7. CASE Crash \/ Exit
  BY <1>7 DEF Crash, Exit, LoseMemory
<1>8. CASE Stop \/ Boot \/ Serve \/ UNCHANGED vars
  BY <1>8 DEF Stop, Boot, Serve, vars
<1> QED
  BY <1>1, <1>2, <1>3, <1>4, <1>5, <1>6, <1>7, <1>8 DEF Next, WorkerStep

\* Both ways of being stranded are for good: what the two counterexamples of
\* the liveness runs show is not a matter of their bounds or of their fairness.
THEOREM StrandedForGood == Spec => StrandedAnalysesStay
<1>1. ASSUME TypeOK, ClaimInv, [Next]_vars, NEW a \in Analyses, ~IsCarried(a)
      PROVE  /\ state[a] = QUEUED /\ resubmissions'[a] = resubmissions[a] =>
                  state'[a] = QUEUED /\ ~IsCarried(a)'
             /\ state[a] = RUNNING /\ phase # "recovering" =>
                  state'[a] = RUNNING /\ ~IsCarried(a)'
  BY <1>1, QueuedStays, RunningStays, StatesAreDistinct
  DEF IsCarried, InMemory, HasOwner
<1>2. TypeOK /\ ClaimInv /\ [Next]_vars =>
        [\A a \in Analyses : ~IsCarried(a) =>
           /\ state[a] = QUEUED /\ resubmissions'[a] = resubmissions[a] =>
                state'[a] = QUEUED /\ ~IsCarried(a)'
           /\ state[a] = RUNNING /\ phase # "recovering" =>
                state'[a] = RUNNING /\ ~IsCarried(a)']_vars
  BY <1>1
<1> QED
  BY <1>2, TypeCorrect, ClaimInvariant, PTL
  DEF Spec, StrandedAnalysesStay

-----------------------------------------------------------------------------
(* A graceful stop *)

\* A worker gets further in its own run, and nothing else moves.
WorkerMoves(w) ==
  /\ phase' = phase
  /\ \A v \in Workers \ {w} : pc'[v] = pc[v] /\ job'[v] = job[v]
  /\ \/ pc[w] = "idle" /\ queue # <<>> /\ queue' = Tail(queue)
     \/ queue' = queue /\ TurnsLeft(pc'[w]) < TurnsLeft(pc[w])

\* Whatever a worker does, and whatever its code raises, it gets further.
LEMMA WorkersGetFurther ==
  ASSUME TypeOK, NEW w \in Workers, WorkerStep(w) \/ WorkerRaises(w)
  PROVE  WorkerMoves(w)
<1>1. /\ pc \in [Workers -> WorkerPc] /\ job \in [Workers -> Analyses \cup {NoJob}]
      /\ phase' = phase
  BY DEF TypeOK, WorkerStep, WorkerRaises, Dequeue, Claim, ClaimRejected, MatchingReturns,
         MatchingRaises, PersistFailed, SaveResult, PersistSucceeded
<1>2. CASE Dequeue(w)
  BY <1>1, <1>2 DEF Dequeue, GoOn, WorkerMoves
<1>3. ASSUME NEW from \in WorkerPc, NEW to \in WorkerPc, GoOn(w, from, to),
             TurnsLeft(to) < TurnsLeft(from), queue' = queue,
             job' \in {job, [job EXCEPT ![w] = NoJob]}
      PROVE  WorkerMoves(w)
  <2>1. pc[w] = from /\ pc'[w] = to
    BY <1>1, <1>3 DEF GoOn
  <2>2. \A v \in Workers \ {w} : pc'[v] = pc[v] /\ job'[v] = job[v]
    BY <1>1, <1>3 DEF GoOn
  <2> QED
    BY <1>1, <1>3, <2>1, <2>2, Zenon DEF WorkerMoves
<1>4. /\ TurnsLeft("matching") < TurnsLeft("claiming")
      /\ TurnsLeft("idle") < TurnsLeft("claiming")
      /\ TurnsLeft("saving") < TurnsLeft("matching")
      /\ TurnsLeft("failing") < TurnsLeft("matching")
      /\ TurnsLeft("succeeding") < TurnsLeft("saving")
      /\ \A at \in {"saving", "succeeding", "failing"} : TurnsLeft("idle") < TurnsLeft(at)
  BY DEF TurnsLeft
<1>5. CASE Claim(w)
  BY <1>3, <1>4, <1>5 DEF Claim, GoOn, WorkerPc
<1>6. CASE ClaimRejected(w) \/ PersistFailed(w) \/ PersistSucceeded(w)
  BY <1>3, <1>4, <1>6 DEF ClaimRejected, PersistFailed, PersistSucceeded, Return, GoOn, WorkerPc
<1>7. CASE MatchingReturns(w) \/ MatchingRaises(w) \/ SaveResult(w)
  BY <1>3, <1>4, <1>7 DEF MatchingReturns, MatchingRaises, SaveResult, GoOn, WorkerPc
<1>8. CASE WorkerRaises(w)
  BY <1>3, <1>4, <1>8 DEF WorkerRaises, Return, GoOn, WorkerPc
<1> QED
  BY <1>2, <1>5, <1>6, <1>7, <1>8 DEF WorkerStep

\* An idle pool with an empty queue carries nothing.
LEMMA ExitLosesNothing ==
  ASSUME TypeOK, ClaimInv, CarriedInv, Exit, NEW a \in Analyses, state'[a] \in {QUEUED, RUNNING}
  PROVE  a \in dropped'
<1>1. /\ state' = state /\ dropped' = dropped /\ phase = "draining" /\ pending = {}
      /\ queue = <<>> /\ \A w \in Workers : pc[w] = "idle" /\ job[w] # a
  BY WorkerAssumption DEF Exit, LoseMemory, tableVars, ClaimInv, PoolInv, TypeOK
<1>2. ~IsCarried(a)
  BY <1>1 DEF IsCarried, Owns
<1> QED
  BY <1>1, <1>2 DEF CarriedInv, OpenAnalysesAreCarried

\* A process that was told to stop takes nothing on, gets nearer to its end with
\* every step, and exits with nothing left open that it still carried.
THEOREM StopDrains == Spec => StopOnlyDrains
<1> DEFINE Drains ==
      \/ /\ phase' = "draining"
         /\ \E w \in Workers :
              /\ \A v \in Workers \ {w} : pc'[v] = pc[v] /\ job'[v] = job[v]
              /\ \/ pc[w] = "idle" /\ queue # <<>> /\ queue' = Tail(queue)
                 \/ queue' = queue /\ TurnsLeft(pc'[w]) < TurnsLeft(pc[w])
      \/ phase' = "down" /\ crashes' > crashes
      \/ /\ phase' = "down"
         /\ \A a \in Analyses : state'[a] \in {QUEUED, RUNNING} => a \in dropped'
<1>1. ASSUME TypeOK, ClaimInv, CarriedInv, Next, phase = "draining" PROVE Drains
  <2>1. ASSUME NEW w \in Workers, WorkerStep(w) \/ WorkerRaises(w) PROVE Drains
    BY <1>1, <2>1, WorkersGetFurther, Zenon DEF WorkerMoves
  <2>2. CASE Crash
    BY <1>1, <2>2 DEF Crash, LoseMemory, TypeOK
  <2>3. CASE Exit
    <3>1. phase' = "down"
      BY <2>3 DEF Exit, LoseMemory
    <3>2. \A a \in Analyses : state'[a] \in {QUEUED, RUNNING} => a \in dropped'
      BY <1>1, <2>3, ExitLosesNothing
    <3> QED
      BY <3>1, <3>2, Zenon
  <2>4. ASSUME NEW a \in Analyses PROVE ~ (Create(a) \/ Submit(a) \/ Resubmit(a) \/ Recover(a))
    BY <1>1 DEF Create, Submit, Resubmit, Recover, ClaimInv, PoolInv
  <2>5. ~ (Stop \/ Boot \/ Serve)
    BY <1>1 DEF Stop, Boot, Serve
  <2> HIDE DEF Drains
  <2> QED
    BY <1>1, <2>1, <2>2, <2>3, <2>4, <2>5, Zenon DEF Next
<1>2. TypeOK /\ ClaimInv /\ CarriedInv /\ [Next]_vars => [phase = "draining" => Drains]_vars
  BY <1>1
<1> QED
  BY <1>2, TypeCorrect, ClaimInvariant, CarriedInvariant, PTL DEF Spec, StopOnlyDrains

-----------------------------------------------------------------------------
(* Refinement *)

\* Executor, recovery, crashes and duplicate submissions move a row only as
\* the abstract lifecycle does.
THEOREM RefinesLifecycle == Spec => ImplementsLifecycle
<1> USE DEF Lifecycle!Next, Lifecycle!Create, Lifecycle!Transition,
        Lifecycle!IsValidTransition, Lifecycle!VALID_TRANSITIONS,
        Lifecycle!LifecycleStates, Lifecycle!QUEUED, Lifecycle!RUNNING,
        Lifecycle!SUCCEEDED, Lifecycle!FAILED, Lifecycle!ABSENT
<1>1. Init => Lifecycle!Init
  BY DEF Init, Lifecycle!Init, ABSENT
<1>2. ASSUME NEW a \in Analyses, NEW to \in LifecycleStates, IsValidTransition(state[a], to),
             state' = [state EXCEPT ![a] = to]
      PROVE  Lifecycle!Next
  BY <1>2 DEF IsValidTransition, VALID_TRANSITIONS, LifecycleStates, QUEUED, RUNNING,
              SUCCEEDED, FAILED
<1>3. TypeOK /\ [Next]_vars => [Lifecycle!Next]_state
  <2> SUFFICES ASSUME TypeOK, [Next]_vars PROVE Lifecycle!Next \/ UNCHANGED state
    OBVIOUS
  <2> USE DEF tableVars
  <2>1. ASSUME NEW a \in Analyses, Create(a) PROVE Lifecycle!Next
    BY <2>1 DEF Create, QUEUED, ABSENT
  <2>2. ASSUME NEW a \in Analyses, Recover(a) PROVE Lifecycle!Next
    BY <1>2, <2>2, StatesAreStates DEF Recover
  <2>3. ASSUME NEW w \in Workers, NEW to \in LifecycleStates, pc[w] # "idle", Write(w, to)
        PROVE  Lifecycle!Next
    <3>1. job[w] \in Analyses
      BY <2>3 DEF TypeOK
    <3> QED
      BY <1>2, <2>3, <3>1 DEF Write
  <2>4. ASSUME NEW w \in Workers, Claim(w) \/ PersistFailed(w) \/ PersistSucceeded(w)
        PROVE  Lifecycle!Next
    <3>1. /\ pc[w] # "idle"
          /\ Write(w, RUNNING) \/ Write(w, FAILED) \/ Write(w, SUCCEEDED)
      BY <2>4 DEF Claim, PersistFailed, PersistSucceeded, Return, GoOn
    <3> QED
      BY <2>3, <3>1, StatesAreStates
  <2>5. ASSUME NEW w \in Workers,
               \/ Dequeue(w) \/ ClaimRejected(w) \/ MatchingReturns(w)
               \/ MatchingRaises(w) \/ SaveResult(w) \/ WorkerRaises(w)
        PROVE  UNCHANGED state
    BY <2>5 DEF Dequeue, ClaimRejected, MatchingReturns, MatchingRaises, SaveResult,
                WorkerRaises
  <2>6. ASSUME NEW a \in Analyses, Submit(a) \/ Resubmit(a) PROVE UNCHANGED state
    BY <2>6 DEF Submit, Resubmit, Enqueue
  <2>7. Crash \/ Stop \/ Exit \/ Boot \/ Serve \/ UNCHANGED vars => UNCHANGED state
    BY DEF Crash, Stop, Exit, Boot, Serve, LoseMemory, vars
  <2> QED
    BY <2>1, <2>2, <2>4, <2>5, <2>6, <2>7 DEF Next, WorkerStep
<1> QED
  BY <1>1, <1>3, TypeCorrect, PTL DEF Spec, ImplementsLifecycle, Lifecycle!Spec

=============================================================================
