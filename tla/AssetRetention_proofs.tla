------------------------ MODULE AssetRetention_proofs ------------------------
(***************************************************************************)
(* Proofs about AssetRetention, for any sets of Analyses, Assets and       *)
(* requests, any windows and any bounds.                                   *)
(***************************************************************************)
EXTENDS AssetRetention, FiniteSetTheorems, TLAPS

\* The variables are those of their declarations: every definition of the
\* specification preserves the type invariant.
THEOREM TypeCorrect == Spec => []TypeOK
<1>1. Init => TypeOK
  BY DEF Init, TypeOK, Record, NoRecord, NothingSeen, Candidate, InitialScan
<1>2. TypeOK /\ [Next]_vars => TypeOK'
  <2> SUFFICES ASSUME TypeOK, [Next]_vars PROVE TypeOK'
    OBVIOUS
  <2> USE DEF TypeOK, storageVars, requestVars, cycleVars, budgetVars
  <2>1. CASE Tick
    BY <2>1 DEF Tick
  <2>2. ASSUME NEW x \in Assets, Ingest(x) PROVE TypeOK'
    BY <2>2 DEF Ingest
  <2>3. ASSUME NEW a \in Analyses, NEW to \in LifecycleStates, Transition(a, to)
        PROVE  TypeOK'
    BY <2>3 DEF Transition, Moved, Record
  <2>4. ASSUME NEW r \in Requests, NEW ids \in SUBSET Assets, Reserve(r, ids)
        PROVE  TypeOK'
    BY <2>4 DEF Reserve
  <2>5. ASSUME NEW r \in Requests, NEW x \in Assets, ReadAsset(r, x) PROVE TypeOK'
    BY <2>5 DEF ReadAsset
  <2>6. ASSUME NEW r \in Requests, Reject(r) PROVE TypeOK'
    BY <2>6 DEF Reject
  <2>7. ASSUME NEW r \in Requests, NEW a \in Analyses, Persist(r, a) PROVE TypeOK'
    BY <2>7 DEF Persist, Record, LifecycleStates
  <2>8. ASSUME NEW r \in Requests, Release(r) PROVE TypeOK'
    BY <2>8 DEF Release, Decrement
  <2>9. CASE BeginCycle
    BY <2>9 DEF BeginCycle, OpenPass, ReservedIds, NothingSeen, NoRecord, Record
  <2>10. CASE ScanQuery
    BY <2>10 DEF ScanQuery
  <2>11. CASE ScanConflict \/ CycleRaises
    BY <2>11 DEF ScanConflict, CycleRaises, AbandonCycle, CloseCycle, NothingSeen,
                 NoRecord, Record
  <2>12. CASE SelectExpired
    BY <2>12 DEF SelectExpired, ForgetScan, Candidate, NothingSeen, NoRecord, Record
  <2>13. CASE SelectOrphans
    BY <2>13 DEF SelectOrphans, ForgetScan, Candidate, NothingSeen, NoRecord, Record
  <2>14. ASSUME NEW c \in candidates, Choose(c) PROVE TypeOK'
    BY <2>14 DEF Choose
  <2>15. CASE Settle
    BY <2>15 DEF Settle, ForgetScan, NothingSeen, NoRecord, Record
  <2>16. CASE OwnedPassDone
    BY <2>16 DEF OwnedPassDone, OpenPass, NothingSeen, NoRecord, Record
  <2>17. CASE OrphanPassDone
    BY <2>17 DEF OrphanPassDone, CloseCycle, NothingSeen, NoRecord, Record
  <2>18. CASE Crash
    BY <2>18 DEF Crash, CloseCycle, NothingSeen, NoRecord, Record
  <2>19. CASE Restart
    BY <2>19 DEF Restart
  <2>20. ASSUME NEW a \in Analyses, Recover(a) PROVE TypeOK'
    BY <2>20 DEF Recover, Moved, Record, LifecycleStates
  <2>21. CASE StartupCleanup
    BY <2>21 DEF StartupCleanup, OpenPass, NothingSeen, NoRecord, Record
  <2>22. CASE UNCHANGED vars
    BY <2>22 DEF vars
  <2> QED
    BY <2>1, <2>2, <2>3, <2>4, <2>5, <2>6, <2>7, <2>8, <2>9, <2>10, <2>11, <2>12,
       <2>13, <2>14, <2>15, <2>16, <2>17, <2>18, <2>19, <2>20, <2>21, <2>22
    DEF Next, RequestStep, MaintenanceStep
<1> QED
  BY <1>1, <1>2, PTL DEF Spec


-----------------------------------------------------------------------------
(* Reservations *)

\* Requests live in a serving process, and before start-up cleanup no cycle is
\* in progress; the coordinator's counts are those of the open `with` blocks.
RequestInv ==
  /\ \A r \in Requests : reqPc[r] = "idle" => wanted[r] = {}
  /\ phase # "serving" => \A r \in Requests : reqPc[r] = "idle"
  /\ phase \in {"down", "recovering"} => step = "idle"
  /\ ReservationCountsAreExact

\* The set of holders is finite, so that its members can be counted.
LEMMA HoldersAreFinite ==
  \A x \in Assets : IsFiniteSet(Holders(x))
BY RequestAssumption, FS_Subset DEF Holders

\* What one more holder, or one less, does to the count of a finite set.
LEMMA CountHolders ==
  ASSUME NEW S, IsFiniteSet(S), NEW r
  PROVE  /\ Cardinality(S) \in Nat
         /\ Cardinality(S) = 0 <=> S = {}
         /\ r \notin S => Cardinality(S \cup {r}) = Cardinality(S) + 1
         /\ r \in S => Cardinality(S \ {r}) = Cardinality(S) - 1
BY FS_CardinalityType, FS_EmptySet, FS_AddElement, FS_RemoveElement

\* A step that leaves the requests alone leaves the counts alone.
LEMMA CountsUnchanged ==
  ASSUME ReservationCountsAreExact, UNCHANGED requestVars
  PROVE  ReservationCountsAreExact'
BY DEF ReservationCountsAreExact, Holders, requestVars

\* Every step changes the counts as it changes the set of holders.
LEMMA CountsAreExact ==
  ASSUME TypeOK, TypeOK', RequestInv, [Next]_vars
  PROVE  ReservationCountsAreExact'
<1> USE DEF requestVars
<1>1. ASSUME NEW r \in Requests, NEW ids \in SUBSET Assets, Reserve(r, ids)
      PROVE  ReservationCountsAreExact'
  <2> SUFFICES ASSUME NEW x \in Assets PROVE reservations'[x] = Cardinality(Holders(x)')
    BY DEF ReservationCountsAreExact
  <2>1. r \notin Holders(x)
    BY <1>1 DEF Holders, Reserve
  <2>2. Holders(x)' = IF x \in ids THEN Holders(x) \cup {r} ELSE Holders(x)
    BY <1>1 DEF Holders, Reserve, TypeOK, RequestInv
  <2>3. reservations'[x] = IF x \in ids THEN reservations[x] + 1 ELSE reservations[x]
    BY <1>1 DEF Reserve
  <2>4. reservations[x] = Cardinality(Holders(x))
    BY DEF RequestInv, ReservationCountsAreExact
  <2> QED
    BY <2>1, <2>2, <2>3, <2>4, HoldersAreFinite, CountHolders
<1>2. ASSUME NEW r \in Requests, Release(r) PROVE ReservationCountsAreExact'
  <2> SUFFICES ASSUME NEW x \in Assets PROVE reservations'[x] = Cardinality(Holders(x)')
    BY DEF ReservationCountsAreExact
  <2>1. r \in Holders(x) <=> x \in wanted[r]
    BY <1>2 DEF Holders, Release
  <2>2. Holders(x)' = Holders(x) \ {r}
    BY <1>2 DEF Holders, Release, TypeOK
  <2>3. reservations'[x] = IF x \in wanted[r] THEN Decrement(reservations[x])
                                              ELSE reservations[x]
    BY <1>2 DEF Release
  <2>4. reservations[x] = Cardinality(Holders(x))
    BY DEF RequestInv, ReservationCountsAreExact
  <2>5. CASE x \in wanted[r]
    <3>1. Cardinality(Holders(x)) \in Nat /\ Cardinality(Holders(x)) # 0
      BY <2>1, <2>5, HoldersAreFinite, CountHolders
    <3>2. Cardinality(Holders(x) \ {r}) = Cardinality(Holders(x)) - 1
      BY <2>1, <2>5, HoldersAreFinite, CountHolders
    <3> QED
      BY <2>2, <2>3, <2>4, <2>5, <3>1, <3>2 DEF Decrement
  <2>6. CASE x \notin wanted[r]
    <3>1. Holders(x) \ {r} = Holders(x)
      BY <2>1, <2>6
    <3> QED
      BY <2>2, <2>3, <2>4, <2>6, <3>1
  <2> QED
    BY <2>5, <2>6
<1>3. ASSUME NEW r \in Requests,
             Reject(r) \/ (\E x \in Assets : ReadAsset(r, x))
                       \/ (\E a \in Analyses : Persist(r, a))
      PROVE  ReservationCountsAreExact'
  <2>1. UNCHANGED <<reservations, wanted>>
    BY <1>3 DEF Reject, ReadAsset, Persist
  <2>2. \A q \in Requests : reqPc'[q] = "idle" <=> reqPc[q] = "idle"
    BY <1>3 DEF Reject, ReadAsset, Persist, TypeOK
  <2>3. \A x \in Assets : Holders(x)' = Holders(x)
    BY <2>1, <2>2 DEF Holders
  <2> QED
    BY <2>1, <2>3 DEF RequestInv, ReservationCountsAreExact
<1>4. CASE Crash
  <2>1. \A x \in Assets : Holders(x)' = {}
    BY <1>4 DEF Crash, Holders
  <2>2. \A x \in Assets : reservations'[x] = 0
    BY <1>4 DEF Crash
  <2> QED
    BY <2>1, <2>2, FS_EmptySet DEF ReservationCountsAreExact
<1>5. CASE UNCHANGED requestVars
  BY <1>5, CountsUnchanged DEF RequestInv
<1>6. Tick \/ (\E x \in Assets : Ingest(x))
       \/ (\E a \in Analyses, to \in LifecycleStates : Transition(a, to))
       \/ BeginCycle \/ MaintenanceStep \/ CycleRaises \/ Restart
       \/ (\E a \in Analyses : Recover(a)) \/ StartupCleanup \/ UNCHANGED vars
      => UNCHANGED requestVars
  BY DEF Tick, Ingest, Transition, BeginCycle, MaintenanceStep, ScanQuery, ScanConflict,
         SelectExpired, SelectOrphans, Choose, Settle, OwnedPassDone, OrphanPassDone,
         CycleRaises, Restart, Recover, StartupCleanup, vars
<1> QED
  BY <1>1, <1>2, <1>3, <1>4, <1>5, <1>6 DEF Next, RequestStep


\* Requests exist only in a serving process, and their reservations are counted.
LEMMA RequestInvariant == Spec => []RequestInv
<1>1. Init => RequestInv
  <2> SUFFICES ASSUME Init PROVE RequestInv
    OBVIOUS
  <2>1. \A x \in Assets : Holders(x) = {}
    BY DEF Init, Holders
  <2>2. ReservationCountsAreExact
    BY <2>1, FS_EmptySet DEF Init, ReservationCountsAreExact
  <2> QED
    BY <2>2 DEF Init, RequestInv
<1>2. TypeOK /\ TypeOK' /\ RequestInv /\ [Next]_vars => RequestInv'
  <2> SUFFICES ASSUME TypeOK, TypeOK', RequestInv, [Next]_vars PROVE RequestInv'
    OBVIOUS
  <2> DEFINE Idle == /\ \A r \in Requests : reqPc[r] = "idle" => wanted[r] = {}
                     /\ phase # "serving" => \A r \in Requests : reqPc[r] = "idle"
                     /\ phase \in {"down", "recovering"} => step = "idle"
  <2> SUFFICES Idle'
    BY CountsAreExact DEF RequestInv
  <2> USE DEF requestVars, cycleVars
  <2>1. ASSUME NEW r \in Requests, NEW ids \in SUBSET Assets, Reserve(r, ids)
        PROVE  Idle'
    BY <2>1 DEF Reserve, RequestInv, TypeOK
  <2>2. ASSUME NEW r \in Requests,
               \/ \E x \in Assets : ReadAsset(r, x)
               \/ Reject(r)
               \/ \E a \in Analyses : Persist(r, a)
               \/ Release(r)
        PROVE  Idle'
    BY <2>2 DEF ReadAsset, Reject, Persist, Release, RequestInv, TypeOK
  <2>3. CASE BeginCycle \/ StartupCleanup \/ OwnedPassDone
    BY <2>3 DEF BeginCycle, StartupCleanup, OwnedPassDone, OpenPass, RequestInv
  <2>4. CASE ScanConflict \/ CycleRaises \/ OrphanPassDone
    BY <2>4 DEF ScanConflict, CycleRaises, OrphanPassDone, AbandonCycle, CloseCycle,
                RequestInv
  <2>5. CASE ScanQuery \/ SelectExpired \/ SelectOrphans \/ Settle
              \/ \E c \in candidates : Choose(c)
    BY <2>5 DEF ScanQuery, SelectExpired, SelectOrphans, Settle, Choose, ScanIsComplete,
                RequestInv
  <2>6. CASE Crash
    BY <2>6 DEF Crash, CloseCycle
  <2>7. CASE Tick \/ Restart \/ UNCHANGED vars
              \/ (\E x \in Assets : Ingest(x))
              \/ (\E a \in Analyses, to \in LifecycleStates : Transition(a, to))
              \/ (\E a \in Analyses : Recover(a))
    BY <2>7 DEF Tick, Restart, Ingest, Transition, Recover, vars, RequestInv
  <2> QED
    BY <2>1, <2>2, <2>3, <2>4, <2>5, <2>6, <2>7 DEF Next, RequestStep, MaintenanceStep
<1> QED
  BY <1>1, <1>2, TypeCorrect, PTL DEF Spec

\* The coordinator's count of an Asset is the number of open reservations of
\* it, through rejections, crashes and any number of overlapping requests.
THEOREM ReservationsAreExact == Spec => []ReservationCountsAreExact
<1>1. RequestInv => ReservationCountsAreExact
  BY DEF RequestInv
<1> QED
  BY <1>1, RequestInvariant, PTL

-----------------------------------------------------------------------------
(* The snapshot of a cycle *)

\* While a cycle is in progress, what any request has reserved is protected:
\* it was reserved before the snapshot, or the request still waits for the lock.
SnapshotInv == step # "idle" => \A r \in Requests : wanted[r] \subseteq protected

\* A reserved Asset has a positive count: the snapshot finds its key.
LEMMA WantedIsReserved ==
  ASSUME TypeOK, RequestInv, NEW r \in Requests
  PROVE  wanted[r] \subseteq ReservedIds
<1> SUFFICES ASSUME NEW x \in wanted[r] PROVE x \in ReservedIds
  OBVIOUS
<1>1. x \in Assets /\ r \in Holders(x)
  BY DEF TypeOK, RequestInv, Holders
<1>2. reservations[x] \in Nat /\ reservations[x] = Cardinality(Holders(x))
  BY <1>1 DEF TypeOK, RequestInv, ReservationCountsAreExact
<1>3. Cardinality(Holders(x)) # 0
  BY <1>1, HoldersAreFinite, CountHolders
<1> QED
  BY <1>1, <1>2, <1>3 DEF ReservedIds

\* No reservation is made while a cycle is in progress.
LEMMA SnapshotInvariant == Spec => []SnapshotInv
<1>1. Init => SnapshotInv
  BY DEF Init, SnapshotInv
<1>2. TypeOK /\ RequestInv /\ SnapshotInv /\ [Next]_vars => SnapshotInv'
  <2> SUFFICES ASSUME TypeOK, RequestInv, SnapshotInv, [Next]_vars PROVE SnapshotInv'
    OBVIOUS
  <2> USE DEF requestVars, cycleVars, SnapshotInv
  <2>1. CASE BeginCycle
    BY <2>1, WantedIsReserved DEF BeginCycle, OpenPass
  <2>2. CASE StartupCleanup
    BY <2>2 DEF StartupCleanup, RequestInv
  <2>3. ASSUME NEW r \in Requests,
               \/ \E x \in Assets : ReadAsset(r, x)
               \/ Reject(r)
               \/ \E a \in Analyses : Persist(r, a)
        PROVE  SnapshotInv'
    BY <2>3 DEF ReadAsset, Reject, Persist
  <2>4. ASSUME NEW r \in Requests,
               Release(r) \/ \E ids \in SUBSET Assets : Reserve(r, ids)
        PROVE  SnapshotInv'
    BY <2>4 DEF Reserve, Release, LockIsFree
  <2>5. CASE ScanConflict \/ CycleRaises \/ OrphanPassDone \/ Crash
    BY <2>5 DEF ScanConflict, CycleRaises, OrphanPassDone, Crash, AbandonCycle, CloseCycle
  <2>6. CASE ScanQuery \/ SelectExpired \/ SelectOrphans \/ Settle \/ OwnedPassDone
              \/ \E c \in candidates : Choose(c)
    BY <2>6 DEF ScanQuery, SelectExpired, SelectOrphans, Settle, OwnedPassDone, Choose,
                ScanIsComplete, OpenPass
  <2>7. CASE Tick \/ Restart \/ UNCHANGED vars
              \/ (\E x \in Assets : Ingest(x))
              \/ (\E a \in Analyses, to \in LifecycleStates : Transition(a, to))
              \/ (\E a \in Analyses : Recover(a))
    BY <2>7 DEF Tick, Restart, Ingest, Transition, Recover, vars
  <2> QED
    BY <2>1, <2>2, <2>3, <2>4, <2>5, <2>6, <2>7 DEF Next, RequestStep, MaintenanceStep
<1> QED
  BY <1>1, <1>2, TypeCorrect, RequestInvariant, PTL DEF Spec

-----------------------------------------------------------------------------
(* Timestamps *)

\* No timestamp lies in the future, and an Asset was stored before the present
\* state of any Analysis that references it began.
TimeInv ==
  /\ now <= clock
  /\ \A x \in Assets : storedAt[x] <= clock
  /\ \A a \in Analyses :
       /\ records[a].since <= clock
       /\ records[a].state = ABSENT => records[a].assets = {}
       /\ \A x \in records[a].assets : x \in issued /\ storedAt[x] <= records[a].since

\* The clock only advances, and a request persists ids of files it has read.
LEMMA TimeStep ==
  ASSUME TypeOK, TimeInv, ReadAssetsStayPresent, [Next]_vars
  PROVE  TimeInv'
<1> USE DEF storageVars, requestVars, cycleVars, TimeInv, TypeOK, Record
<1>1. CASE Tick
  BY <1>1 DEF Tick
<1>2. ASSUME NEW x \in Assets, Ingest(x) PROVE TimeInv'
  BY <1>2 DEF Ingest
<1>3. ASSUME NEW a \in Analyses, NEW to \in LifecycleStates,
             Transition(a, to) \/ (Recover(a) /\ to = FAILED)
      PROVE  TimeInv'
  <2>1. /\ records' = [records EXCEPT ![a] = Moved(@, to)]
        /\ UNCHANGED <<clock, now, issued, storedAt>>
    BY <1>3 DEF Transition, Recover
  <2>2. to # ABSENT
    BY DEF LifecycleStates, ABSENT, QUEUED, RUNNING, SUCCEEDED, FAILED
  <2> QED
    BY <2>1, <2>2 DEF Moved
<1>4. ASSUME NEW r \in Requests, NEW a \in Analyses, Persist(r, a) PROVE TimeInv'
  <2>1. wanted[r] \subseteq present
    BY <1>4 DEF Persist, ReadAssetsStayPresent
  <2>2. \A x \in wanted[r] : x \in issued /\ storedAt[x] <= clock
    BY <2>1
  <2> QED
    BY <1>4, <2>2 DEF Persist, QUEUED, ABSENT
<1>5. CASE BeginCycle \/ OwnedPassDone \/ StartupCleanup
  BY <1>5 DEF BeginCycle, OwnedPassDone, StartupCleanup, OpenPass
<1>6. CASE ScanConflict \/ CycleRaises \/ OrphanPassDone \/ Crash
  BY <1>6 DEF ScanConflict, CycleRaises, OrphanPassDone, Crash, AbandonCycle, CloseCycle
<1>7. CASE UNCHANGED <<clock, now, records, issued, storedAt>>
  BY <1>7
<1>8. ASSUME NEW r \in Requests,
             \/ \E ids \in SUBSET Assets : Reserve(r, ids)
             \/ \E x \in Assets : ReadAsset(r, x)
             \/ Reject(r)
             \/ Release(r)
      PROVE  UNCHANGED <<clock, now, records, issued, storedAt>>
  BY <1>8 DEF Reserve, ReadAsset, Reject, Release
<1>9. ScanQuery \/ SelectExpired \/ SelectOrphans \/ Settle \/ Restart \/ UNCHANGED vars
        \/ (\E c \in candidates : Choose(c))
      => UNCHANGED <<clock, now, records, issued, storedAt>>
  BY DEF ScanQuery, SelectExpired, SelectOrphans, Settle, Restart, Choose, vars
<1>10. FAILED \in LifecycleStates
  BY DEF LifecycleStates
<1> QED
  BY <1>1, <1>2, <1>3, <1>4, <1>5, <1>6, <1>7, <1>8, <1>9, <1>10
  DEF Next, RequestStep, MaintenanceStep

-----------------------------------------------------------------------------
(* The scan of the four queries misses nothing that matters *)

\* The position of a state in the order of the queries.
Rank(s) == CASE s = QUEUED -> 1 [] s = RUNNING -> 2 [] s = SUCCEEDED -> 3 [] OTHER -> 4

\* DeclaredOrder lists each state once, and a transition goes to a later one.
LEMMA RankOfState ==
  /\ \A s \in LifecycleStates : Rank(s) \in 1..4 /\ DeclaredOrder[Rank(s)] = s
  /\ \A i \in 1..4 : DeclaredOrder[i] \in LifecycleStates
  /\ \A s \in LifecycleStates, i \in 1..4 : DeclaredOrder[i] = s <=> Rank(s) = i
  /\ \A s, t \in LifecycleStates \cup {ABSENT} :
       IsValidTransition(s, t) => s # ABSENT /\ t # ABSENT /\ Rank(s) < Rank(t)
  /\ ABSENT \notin LifecycleStates
BY DEF Rank, DeclaredOrder, LifecycleStates, IsValidTransition, VALID_TRANSITIONS,
       QUEUED, RUNNING, SUCCEEDED, FAILED, ABSENT

\* A row that was seen has its Assets for good, and is final if it was terminal.
\* A row not seen yet will be met by a query still to come, since states only
\* advance in the order of the queries, or was inserted during the cycle and
\* references protected Assets only.
ScanInv ==
  /\ step = "choose" => seen = NothingSeen
  /\ \A a \in Analyses :
       seen[a] # NoRecord =>
         /\ seen[a].state # ABSENT
         /\ records[a].state # ABSENT
         /\ seen[a].assets = records[a].assets
         /\ IsTerminal(seen[a].state) => seen[a] = records[a]
  /\ step # "idle" =>
       \A a \in Analyses :
         records[a].state # ABSENT =>
           \/ seen[a] # NoRecord
           \/ Rank(records[a].state) >= query
           \/ records[a].assets \subseteq protected

\* A row cannot pass behind the query in progress.
LEMMA ScanStep ==
  ASSUME TypeOK, TypeOK', RequestInv, SnapshotInv, TimeInv, ScanInv, [Next]_vars
  PROVE  ScanInv'
<1> USE DEF storageVars, requestVars, cycleVars, budgetVars
<1>1. ASSUME NEW a \in Analyses, NEW to \in LifecycleStates,
             Transition(a, to) \/ (Recover(a) /\ to = FAILED)
      PROVE  ScanInv'
  <2>1. /\ records' = [records EXCEPT ![a] = Moved(@, to)]
        /\ UNCHANGED <<seen, step, query, protected>>
    BY <1>1 DEF Transition, Recover
  <2>2. /\ IsValidTransition(records[a].state, to)
    BY <1>1 DEF Transition, Recover, IsInterrupted, IsValidTransition, VALID_TRANSITIONS
  <2>3. /\ records[a].state \in LifecycleStates \cup {ABSENT} /\ ~IsTerminal(records[a].state)
    BY <2>2 DEF TypeOK, Record, IsValidTransition, VALID_TRANSITIONS, IsTerminal,
                TERMINAL_STATES, QUEUED, RUNNING, SUCCEEDED, FAILED
  <2>4. to # ABSENT /\ records[a].state # ABSENT /\ Rank(records[a].state) < Rank(to)
    BY <2>2, <2>3, RankOfState
  <2>5. /\ records'[a].state = to /\ records'[a].assets = records[a].assets
        /\ \A b \in Analyses : b # a => records'[b] = records[b]
    BY <2>1 DEF TypeOK, Moved
  <2>6. ~IsTerminal(seen[a].state)
    BY <2>3 DEF ScanInv, NoRecord, IsTerminal, TERMINAL_STATES, ABSENT, SUCCEEDED, FAILED
  <2>7. Rank(records[a].state) \in 1..4 /\ Rank(to) \in 1..4 /\ query \in 1..5
    BY <2>3, <2>4, RankOfState DEF TypeOK
  <2> QED
    BY <2>1, <2>4, <2>5, <2>6, <2>7 DEF ScanInv
<1>2. ASSUME NEW r \in Requests, NEW a \in Analyses, Persist(r, a) PROVE ScanInv'
  <2>1. /\ \A b \in Analyses : b # a => records'[b] = records[b]
        /\ records'[a].assets = wanted[r]
        /\ records[a].state = ABSENT
        /\ UNCHANGED <<seen, step, query, protected>>
    BY <1>2 DEF Persist, TypeOK
  <2>2. step # "idle" => wanted[r] \subseteq protected
    BY DEF SnapshotInv
  <2>3. seen[a] = NoRecord
    BY <2>1 DEF ScanInv
  <2> QED
    BY <2>1, <2>2, <2>3 DEF ScanInv
<1>3. CASE ScanQuery
  <2>1. /\ seen' = [a \in Analyses |-> IF a \in Rows THEN records[a] ELSE seen[a]]
        /\ query' = query + 1 /\ query \in 1..4
        /\ step = "scan"
        /\ UNCHANGED <<records, step, protected>>
    BY <1>3 DEF ScanQuery, TypeOK
  <2>2. ASSUME NEW a \in Rows
        PROVE  records[a].state # ABSENT /\ records[a] # NoRecord /\ seen'[a] = records[a]
    BY <2>1, RankOfState DEF Rows, NoRecord
  <2>3. ASSUME NEW a \in Analyses, a \notin Rows, records[a].state # ABSENT
        PROVE  seen'[a] = seen[a] /\ (Rank(records[a].state) >= query
                                        => Rank(records[a].state) >= query + 1)
    <3>1. records[a].state \in LifecycleStates /\ records[a].state # DeclaredOrder[query]
      BY <2>3 DEF Rows, TypeOK, Record
    <3>2. Rank(records[a].state) \in 1..4 /\ Rank(records[a].state) # query
      BY <2>1, <3>1, RankOfState
    <3> QED
      BY <2>1, <2>3, <3>2
  <2>4. \A a \in Analyses : a \notin Rows => seen'[a] = seen[a]
    BY <2>1
  <2> QED
    BY <2>1, <2>2, <2>3, <2>4 DEF ScanInv
<1>4. ASSUME seen' = NothingSeen, query' = 1 PROVE ScanInv'
  <2>1. \A a \in Analyses : seen'[a] = NoRecord
    BY <1>4 DEF NothingSeen
  <2>2. ASSUME NEW a \in Analyses, records'[a].state # ABSENT
        PROVE  Rank(records'[a].state) >= 1
    <3>1. records'[a].state \in LifecycleStates
      BY <2>2 DEF TypeOK, Record
    <3> QED
      BY <3>1, RankOfState
  <2> QED
    BY <1>4, <2>1, <2>2 DEF ScanInv
<1>5. BeginCycle \/ OwnedPassDone \/ StartupCleanup \/ ScanConflict \/ CycleRaises
        \/ OrphanPassDone \/ Crash \/ SelectExpired \/ SelectOrphans \/ Settle
      => seen' = NothingSeen /\ query' = 1
  BY DEF BeginCycle, OwnedPassDone, StartupCleanup, ScanConflict, CycleRaises,
         OrphanPassDone, Crash, SelectExpired, SelectOrphans, Settle, OpenPass,
         AbandonCycle, CloseCycle, ForgetScan
<1>6. CASE \E c \in candidates : Choose(c)
  BY <1>6 DEF Choose, ScanInv
<1>7. CASE UNCHANGED <<records, seen, step, query, protected>>
  BY <1>7 DEF ScanInv
<1>8. ASSUME NEW r \in Requests,
             \/ \E ids \in SUBSET Assets : Reserve(r, ids)
             \/ \E x \in Assets : ReadAsset(r, x)
             \/ Reject(r)
             \/ Release(r)
      PROVE  UNCHANGED <<records, seen, step, query, protected>>
  BY <1>8 DEF Reserve, ReadAsset, Reject, Release
<1>9. Tick \/ (\E x \in Assets : Ingest(x)) \/ Restart \/ UNCHANGED vars
      => UNCHANGED <<records, seen, step, query, protected>>
  BY DEF Tick, Ingest, Restart, vars
<1>10. FAILED \in LifecycleStates
  BY DEF LifecycleStates
<1> QED
  BY <1>1, <1>2, <1>3, <1>4, <1>5, <1>6, <1>7, <1>8, <1>9, <1>10
  DEF Next, RequestStep, MaintenanceStep

-----------------------------------------------------------------------------
(* What a cycle pursues may be deleted at any later time *)

Pursued == candidates \cup ({target} \ {InitialScan})

\* A candidate of cleanup_expired_assets: its owner is expired for good and no
\* other row references it.
IsExclusive(c) ==
  /\ c.owner \in Analyses
  /\ IsEligible(records[c.owner])
  /\ \A a \in Analyses : c.asset \in records[a].assets <=> a = c.owner

\* A candidate of cleanup_orphaned_assets: old, and no row references it.
IsAbandoned(x) ==
  /\ x \in issued
  /\ IsOldEnough(x)
  /\ \A a \in Analyses : x \notin records[a].assets

\* Candidates stay unprotected and unreferenced while the cycle works on them,
\* and the re-scan reads the owner as it is.
PursuitInv ==
  /\ step # "idle" =>
       \A c \in Pursued : /\ c.asset \notin protected
                          /\ IF pass = "owned" THEN IsExclusive(c)
                                               ELSE IsAbandoned(c.asset)
  /\ step # "idle" /\ target # InitialScan /\ pass = "owned" =>
       seen[target.owner] \in {NoRecord, records[target.owner]}

\* After the last query the references the scan saw to an unprotected Asset
\* are all there are.
LEMMA ScanFindsReferences ==
  ASSUME TypeOK, TimeInv, ScanInv, ScanIsComplete, NEW x \in Assets, x \notin protected
  PROVE  References(x) = {a \in Analyses : x \in records[a].assets}
<1>1. ASSUME NEW a \in Analyses, x \in records[a].assets PROVE x \in seen[a].assets
  <2>1. records[a].state \in LifecycleStates
    BY <1>1 DEF TimeInv, TypeOK, Record
  <2>2. Rank(records[a].state) \in 1..4 /\ records[a].state # ABSENT
    BY <2>1, RankOfState
  <2>3. seen[a] # NoRecord
    BY <1>1, <2>2 DEF ScanInv, ScanIsComplete
  <2> QED
    BY <1>1, <2>3 DEF ScanInv
<1>2. ASSUME NEW a \in Analyses, x \in seen[a].assets PROVE x \in records[a].assets
  BY <1>2 DEF ScanInv, NoRecord
<1> QED
  BY <1>1, <1>2 DEF References

\* A row seen as eligible is that row, now and later.
LEMMA EligibleIsCurrent ==
  ASSUME ScanInv, NEW a \in Analyses, IsEligible(seen[a])
  PROVE  seen[a] = records[a]
<1>1. seen[a] # NoRecord
  BY DEF IsEligible, IsTerminal, TERMINAL_STATES, NoRecord, ABSENT, SUCCEEDED, FAILED
<1> QED
  BY <1>1 DEF ScanInv, IsEligible

\* No step gives a pursued Asset a new owner, or its owner a new life.
LEMMA PursuitStep ==
  ASSUME TypeOK, TypeOK', SnapshotInv, TimeInv, ScanInv, PursuitInv, [Next]_vars
  PROVE  PursuitInv'
<1> USE DEF storageVars, requestVars, cycleVars, budgetVars
<1>1. ASSUME NEW a \in Analyses, NEW to \in LifecycleStates,
             Transition(a, to) \/ (Recover(a) /\ to = FAILED)
      PROVE  PursuitInv'
  <2>1. /\ records' = [records EXCEPT ![a] = Moved(@, to)]
        /\ UNCHANGED <<cycleVars, issued, storedAt>>
    BY <1>1 DEF Transition, Recover
  <2>2. ~IsTerminal(records[a].state)
    BY <1>1 DEF Transition, Recover, IsInterrupted, IsValidTransition, VALID_TRANSITIONS,
                IsTerminal, TERMINAL_STATES, QUEUED, RUNNING, SUCCEEDED, FAILED
  <2>3. /\ records'[a].assets = records[a].assets
        /\ \A b \in Analyses : b # a => records'[b] = records[b]
    BY <2>1 DEF TypeOK, Moved
  <2>4. \A b \in Analyses : records'[b].assets = records[b].assets
    BY <2>3
  <2>5. \A c : IsExclusive(c) => c.owner # a /\ IsExclusive(c)'
    BY <2>1, <2>2, <2>3, <2>4 DEF IsExclusive, IsEligible
  <2>6. \A x : IsAbandoned(x) => IsAbandoned(x)'
    BY <2>1, <2>4 DEF IsAbandoned, IsOldEnough
  <2>7. Pursued' = Pursued
    BY <2>1 DEF Pursued
  <2>8. step # "idle" /\ target # InitialScan /\ pass = "owned" =>
          target.owner \in Analyses /\ target.owner # a
    BY <2>5 DEF PursuitInv, Pursued, IsExclusive
  <2> QED
    BY <2>1, <2>3, <2>5, <2>6, <2>7, <2>8 DEF PursuitInv
<1>2. ASSUME NEW r \in Requests, NEW a \in Analyses, Persist(r, a) PROVE PursuitInv'
  <2>1. /\ \A b \in Analyses : b # a => records'[b] = records[b]
        /\ records'[a].assets = wanted[r]
        /\ records[a].state = ABSENT
        /\ UNCHANGED <<cycleVars, issued, storedAt>>
    BY <1>2 DEF Persist, TypeOK
  <2>2. step # "idle" => wanted[r] \subseteq protected
    BY DEF SnapshotInv
  <2>3. records[a].assets = {} /\ ~IsTerminal(records[a].state)
    BY <2>1 DEF TimeInv, IsTerminal, TERMINAL_STATES, ABSENT, SUCCEEDED, FAILED
  <2>4. ASSUME step # "idle", NEW c \in Pursued
        PROVE  /\ IsExclusive(c) => c.owner # a /\ (c.asset \notin protected => IsExclusive(c)')
               /\ IsAbandoned(c.asset) /\ c.asset \notin protected => IsAbandoned(c.asset)'
    BY <2>1, <2>2, <2>3, <2>4 DEF IsExclusive, IsAbandoned, IsEligible, IsOldEnough
  <2>5. Pursued' = Pursued
    BY <2>1 DEF Pursued
  <2>6. step # "idle" /\ target # InitialScan /\ pass = "owned" =>
          target.owner \in Analyses /\ target.owner # a
    BY <2>4 DEF PursuitInv, Pursued, IsExclusive
  <2> QED
    BY <2>1, <2>4, <2>5, <2>6 DEF PursuitInv
<1>3. CASE ScanQuery
  <2>1. /\ \A a \in Analyses : seen'[a] \in {seen[a], records[a]}
        /\ UNCHANGED <<records, issued, storedAt, step, pass, now, protected, target,
                       candidates>>
    BY <1>3 DEF ScanQuery
  <2>2. step # "idle" /\ target # InitialScan /\ pass = "owned" => target.owner \in Analyses
    BY DEF PursuitInv, Pursued, IsExclusive
  <2>3. /\ \A c : IsExclusive(c)' <=> IsExclusive(c)
        /\ \A x : IsAbandoned(x)' <=> IsAbandoned(x)
        /\ Pursued' = Pursued
    BY <2>1 DEF IsExclusive, IsAbandoned, IsEligible, IsOldEnough, Pursued
  <2> QED
    BY <2>1, <2>2, <2>3 DEF PursuitInv
<1>4. CASE SelectExpired
  <2>1. /\ Pursued' = candidates' /\ target' = InitialScan
        /\ pass' = "owned"
        /\ UNCHANGED <<records, issued, storedAt, now, protected>>
    BY <1>4 DEF SelectExpired, ForgetScan, Pursued
  <2>2. ASSUME NEW c \in candidates' PROVE c.asset \notin protected /\ IsExclusive(c)
    <3>1. /\ c.owner \in Analyses /\ c.asset \in Assets /\ c.asset \notin protected
          /\ IsEligible(seen[c.owner]) /\ References(c.asset) = {c.owner}
      BY <1>4 DEF SelectExpired
    <3>2. seen[c.owner] = records[c.owner]
      BY <3>1, EligibleIsCurrent
    <3>3. {a \in Analyses : c.asset \in records[a].assets} = {c.owner}
      BY <1>4, <3>1, ScanFindsReferences DEF SelectExpired
    <3> QED
      BY <3>1, <3>2, <3>3 DEF IsExclusive
  <2>3. \A c : IsExclusive(c)' <=> IsExclusive(c)
    BY <2>1 DEF IsExclusive, IsEligible
  <2> QED
    BY <2>1, <2>2, <2>3 DEF PursuitInv
<1>5. CASE SelectOrphans
  <2>1. /\ Pursued' = candidates' /\ target' = InitialScan
        /\ pass' = "orphan"
        /\ UNCHANGED <<records, issued, storedAt, now, protected>>
    BY <1>5 DEF SelectOrphans, ForgetScan, Pursued
  <2>2. ASSUME NEW c \in candidates' PROVE c.asset \notin protected /\ IsAbandoned(c.asset)
    <3>1. /\ c.asset \in issued /\ c.asset \in Assets /\ c.asset \notin protected
          /\ IsOldEnough(c.asset) /\ References(c.asset) = {}
      BY <1>5 DEF SelectOrphans, TypeOK
    <3>2. {a \in Analyses : c.asset \in records[a].assets} = {}
      BY <1>5, <3>1, ScanFindsReferences DEF SelectOrphans
    <3> QED
      BY <3>1, <3>2 DEF IsAbandoned
  <2>3. \A x : IsAbandoned(x)' <=> IsAbandoned(x)
    BY <2>1 DEF IsAbandoned, IsOldEnough
  <2> QED
    BY <2>1, <2>2, <2>3 DEF PursuitInv
<1>6. ASSUME NEW c \in candidates, Choose(c) PROVE PursuitInv'
  <2>1. /\ Pursued' \subseteq Pursued
        /\ step = "choose" /\ target' = c
        /\ UNCHANGED <<records, issued, storedAt, pass, now, protected, seen>>
    BY <1>6 DEF Choose, Pursued
  <2>2. /\ \A d : IsExclusive(d)' <=> IsExclusive(d)
        /\ \A x : IsAbandoned(x)' <=> IsAbandoned(x)
    BY <2>1 DEF IsExclusive, IsAbandoned, IsEligible, IsOldEnough
  <2>3. pass = "owned" => IsExclusive(c)
    BY <2>1 DEF PursuitInv, Pursued
  <2>4. pass = "owned" => seen[c.owner] \in {NoRecord, records[c.owner]}
    BY <2>1, <2>3 DEF ScanInv, IsExclusive, NothingSeen
  <2> QED
    BY <2>1, <2>2, <2>4 DEF PursuitInv
<1>7. CASE Settle
  <2>1. /\ Pursued' \subseteq Pursued /\ target' = InitialScan
        /\ step # "idle"
        /\ UNCHANGED <<records, issued, storedAt, pass, now, protected>>
    BY <1>7 DEF Settle, ForgetScan, Pursued, ScanIsComplete
  <2>2. /\ \A d : IsExclusive(d)' <=> IsExclusive(d)
        /\ \A x : IsAbandoned(x)' <=> IsAbandoned(x)
    BY <2>1 DEF IsExclusive, IsAbandoned, IsEligible, IsOldEnough
  <2> QED
    BY <2>1, <2>2 DEF PursuitInv
<1>8. BeginCycle \/ OwnedPassDone \/ StartupCleanup \/ ScanConflict \/ CycleRaises
        \/ OrphanPassDone \/ Crash
      => PursuitInv'
  BY DEF BeginCycle, OwnedPassDone, StartupCleanup, ScanConflict, CycleRaises,
         OrphanPassDone, Crash, OpenPass, AbandonCycle, CloseCycle, PursuitInv, Pursued
<1>9. ASSUME UNCHANGED <<records, cycleVars>>, issued \subseteq issued',
             \A x \in issued : storedAt'[x] = storedAt[x]
      PROVE  PursuitInv'
  <2>1. /\ \A d : IsExclusive(d)' <=> IsExclusive(d)
        /\ \A x : IsAbandoned(x) => IsAbandoned(x)'
        /\ Pursued' = Pursued
    BY <1>9 DEF IsExclusive, IsAbandoned, IsEligible, IsOldEnough, Pursued
  <2> QED
    BY <1>9, <2>1 DEF PursuitInv
<1>10. ASSUME NEW r \in Requests,
             \/ \E ids \in SUBSET Assets : Reserve(r, ids)
             \/ \E x \in Assets : ReadAsset(r, x)
             \/ Reject(r)
             \/ Release(r)
      PROVE  UNCHANGED <<records, cycleVars, issued, storedAt>>
  BY <1>10 DEF Reserve, ReadAsset, Reject, Release
<1>11. Tick \/ Restart \/ UNCHANGED vars => UNCHANGED <<records, cycleVars, issued, storedAt>>
  BY DEF Tick, Restart, vars
<1>12. ASSUME NEW x \in Assets, Ingest(x)
       PROVE  /\ UNCHANGED <<records, cycleVars>> /\ issued \subseteq issued'
              /\ \A y \in issued : storedAt'[y] = storedAt[y]
  BY <1>12 DEF Ingest, TypeOK
<1>13. FAILED \in LifecycleStates
  BY DEF LifecycleStates
<1> QED
  BY <1>1, <1>2, <1>3, <1>4, <1>5, <1>6, <1>7, <1>8, <1>9, <1>10, <1>11, <1>12, <1>13
  DEF Next, RequestStep, MaintenanceStep

-----------------------------------------------------------------------------
(* What is kept *)

\* What the five safety properties say of the files.
KeptInv ==
  /\ ReadAssetsStayPresent
  /\ LiveAnalysesKeepTheirAssets
  /\ RetainedAnalysesKeepTheirAssets
  /\ FreshUploadsAreKept
  /\ SharedAssetsAreNeverDeleted

\* The one action that deletes: the pursued Asset is reserved by no request,
\* referenced by its expired owner at most, and older than both windows.
LEMMA DeletionIsSafe ==
  ASSUME TypeOK, SnapshotInv, TimeInv, PursuitInv, KeptInv, Settle
  PROVE  KeptInv'
<1> DEFINE x == target.asset
<1> USE DEF storageVars, requestVars, cycleVars, budgetVars
<1>1. /\ present \ {x} \subseteq present'
      /\ UNCHANGED <<clock, records, issued, storedAt, wanted, unread>>
      /\ step # "idle" /\ target \in Pursued
  BY DEF Settle, ScanIsComplete, Pursued
<1>2. /\ x \notin protected
      /\ IF pass = "owned" THEN IsExclusive(target) ELSE IsAbandoned(x)
  BY <1>1 DEF PursuitInv
<1>3. ReadAssetsStayPresent'
  <2>1. \A r \in Requests : x \notin wanted[r]
    BY <1>1, <1>2 DEF SnapshotInv
  <2> QED
    BY <1>1, <2>1 DEF KeptInv, ReadAssetsStayPresent
<1>4. \A a \in Analyses : x \in records[a].assets =>
        /\ \A b \in Analyses : x \in records[b].assets => a = b
        /\ IsTerminal(records[a].state)
        /\ clock - records[a].since >= RetentionWindow
  <2> SUFFICES ASSUME NEW a \in Analyses, x \in records[a].assets
               PROVE  /\ \A b \in Analyses : x \in records[b].assets => a = b
                      /\ IsTerminal(records[a].state)
                      /\ clock - records[a].since >= RetentionWindow
    OBVIOUS
  <2>1. IsExclusive(target) /\ target.owner = a
    BY <1>2 DEF IsExclusive, IsAbandoned
  <2>2. IsEligible(records[a]) /\ records[a].since \in Nat
    BY <2>1 DEF IsExclusive, TypeOK, Record
  <2>3. clock - records[a].since >= RetentionWindow
    BY <2>2, WindowAssumption DEF IsEligible, TimeInv, TypeOK
  <2> QED
    BY <2>1, <2>2, <2>3 DEF IsExclusive, IsEligible
<1>5. LiveAnalysesKeepTheirAssets'
  BY <1>1, <1>4 DEF KeptInv, LiveAnalysesKeepTheirAssets, IsTerminal, TERMINAL_STATES,
                    QUEUED, RUNNING, SUCCEEDED, FAILED
<1>6. RetainedAnalysesKeepTheirAssets'
  <2> SUFFICES ASSUME NEW a \in Analyses, IsTerminal(records[a].state),
                      clock - records[a].since < RetentionWindow
               PROVE  records[a].assets \subseteq present'
    BY <1>1 DEF RetainedAnalysesKeepTheirAssets
  <2>1. x \notin records[a].assets
    BY <1>4, WindowAssumption DEF TypeOK, Record
  <2> QED
    BY <1>1, <2>1 DEF KeptInv, RetainedAnalysesKeepTheirAssets
<1>7. FreshUploadsAreKept'
  <2>1. clock - storedAt[x] >= GraceWindow /\ x \in issued
    <3>1. CASE pass = "owned"
      <4>1. IsExclusive(target) /\ x \in records[target.owner].assets
        BY <1>2, <3>1 DEF IsExclusive
      <4>2. /\ clock - records[target.owner].since >= RetentionWindow
            /\ x \in issued /\ storedAt[x] <= records[target.owner].since
            /\ records[target.owner].since \in Nat
        BY <1>4, <4>1 DEF IsExclusive, TimeInv, TypeOK, Record
      <4> QED
        BY <4>2, WindowAssumption DEF TypeOK
    <3>2. CASE pass # "owned"
      BY <1>2, <3>2, WindowAssumption DEF IsAbandoned, IsOldEnough, TimeInv, TypeOK
    <3> QED
      BY <3>1, <3>2
  <2>2. ASSUME NEW y \in issued, clock - storedAt[y] < GraceWindow PROVE y \in present'
    <3>1. y # x
      BY <2>1, <2>2, WindowAssumption DEF TypeOK
    <3> QED
      BY <1>1, <2>2, <3>1 DEF KeptInv, FreshUploadsAreKept
  <2> QED
    BY <1>1, <2>2 DEF FreshUploadsAreKept
<1>8. SharedAssetsAreNeverDeleted'
  BY <1>1, <1>4 DEF KeptInv, SharedAssetsAreNeverDeleted
<1> QED
  BY <1>3, <1>5, <1>6, <1>7, <1>8 DEF KeptInv

\* Only Settle removes a file, and DeletionIsSafe covers it.
LEMMA KeptStep ==
  ASSUME TypeOK, TypeOK', RequestInv, SnapshotInv, TimeInv, PursuitInv, KeptInv,
         [Next]_vars
  PROVE  KeptInv'
<1> USE DEF storageVars, requestVars, cycleVars, budgetVars
<1> DEFINE Kept == /\ LiveAnalysesKeepTheirAssets
                   /\ RetainedAnalysesKeepTheirAssets
                   /\ FreshUploadsAreKept
                   /\ SharedAssetsAreNeverDeleted
<1>1. CASE Tick
  <2>1. clock' = clock + 1 /\ UNCHANGED <<records, storageVars, requestVars>>
    BY <1>1 DEF Tick
  <2>2. RetainedAnalysesKeepTheirAssets' /\ FreshUploadsAreKept'
    BY <2>1, WindowAssumption DEF KeptInv, RetainedAnalysesKeepTheirAssets,
       FreshUploadsAreKept, TypeOK, Record
  <2> QED
    BY <2>1, <2>2 DEF KeptInv, ReadAssetsStayPresent, LiveAnalysesKeepTheirAssets,
       SharedAssetsAreNeverDeleted
<1>2. ASSUME NEW x \in Assets, Ingest(x) PROVE KeptInv'
  <2>1. /\ issued' = issued \cup {x} /\ present' = present \cup {x} /\ x \notin issued
        /\ \A y \in issued : storedAt'[y] = storedAt[y]
        /\ UNCHANGED <<clock, records, requestVars>>
    BY <1>2 DEF Ingest, TypeOK
  <2>2. FreshUploadsAreKept'
    BY <2>1 DEF KeptInv, FreshUploadsAreKept
  <2> QED
    BY <2>1, <2>2 DEF KeptInv, ReadAssetsStayPresent, LiveAnalysesKeepTheirAssets,
       RetainedAnalysesKeepTheirAssets, SharedAssetsAreNeverDeleted
<1>3. ASSUME NEW a \in Analyses, NEW to \in LifecycleStates,
             Transition(a, to) \/ (Recover(a) /\ to = FAILED)
      PROVE  KeptInv'
  <2>1. /\ records' = [records EXCEPT ![a] = Moved(@, to)]
        /\ UNCHANGED <<clock, storageVars, requestVars>>
    BY <1>3 DEF Transition, Recover
  <2>2. records[a].state \in {QUEUED, RUNNING}
    BY <1>3 DEF Transition, Recover, IsInterrupted, IsValidTransition, VALID_TRANSITIONS
  <2>3. /\ records'[a].assets = records[a].assets
        /\ \A b \in Analyses : b # a => records'[b] = records[b]
    BY <2>1 DEF TypeOK, Moved
  <2>4. records[a].assets \subseteq present
    BY <2>2 DEF KeptInv, LiveAnalysesKeepTheirAssets
  <2>5. \A b \in Analyses : records'[b].assets = records[b].assets
    BY <2>3
  <2>6. LiveAnalysesKeepTheirAssets' /\ RetainedAnalysesKeepTheirAssets'
    BY <2>1, <2>3, <2>4 DEF KeptInv, LiveAnalysesKeepTheirAssets,
                            RetainedAnalysesKeepTheirAssets
  <2> QED
    BY <2>1, <2>5, <2>6 DEF KeptInv, ReadAssetsStayPresent, FreshUploadsAreKept,
                            SharedAssetsAreNeverDeleted
<1>4. ASSUME NEW r \in Requests, NEW a \in Analyses, Persist(r, a) PROVE KeptInv'
  <2>1. /\ records'[a].state = QUEUED /\ records'[a].assets = wanted[r]
        /\ \A b \in Analyses : b # a => records'[b] = records[b]
        /\ UNCHANGED <<clock, storageVars, wanted, unread>>
    BY <1>4 DEF Persist, TypeOK
  <2>2. wanted[r] \subseteq present
    BY <1>4 DEF Persist, KeptInv, ReadAssetsStayPresent
  <2>3. LiveAnalysesKeepTheirAssets' /\ RetainedAnalysesKeepTheirAssets'
    BY <2>1, <2>2 DEF KeptInv, LiveAnalysesKeepTheirAssets, RetainedAnalysesKeepTheirAssets,
                      IsTerminal, TERMINAL_STATES, QUEUED, SUCCEEDED, FAILED
  <2>4. SharedAssetsAreNeverDeleted'
    BY <2>1, <2>2 DEF KeptInv, SharedAssetsAreNeverDeleted
  <2> QED
    BY <2>1, <2>3, <2>4 DEF KeptInv, ReadAssetsStayPresent, FreshUploadsAreKept
<1>5. ASSUME NEW r \in Requests,
             \/ \E ids \in SUBSET Assets : Reserve(r, ids)
             \/ \E x \in Assets : ReadAsset(r, x)
             \/ Reject(r)
             \/ Release(r)
      PROVE  KeptInv'
  <2>1. UNCHANGED <<clock, records, storageVars>>
    BY <1>5 DEF Reserve, ReadAsset, Reject, Release
  <2>2. ReadAssetsStayPresent'
    BY <1>5, <2>1 DEF Reserve, ReadAsset, Reject, Release, KeptInv, ReadAssetsStayPresent,
                      TypeOK
  <2> QED
    BY <2>1, <2>2 DEF KeptInv, LiveAnalysesKeepTheirAssets,
       RetainedAnalysesKeepTheirAssets, FreshUploadsAreKept, SharedAssetsAreNeverDeleted
<1>6. CASE Settle
  BY <1>6, DeletionIsSafe
<1>7. CASE UNCHANGED <<clock, records, storageVars, wanted, unread>>
  BY <1>7 DEF KeptInv, ReadAssetsStayPresent, LiveAnalysesKeepTheirAssets,
     RetainedAnalysesKeepTheirAssets, FreshUploadsAreKept, SharedAssetsAreNeverDeleted
<1>8. CASE Crash
  <2>1. UNCHANGED <<clock, records, storageVars>>
    BY <1>8 DEF Crash
  <2>2. ReadAssetsStayPresent'
    BY <1>8 DEF Crash, ReadAssetsStayPresent
  <2> QED
    BY <2>1, <2>2 DEF KeptInv, LiveAnalysesKeepTheirAssets,
       RetainedAnalysesKeepTheirAssets, FreshUploadsAreKept, SharedAssetsAreNeverDeleted
<1>9. BeginCycle \/ OwnedPassDone \/ StartupCleanup \/ ScanConflict \/ CycleRaises
        \/ OrphanPassDone \/ ScanQuery \/ SelectExpired \/ SelectOrphans \/ Restart
        \/ UNCHANGED vars \/ (\E c \in candidates : Choose(c))
      => UNCHANGED <<clock, records, storageVars, wanted, unread>>
  BY DEF BeginCycle, OwnedPassDone, StartupCleanup, ScanConflict, CycleRaises,
         OrphanPassDone, ScanQuery, SelectExpired, SelectOrphans, Restart, Choose, vars
<1>10. FAILED \in LifecycleStates
  BY DEF LifecycleStates
<1> QED
  BY <1>1, <1>2, <1>3, <1>4, <1>5, <1>6, <1>7, <1>8, <1>9, <1>10
  DEF Next, RequestStep, MaintenanceStep

-----------------------------------------------------------------------------
(* The theorems *)

Inv == TimeInv /\ ScanInv /\ PursuitInv /\ KeptInv

\* The four parts are inductive together, on top of the earlier invariants.
LEMMA Invariance == Spec => []Inv
<1>1. Init => Inv
  <2> SUFFICES ASSUME Init PROVE Inv
    OBVIOUS
  <2>1. TimeInv
    BY DEF Init, TimeInv, NoRecord
  <2>2. ScanInv /\ PursuitInv
    BY DEF Init, ScanInv, PursuitInv, NothingSeen, NoRecord
  <2>3. KeptInv
    BY DEF Init, KeptInv, ReadAssetsStayPresent, LiveAnalysesKeepTheirAssets,
       RetainedAnalysesKeepTheirAssets, FreshUploadsAreKept, SharedAssetsAreNeverDeleted,
       NoRecord
  <2> QED
    BY <2>1, <2>2, <2>3 DEF Inv
<1>2. TypeOK /\ TypeOK' /\ RequestInv /\ SnapshotInv /\ Inv /\ [Next]_vars => Inv'
  <2> SUFFICES ASSUME TypeOK, TypeOK', RequestInv, SnapshotInv, Inv, [Next]_vars
               PROVE  Inv'
    OBVIOUS
  <2>1. TimeInv'
    BY TimeStep DEF Inv, KeptInv
  <2>2. ScanInv'
    BY ScanStep DEF Inv
  <2>3. PursuitInv'
    BY PursuitStep DEF Inv
  <2>4. KeptInv'
    BY KeptStep DEF Inv
  <2> QED
    BY <2>1, <2>2, <2>3, <2>4 DEF Inv
<1> QED
  BY <1>1, <1>2, TypeCorrect, RequestInvariant, SnapshotInvariant, PTL DEF Spec

\* What a create request has read is on disk until the request is over.
THEOREM ReadsAreStable == Spec => []ReadAssetsStayPresent
<1>1. Inv => ReadAssetsStayPresent
  BY DEF Inv, KeptInv
<1> QED
  BY <1>1, Invariance, PTL

\* No interleaving of requests, executor, cycles, crashes and restarts deletes
\* an Asset of a QUEUED or RUNNING Analysis.
THEOREM LiveAssetsAreKept == Spec => []LiveAnalysesKeepTheirAssets
<1>1. Inv => LiveAnalysesKeepTheirAssets
  BY DEF Inv, KeptInv
<1> QED
  BY <1>1, Invariance, PTL

\* The Assets of a terminal Analysis are kept for the whole retention window.
THEOREM RetentionIsHonoured == Spec => []RetainedAnalysesKeepTheirAssets
<1>1. Inv => RetainedAnalysesKeepTheirAssets
  BY DEF Inv, KeptInv
<1> QED
  BY <1>1, Invariance, PTL

\* No upload is deleted before its grace window is over.
THEOREM GraceIsHonoured == Spec => []FreshUploadsAreKept
<1>1. Inv => FreshUploadsAreKept
  BY DEF Inv, KeptInv
<1> QED
  BY <1>1, Invariance, PTL

\* An Asset with two owners is never deleted.
THEOREM SharedAssetsAreKept == Spec => []SharedAssetsAreNeverDeleted
<1>1. Inv => SharedAssetsAreNeverDeleted
  BY DEF Inv, KeptInv
<1> QED
  BY <1>1, Invariance, PTL

\* What is in use is never deleted.
THEOREM InUseIsKept == Spec => []AssetsInUseStay
BY ReadsAreStable, LiveAssetsAreKept, SharedAssetsAreKept, PTL DEF AssetsInUseStay

\* What a window covers is never deleted.
THEOREM WindowsAreKept == Spec => []PromisedWindowsAreKept
BY RetentionIsHonoured, GraceIsHonoured, PTL DEF PromisedWindowsAreKept

\* Under the coordinator the scan repeated before each deletion confirms every
\* candidate.
THEOREM RecheckConfirms == Spec => []RecheckIsRedundant
<1>1. TypeOK /\ Inv => RecheckIsRedundant
  <2> SUFFICES ASSUME TypeOK, Inv, ScanIsComplete, target # InitialScan
               PROVE  RecheckAllows
    BY DEF RecheckIsRedundant
  <2>1. /\ target \in Pursued /\ step # "idle"
        /\ target.asset \in Assets
    BY DEF Pursued, ScanIsComplete, TypeOK, Candidate
  <2>2. /\ target.asset \notin protected
        /\ IF pass = "owned" THEN IsExclusive(target) ELSE IsAbandoned(target.asset)
    BY <2>1 DEF Inv, PursuitInv
  <2>3. References(target.asset) = {a \in Analyses : target.asset \in records[a].assets}
    BY <2>1, <2>2, ScanFindsReferences DEF Inv
  <2>4. CASE pass = "owned"
    <3>1. /\ target.owner \in Analyses /\ IsEligible(records[target.owner])
          /\ References(target.asset) = {target.owner}
      BY <2>2, <2>3, <2>4 DEF IsExclusive
    <3>2. seen[target.owner] # NoRecord
      BY <3>1 DEF References, NoRecord
    <3>3. seen[target.owner] = records[target.owner]
      BY <2>1, <2>4, <3>2 DEF Inv, PursuitInv
    <3> QED
      BY <2>4, <3>1, <3>3 DEF RecheckAllows
  <2>5. CASE pass # "owned"
    BY <2>2, <2>3, <2>5 DEF IsAbandoned, RecheckAllows
  <2> QED
    BY <2>4, <2>5
<1> QED
  BY <1>1, TypeCorrect, Invariance, PTL

-----------------------------------------------------------------------------
(* Nothing is missed *)

\* A row that has moved since the scan saw it moved after the pass began.
SeenInv ==
  \A a \in Analyses :
    seen[a] # NoRecord /\ seen[a] # records[a] => records[a].since >= now

\* The candidates have been selected.
IsSelected ==
  \/ step = "choose"
  \/ /\ step = "scan"
     /\ target # InitialScan

\* Once the candidates are selected, all garbage is pursued; the last target is
\* settled before the next is chosen.
ThoroughInv ==
  /\ step = "choose" => target = InitialScan
  /\ IsSelected =>
       \A x \in present \ protected : IsGarbage(x) => \E c \in Pursued : c.asset = x

\* Rows move under the clock, which is never behind the start of a pass.
LEMMA SeenStep ==
  ASSUME TypeOK, TimeInv, ScanInv, SeenInv, [Next]_vars
  PROVE  SeenInv'
<1> USE DEF storageVars, requestVars, cycleVars, budgetVars, SeenInv
<1>1. ASSUME NEW a \in Analyses, NEW to \in LifecycleStates,
             Transition(a, to) \/ (Recover(a) /\ to = FAILED)
      PROVE  SeenInv'
  <2>1. /\ records'[a].since = clock /\ clock >= now
        /\ \A b \in Analyses \ {a} : records'[b] = records[b]
        /\ UNCHANGED <<seen, now>>
    BY <1>1 DEF Transition, Recover, TypeOK, TimeInv, Moved
  <2> QED
    BY <2>1
<1>2. ASSUME NEW r \in Requests, NEW a \in Analyses, Persist(r, a) PROVE SeenInv'
  <2>1. /\ seen[a] = NoRecord
        /\ \A b \in Analyses \ {a} : records'[b] = records[b]
        /\ UNCHANGED <<seen, now>>
    BY <1>2 DEF Persist, TypeOK, ScanInv
  <2> QED
    BY <2>1
<1>3. CASE ScanQuery
  <2>1. /\ \A a \in Analyses : seen'[a] = seen[a] \/ seen'[a] = records[a]
        /\ UNCHANGED <<records, now>>
    BY <1>3 DEF ScanQuery
  <2> QED
    BY <2>1
<1>4. ASSUME seen' = NothingSeen PROVE SeenInv'
  BY <1>4 DEF NothingSeen
<1>5. BeginCycle \/ OwnedPassDone \/ StartupCleanup \/ ScanConflict \/ CycleRaises
        \/ OrphanPassDone \/ Crash \/ SelectExpired \/ SelectOrphans \/ Settle
      => seen' = NothingSeen
  BY DEF BeginCycle, OwnedPassDone, StartupCleanup, ScanConflict, CycleRaises,
         OrphanPassDone, Crash, SelectExpired, SelectOrphans, Settle, OpenPass,
         AbandonCycle, CloseCycle, ForgetScan
<1>6. CASE UNCHANGED <<records, seen, now>>
  BY <1>6
<1>7. ASSUME NEW r \in Requests,
             \/ \E ids \in SUBSET Assets : Reserve(r, ids)
             \/ \E x \in Assets : ReadAsset(r, x)
             \/ Reject(r)
             \/ Release(r)
      PROVE  UNCHANGED <<records, seen, now>>
  BY <1>7 DEF Reserve, ReadAsset, Reject, Release
<1>8. Tick \/ (\E x \in Assets : Ingest(x)) \/ Restart \/ UNCHANGED vars
        \/ (\E c \in candidates : Choose(c))
      => UNCHANGED <<records, seen, now>>
  BY DEF Tick, Ingest, Restart, Choose, vars
<1>9. FAILED \in LifecycleStates
  BY DEF LifecycleStates
<1> QED
  BY <1>1, <1>2, <1>3, <1>4, <1>5, <1>6, <1>7, <1>8, <1>9
  DEF Next, RequestStep, MaintenanceStep

\* The selection takes all the garbage there is.
LEMMA SelectionIsThorough ==
  ASSUME TypeOK, TimeInv, ScanInv, SeenInv, SelectExpired \/ SelectOrphans
  PROVE  ThoroughInv'
<1>1. /\ UNCHANGED <<records, issued, present, storedAt, now, protected, pass>>
      /\ ScanIsComplete /\ pass \in {"owned", "orphan"}
      /\ Pursued' = candidates'
  BY DEF SelectExpired, SelectOrphans, ForgetScan, Pursued, TypeOK, storageVars
<1>2. target' = InitialScan
  BY DEF SelectExpired, SelectOrphans, ForgetScan
<1> SUFFICES ASSUME NEW x \in present \ protected, IsGarbage(x)
             PROVE  \E c \in candidates' : c.asset = x
  <2>1. \A x : IsGarbage(x)' <=> IsGarbage(x)
    BY <1>1 DEF IsGarbage
  <2> QED
    BY <1>1, <1>2, <2>1 DEF ThoroughInv
<1>3. x \in Assets /\ x \notin protected
  BY DEF TypeOK
<1>4. References(x) = {a \in Analyses : x \in records[a].assets}
  BY <1>1, <1>3, ScanFindsReferences
<1>5. CASE SelectExpired
  <2>1. PICK a \in Analyses : /\ {b \in Analyses : x \in records[b].assets} = {a}
                              /\ IsTerminal(records[a].state)
                              /\ now - records[a].since >= RetentionWindow
    BY <1>5 DEF SelectExpired, IsGarbage
  <2>2. a \in References(x)
    BY <1>4, <2>1
  <2>3. x \in seen[a].assets /\ seen[a] # NoRecord
    BY <2>2 DEF References, NoRecord
  <2>4. now \in Nat /\ records[a].since \in Nat /\ RetentionWindow \in Nat \ {0}
    BY WindowAssumption, GraceAssumption DEF TypeOK, Record
  <2>5. ~(records[a].since >= now)
    BY <2>1, <2>4
  <2>6. seen[a] = records[a]
    BY <2>3, <2>5 DEF SeenInv
  <2>7. IsEligible(seen[a])
    BY <2>1, <2>6 DEF IsEligible
  <2> DEFINE c == [owner |-> a, asset |-> x]
  <2>8. c \in [owner : Analyses, asset : Assets] /\ c.owner = a /\ c.asset = x
    BY <1>3
  <2>9. c \in candidates'
    BY <1>3, <1>4, <1>5, <2>1, <2>3, <2>7, <2>8 DEF SelectExpired
  <2> QED
    BY <2>8, <2>9
<1>6. CASE SelectOrphans
  <2>1. /\ \A a \in Analyses : x \notin records[a].assets
        /\ now - storedAt[x] >= GraceWindow
    BY <1>6 DEF SelectOrphans, IsGarbage
  <2> DEFINE c == [owner |-> NoOwner, asset |-> x]
  <2>2. c \in [owner : {NoOwner}, asset : present] /\ c.asset = x
    OBVIOUS
  <2>3. c \in candidates'
    BY <1>3, <1>4, <1>6, <2>1, <2>2 DEF SelectOrphans, IsOldEnough
  <2> QED
    BY <2>2, <2>3
<1> QED
  BY <1>5, <1>6

\* After the selection nothing becomes garbage of this pass, and what is pursued
\* stays pursued until it is deleted.
LEMMA ThoroughStep ==
  ASSUME TypeOK, TypeOK', SnapshotInv, TimeInv, ScanInv, SeenInv, RecheckIsRedundant,
         ThoroughInv, [Next]_vars
  PROVE  ThoroughInv'
<1> USE DEF storageVars, requestVars, cycleVars, budgetVars
<1>0. RetentionWindow \in Nat \ {0} /\ GraceWindow \in Nat \ {0} /\ clock \in Nat
      /\ now \in Nat /\ now <= clock
  BY WindowAssumption, GraceAssumption DEF TypeOK, TimeInv
<1>1. ASSUME NEW a \in Analyses, NEW to \in LifecycleStates,
             Transition(a, to) \/ (Recover(a) /\ to = FAILED)
      PROVE  ThoroughInv'
  <2>1. /\ records'[a].since = clock /\ records'[a].assets = records[a].assets
        /\ \A b \in Analyses \ {a} : records'[b] = records[b]
        /\ UNCHANGED <<cycleVars, storageVars>>
    BY <1>1 DEF Transition, Recover, TypeOK, Moved
  <2>2. \A b \in Analyses : records'[b].assets = records[b].assets
    BY <2>1
  <2>3. ~(now - records'[a].since >= RetentionWindow)
    BY <1>0, <2>1
  <2>4. \A x : {b \in Analyses : x \in records'[b].assets}
                 = {b \in Analyses : x \in records[b].assets}
    BY <2>2
  <2>5. ASSUME NEW x, IsGarbage(x)' PROVE IsGarbage(x)
    <3>1. CASE pass = "owned"
      <4>1. PICK b \in Analyses : /\ {d \in Analyses : x \in records'[d].assets} = {b}
                                  /\ IsTerminal(records'[b].state)
                                  /\ now - records'[b].since >= RetentionWindow
        BY <2>1, <2>5, <3>1 DEF IsGarbage
      <4>2. records'[b] = records[b]
        BY <2>1, <2>3, <4>1
      <4> QED
        BY <2>4, <3>1, <4>1, <4>2 DEF IsGarbage
    <3>2. CASE pass # "owned"
      BY <2>1, <2>2, <2>5, <3>2 DEF IsGarbage
    <3> QED
      BY <3>1, <3>2
  <2>6. Pursued' = Pursued /\ IsSelected' = IsSelected
    BY <2>1 DEF Pursued, IsSelected
  <2> QED
    BY <2>1, <2>5, <2>6 DEF ThoroughInv
<1>2. ASSUME NEW r \in Requests, NEW a \in Analyses, Persist(r, a) PROVE ThoroughInv'
  <2>1. /\ records[a].state = ABSENT /\ records[a].assets = {}
        /\ records'[a].assets = wanted[r] /\ records'[a].state = QUEUED
        /\ \A b \in Analyses \ {a} : records'[b] = records[b]
        /\ UNCHANGED <<cycleVars, storageVars>>
    BY <1>2 DEF Persist, TypeOK, TimeInv
  <2>2. ~IsTerminal(records'[a].state)
    BY <2>1 DEF IsTerminal, TERMINAL_STATES, QUEUED, SUCCEEDED, FAILED
  <2>3. ASSUME IsSelected, NEW x \in present \ protected, IsGarbage(x)'
        PROVE  IsGarbage(x)
    <3>1. x \notin wanted[r]
      BY <2>3 DEF IsSelected, SnapshotInv
    <3>2. \A b \in Analyses : x \in records'[b].assets <=> x \in records[b].assets
      BY <2>1, <3>1
    <3>3. {b \in Analyses : x \in records'[b].assets}
            = {b \in Analyses : x \in records[b].assets}
      BY <3>2
    <3>4. CASE pass = "owned"
      <4>1. PICK b \in Analyses : /\ {d \in Analyses : x \in records'[d].assets} = {b}
                                  /\ IsTerminal(records'[b].state)
                                  /\ now - records'[b].since >= RetentionWindow
        BY <2>1, <2>3, <3>4 DEF IsGarbage
      <4>2. records'[b] = records[b]
        BY <2>1, <2>2, <4>1
      <4> QED
        BY <3>3, <3>4, <4>1, <4>2 DEF IsGarbage
    <3>5. CASE pass # "owned"
      BY <2>1, <2>3, <3>2, <3>5 DEF IsGarbage
    <3> QED
      BY <3>4, <3>5
  <2>4. Pursued' = Pursued /\ IsSelected' = IsSelected
    BY <2>1 DEF Pursued, IsSelected
  <2> QED
    BY <2>1, <2>3, <2>4 DEF ThoroughInv
<1>3. ASSUME NEW y \in Assets, Ingest(y) PROVE ThoroughInv'
  <2>1. /\ y \notin issued /\ present' = present \cup {y}
        /\ storedAt'[y] = clock
        /\ \A x \in Assets \ {y} : storedAt'[x] = storedAt[x]
        /\ UNCHANGED <<records, cycleVars>>
    BY <1>3 DEF Ingest, TypeOK
  <2>2. ~IsGarbage(y)'
    <3>1. \A a \in Analyses : y \notin records[a].assets
      BY <2>1 DEF TimeInv
    <3>2. ~(now - storedAt'[y] >= GraceWindow)
      BY <1>0, <2>1
    <3> QED
      BY <2>1, <3>1, <3>2 DEF IsGarbage
  <2>3. \A x \in Assets \ {y} : IsGarbage(x)' => IsGarbage(x)
    BY <2>1 DEF IsGarbage
  <2>4. Pursued' = Pursued /\ IsSelected' = IsSelected
    BY <2>1 DEF Pursued, IsSelected
  <2>5. \A x \in present' \ protected' : x # y => x \in (present \ protected) \cap (Assets \ {y})
    BY <2>1 DEF TypeOK
  <2>6. step' = step /\ target' = target
    BY <2>1
  <2> QED
    BY <2>2, <2>3, <2>4, <2>5, <2>6 DEF ThoroughInv
<1>4. CASE SelectExpired \/ SelectOrphans
  BY <1>4, SelectionIsThorough
<1>5. ASSUME UNCHANGED <<records, storedAt, now, pass>>
      PROVE  \A x : IsGarbage(x)' <=> IsGarbage(x)
  BY <1>5 DEF IsGarbage
<1>6. CASE ScanQuery
  <2>1. /\ step' = "scan" /\ IsSelected' = IsSelected /\ Pursued' = Pursued
        /\ UNCHANGED <<records, storageVars, now, protected, pass>>
    BY <1>6 DEF ScanQuery, IsSelected, Pursued
  <2> QED
    BY <1>5, <2>1 DEF ThoroughInv
<1>7. ASSUME NEW c \in candidates, Choose(c) PROVE ThoroughInv'
  <2>1. /\ IsSelected /\ step = "choose" /\ step' = "scan"
        /\ target' = c /\ candidates' = candidates \ {c}
        /\ UNCHANGED <<records, storageVars, now, protected, pass>>
    BY <1>7 DEF Choose, IsSelected
  <2>2. target = InitialScan
    BY <2>1 DEF ThoroughInv
  <2>3. \A d \in candidates : d # InitialScan
    BY AssetAssumption DEF TypeOK, Candidate, InitialScan
  <2>4. Pursued \subseteq Pursued'
    BY <2>1, <2>2, <2>3 DEF Pursued
  <2> QED
    BY <1>5, <2>1, <2>4 DEF ThoroughInv
<1>8. CASE Settle
  <2>1. /\ present' = present \ {target.asset} /\ step' = "choose"
        /\ UNCHANGED <<records, storedAt, now, protected, pass, candidates>>
        /\ IsSelected /\ target' = InitialScan
    BY <1>8 DEF Settle, ForgetScan, RecheckIsRedundant, IsSelected, ScanIsComplete
  <2>2. ASSUME NEW x \in present \ protected, x # target.asset, IsGarbage(x)
        PROVE  \E c \in Pursued' : c.asset = x
    <3>1. PICK c \in Pursued : c.asset = x
      BY <2>1, <2>2 DEF ThoroughInv
    <3>2. c # target
      BY <2>2, <3>1
    <3> QED
      BY <2>1, <3>1, <3>2 DEF Pursued
  <2> QED
    BY <1>5, <2>1, <2>2 DEF ThoroughInv
<1>9. BeginCycle \/ OwnedPassDone \/ StartupCleanup \/ ScanConflict \/ CycleRaises
        \/ OrphanPassDone \/ Crash
      => ~IsSelected' /\ step' # "choose"
  BY DEF BeginCycle, OwnedPassDone, StartupCleanup, ScanConflict, CycleRaises,
         OrphanPassDone, Crash, OpenPass, AbandonCycle, CloseCycle, IsSelected
<1>10. CASE UNCHANGED <<records, storageVars, cycleVars>>
  BY <1>10 DEF ThoroughInv, IsGarbage, Pursued, IsSelected
<1>11. ASSUME NEW r \in Requests,
             \/ \E ids \in SUBSET Assets : Reserve(r, ids)
             \/ \E x \in Assets : ReadAsset(r, x)
             \/ Reject(r)
             \/ Release(r)
      PROVE  UNCHANGED <<records, storageVars, cycleVars>>
  BY <1>11 DEF Reserve, ReadAsset, Reject, Release
<1>12. Tick \/ Restart \/ UNCHANGED vars => UNCHANGED <<records, storageVars, cycleVars>>
  BY DEF Tick, Restart, vars
<1>13. FAILED \in LifecycleStates
  BY DEF LifecycleStates
<1>14. ~IsSelected' /\ step' # "choose" => ThoroughInv'
  BY DEF ThoroughInv
<1> QED
  BY <1>1, <1>2, <1>3, <1>4, <1>6, <1>7, <1>8, <1>9, <1>10, <1>11, <1>12, <1>13, <1>14
  DEF Next, RequestStep, MaintenanceStep

\* The safety half of reclamation: a pass that gets to its end leaves nothing
\* that was garbage when it began, whatever ran between its steps.
THEOREM NothingIsMissed == Spec => []PassesAreThorough
<1>1. Init => SeenInv /\ ThoroughInv
  BY DEF Init, SeenInv, ThoroughInv, IsSelected, NothingSeen
<1>2. TypeOK /\ Inv /\ SeenInv /\ [Next]_vars => SeenInv'
  BY SeenStep DEF Inv
<1>3. /\ TypeOK /\ TypeOK' /\ SnapshotInv /\ Inv /\ SeenInv /\ RecheckIsRedundant
      /\ ThoroughInv /\ [Next]_vars
      => ThoroughInv'
  BY ThoroughStep DEF Inv
<1>4. ThoroughInv => PassesAreThorough
  <2> SUFFICES ASSUME ThoroughInv, step = "choose", candidates = {},
                      NEW x \in present \ protected, IsGarbage(x)
               PROVE  FALSE
    BY DEF PassesAreThorough
  <2> QED
    BY DEF ThoroughInv, IsSelected, Pursued
<1> QED
  BY <1>1, <1>2, <1>3, <1>4, TypeCorrect, SnapshotInvariant, Invariance, RecheckConfirms,
     PTL DEF Spec

\* A cleanup pass deletes what it selected, and selects all there is.
THEOREM CleanupDeletesExactly == Spec => []CleanupIsExact
BY RecheckConfirms, NothingIsMissed, PTL DEF CleanupIsExact

-----------------------------------------------------------------------------
(* A cycle comes to its end *)

\* The candidates are finitely many, and each scan starts from nothing.
ShortInv ==
  /\ IsFiniteSet(candidates)
  /\ step # "scan" => query = 1 /\ target = InitialScan

\* Set difference and the empty set, in one place.
LEMMA CandidatesCounted ==
  /\ Cardinality(Assets) \in Nat
  /\ IsFiniteSet({}) /\ Cardinality({}) = 0
  /\ \A S : IsFiniteSet(S) =>
       /\ Cardinality(S) \in Nat
       /\ \A c \in S : IsFiniteSet(S \ {c}) /\ Cardinality(S \ {c}) = Cardinality(S) - 1
<1>1. ASSUME NEW S, IsFiniteSet(S), NEW c \in S
      PROVE  IsFiniteSet(S \ {c}) /\ Cardinality(S \ {c}) = Cardinality(S) - 1
  BY <1>1, FS_RemoveElement
<1> QED
  BY <1>1, FileAssumption, FS_CardinalityType, FS_EmptySet

\* A selection has one candidate per Asset: two owners would exclude each other.
LEMMA OneCandidatePerAsset ==
  ASSUME TypeOK, SelectExpired \/ SelectOrphans
  PROVE  IsFiniteSet(candidates') /\ Cardinality(candidates') <= Cardinality(Assets)
<1> DEFINE S == candidates'
           f == [c \in S |-> c.asset]
<1>1. \A c \in S : c.asset \in Assets
  BY DEF SelectExpired, SelectOrphans, TypeOK
<1>2. ASSUME NEW c \in S, NEW d \in S, c.asset = d.asset PROVE c = d
  <2>1. CASE SelectExpired
    <3>1. /\ c \in [owner : Analyses, asset : Assets] /\ d \in [owner : Analyses, asset : Assets]
          /\ References(c.asset) = {c.owner} /\ References(d.asset) = {d.owner}
      BY <2>1 DEF SelectExpired
    <3>2. c.owner = d.owner
      BY <1>2, <3>1
    <3> QED
      BY <1>2, <3>1, <3>2
  <2>2. CASE SelectOrphans
    <3>1. /\ c \in [owner : {NoOwner}, asset : present] /\ d \in [owner : {NoOwner}, asset : present]
      BY <2>2 DEF SelectOrphans
    <3> QED
      BY <1>2, <3>1
  <2> QED
    BY <2>1, <2>2
<1>3. f \in [S -> Assets]
  BY <1>1
<1>4. \A c, d \in S : f[c] = f[d] => c = d
  BY <1>2
<1>5. f \in Injection(S, Assets)
  BY <1>3, <1>4 DEF Injection, IsInjective
<1> HIDE DEF f, S
<1>6. IsFiniteSet(S) /\ Cardinality(S) <= Cardinality(Assets)
  BY <1>5, FileAssumption, FS_Injection
<1> QED
  BY <1>6 DEF S

\* What the steps of a cycle do to the quantities StepsLeft counts.
LEMMA CycleSteps ==
  ASSUME TypeOK, TypeOK', RequestInv, ShortInv, [Next]_vars
  PROVE  /\ ShortInv'
         /\ MaintenanceStep => StepsLeft' < StepsLeft
         /\ step # "idle" /\ step' # "idle" => StepsLeft' <= StepsLeft
         /\ step = "idle" /\ step' # "idle" =>
              StepsLeft' = 12 * Cardinality(Assets) + 12
<1> DEFINE W == Cardinality(Assets)
           Good == /\ ShortInv' /\ step # "idle"
                   /\ StepsLeft' < StepsLeft /\ StepsLeft' <= StepsLeft
<1>1. /\ W \in Nat /\ Cardinality(candidates) \in Nat
      /\ query \in 1..5 /\ step \in {"idle", "scan", "choose"} /\ pass \in {"owned", "orphan"}
  BY CandidatesCounted DEF ShortInv, TypeOK
<1>2. step # "idle" => StepsLeft \in Nat \ {0}
  BY <1>1 DEF StepsLeft
<1>3. ASSUME step' = "idle", query' = 1, target' = InitialScan, candidates' = {},
             step # "idle"
      PROVE  Good
  BY <1>2, <1>3, CandidatesCounted DEF StepsLeft, ShortInv
<1>4. ASSUME step' = "scan", query' = 1, target' = InitialScan, candidates' = {},
             pass' = "owned"
      PROVE  ShortInv' /\ StepsLeft' = 12 * W + 12
  BY <1>1, <1>4, CandidatesCounted DEF StepsLeft, ShortInv
<1>5. ASSUME ScanQuery PROVE Good
  <2>1. /\ step = "scan" /\ step' = "scan" /\ query' = query + 1
        /\ UNCHANGED <<target, candidates, pass>>
    BY <1>5 DEF ScanQuery
  <2> QED
    BY <1>1, <2>1 DEF StepsLeft, ShortInv
<1>6. ASSUME SelectExpired \/ SelectOrphans PROVE Good
  <2>1. /\ step = "scan" /\ query = 5 /\ target = InitialScan /\ pass' = pass
        /\ step' = "choose" /\ query' = 1 /\ target' = InitialScan
    BY <1>6 DEF SelectExpired, SelectOrphans, ScanIsComplete, ForgetScan
  <2>2. IsFiniteSet(candidates') /\ Cardinality(candidates') <= W
    BY <1>6, OneCandidatePerAsset
  <2>3. Cardinality(candidates') \in Nat
    BY <2>2, CandidatesCounted
  <2> QED
    BY <1>1, <2>1, <2>2, <2>3 DEF StepsLeft, ShortInv
<1>7. ASSUME NEW c \in candidates, Choose(c) PROVE Good
  <2>1. /\ step = "choose" /\ step' = "scan" /\ query' = query /\ query = 1
        /\ target' = c /\ candidates' = candidates \ {c} /\ pass' = pass
    BY <1>7 DEF Choose, ShortInv
  <2>2. c # InitialScan
    BY AssetAssumption DEF TypeOK, Candidate, InitialScan
  <2>3. IsFiniteSet(candidates') /\ Cardinality(candidates') = Cardinality(candidates) - 1
    BY <2>1, CandidatesCounted DEF ShortInv
  <2> QED
    BY <1>1, <2>1, <2>2, <2>3 DEF StepsLeft, ShortInv
<1>8. ASSUME Settle PROVE Good
  <2>1. /\ step = "scan" /\ query = 5 /\ target # InitialScan
        /\ step' = "choose" /\ query' = 1 /\ target' = InitialScan
        /\ UNCHANGED <<candidates, pass>>
    BY <1>8 DEF Settle, ScanIsComplete, ForgetScan
  <2> QED
    BY <1>1, <2>1 DEF StepsLeft, ShortInv
<1>9. ASSUME OwnedPassDone PROVE Good
  <2>1. /\ step = "choose" /\ pass = "owned" /\ candidates = {}
        /\ step' = "scan" /\ query' = 1 /\ target' = InitialScan
        /\ candidates' = {} /\ pass' = "orphan"
    BY <1>9 DEF OwnedPassDone, OpenPass
  <2> QED
    BY <1>1, <2>1, CandidatesCounted DEF StepsLeft, ShortInv
<1>10. ASSUME OrphanPassDone \/ ScanConflict \/ CycleRaises PROVE Good
  <2>1. /\ step # "idle" /\ step' = "idle" /\ query' = 1 /\ target' = InitialScan
        /\ candidates' = {}
    BY <1>10 DEF OrphanPassDone, ScanConflict, CycleRaises, AbandonCycle, CloseCycle
  <2> QED
    BY <1>3, <2>1
<1>11. ASSUME BeginCycle \/ StartupCleanup
       PROVE  /\ step = "idle" /\ step' = "scan"
              /\ ShortInv' /\ StepsLeft' = 12 * W + 12
  <2>1. /\ step = "idle" /\ step' = "scan" /\ query' = 1 /\ target' = InitialScan
        /\ candidates' = {} /\ pass' = "owned"
    BY <1>11 DEF BeginCycle, StartupCleanup, LockIsFree, OpenPass, RequestInv
  <2> QED
    BY <1>4, <2>1
<1>12. ASSUME Crash PROVE ShortInv' /\ step' = "idle"
  BY <1>12, CandidatesCounted DEF Crash, CloseCycle, ShortInv
<1>13. ASSUME \/ Tick \/ Restart \/ UNCHANGED vars
              \/ \E x \in Assets : Ingest(x)
              \/ \E a \in Analyses, to \in LifecycleStates : Transition(a, to)
              \/ \E a \in Analyses : Recover(a)
              \/ RequestStep
       PROVE  UNCHANGED cycleVars
  BY <1>13 DEF Tick, Restart, vars, Ingest, Transition, Recover, RequestStep, Reserve,
               ReadAsset, Reject, Persist, Release
<1>14. ASSUME UNCHANGED cycleVars
       PROVE  ShortInv' /\ StepsLeft' = StepsLeft /\ step' = step
  BY <1>14 DEF cycleVars, ShortInv, StepsLeft
<1>15. StepsLeft \in Nat
  BY <1>1 DEF StepsLeft
<1> DEFINE Goal == /\ ShortInv'
                   /\ MaintenanceStep => StepsLeft' < StepsLeft
                   /\ step # "idle" /\ step' # "idle" => StepsLeft' <= StepsLeft
                   /\ step = "idle" /\ step' # "idle" => StepsLeft' = 12 * W + 12
<1>16. MaintenanceStep => Good
  BY <1>5, <1>6, <1>7, <1>8, <1>9, <1>10 DEF MaintenanceStep
<1>17. Good => Goal
  OBVIOUS
<1>18. BeginCycle \/ StartupCleanup => Goal
  BY <1>11, <1>16
<1>19. Crash => Goal
  BY <1>12, <1>16
<1>20. UNCHANGED cycleVars => Goal
  <2>1. UNCHANGED cycleVars => ShortInv' /\ StepsLeft' <= StepsLeft /\ step' = step
    BY <1>14, <1>15
  <2> QED
    BY <1>16, <2>1
<1> QED
  BY <1>10, <1>13, <1>16, <1>17, <1>18, <1>19, <1>20 DEF Next

\* Every step of the maintenance thread brings the end of its cycle closer, and a
\* cycle has at most 12 * Cardinality(Assets) + 12 steps.  With the fairness of
\* the thread this is why the lock is released.
THEOREM CyclesEnd == Spec => CyclesAreShort
<1>1. Init => ShortInv
  BY CandidatesCounted DEF Init, ShortInv
<1>2. /\ TypeOK /\ TypeOK' /\ RequestInv /\ ShortInv /\ [Next]_vars
      => /\ ShortInv'
         /\ MaintenanceStep => StepsLeft' < StepsLeft
         /\ step # "idle" /\ step' # "idle" => StepsLeft' <= StepsLeft
         /\ step = "idle" /\ step' # "idle" =>
              StepsLeft' = 12 * Cardinality(Assets) + 12
  BY CycleSteps
<1> QED
  BY <1>1, <1>2, TypeCorrect, RequestInvariant, PTL DEF Spec, CyclesAreShort

-----------------------------------------------------------------------------
(* Refinement *)

\* Every step of this module is a step of the abstract lifecycle or leaves the
\* states of all Analyses as they are.
THEOREM RefinesLifecycle == Spec => ImplementsLifecycle
<1> DEFINE State == [a \in Analyses |-> records[a].state]
<1>1. Init => Lifecycle!Init
  BY DEF Init, NoRecord, ABSENT, Lifecycle!Init, Lifecycle!ABSENT
<1>2. TypeOK /\ [Next]_vars => [Lifecycle!Next]_State
  <2> SUFFICES ASSUME TypeOK, [Next]_vars PROVE Lifecycle!Next \/ UNCHANGED State
    OBVIOUS
  <2> USE DEF storageVars, requestVars, cycleVars, budgetVars
  <2>1. ASSUME NEW a \in Analyses, NEW to \in LifecycleStates,
               Transition(a, to) \/ (Recover(a) /\ to = FAILED)
        PROVE  Lifecycle!Next
    <3>1. /\ records' = [records EXCEPT ![a] = Moved(@, to)]
          /\ IsValidTransition(records[a].state, to)
      BY <2>1 DEF Transition, Recover, IsInterrupted, IsValidTransition, VALID_TRANSITIONS
    <3>2. State' = [State EXCEPT ![a] = to]
      BY <3>1 DEF TypeOK, Moved
    <3>3. IsValidTransition(State[a], to)
      BY <3>1
    <3> QED
      BY <3>2, <3>3 DEF Lifecycle!Next, Lifecycle!Transition, IsValidTransition,
         Lifecycle!IsValidTransition, VALID_TRANSITIONS, Lifecycle!VALID_TRANSITIONS,
         LifecycleStates, Lifecycle!LifecycleStates, QUEUED, RUNNING, SUCCEEDED, FAILED,
         Lifecycle!QUEUED, Lifecycle!RUNNING, Lifecycle!SUCCEEDED, Lifecycle!FAILED
  <2>2. ASSUME NEW r \in Requests, NEW a \in Analyses, Persist(r, a)
        PROVE  Lifecycle!Next
    <3>1. State' = [State EXCEPT ![a] = QUEUED] /\ State[a] = ABSENT
      BY <2>2 DEF Persist, TypeOK
    <3> QED
      BY <3>1 DEF Lifecycle!Next, Lifecycle!Create, QUEUED, ABSENT, Lifecycle!QUEUED,
         Lifecycle!ABSENT
  <2>3. CASE UNCHANGED records
    BY <2>3
  <2>4. ASSUME NEW r \in Requests,
               \/ \E ids \in SUBSET Assets : Reserve(r, ids)
               \/ \E x \in Assets : ReadAsset(r, x)
               \/ Reject(r)
               \/ Release(r)
        PROVE  UNCHANGED records
    BY <2>4 DEF Reserve, ReadAsset, Reject, Release
  <2>5. Tick \/ (\E x \in Assets : Ingest(x)) \/ BeginCycle \/ OwnedPassDone
          \/ StartupCleanup \/ ScanConflict \/ CycleRaises \/ OrphanPassDone \/ ScanQuery
          \/ SelectExpired \/ SelectOrphans \/ Settle \/ Restart \/ Crash \/ UNCHANGED vars
          \/ (\E c \in candidates : Choose(c))
        => UNCHANGED records
    BY DEF Tick, Ingest, BeginCycle, OwnedPassDone, StartupCleanup, ScanConflict,
           CycleRaises, OrphanPassDone, ScanQuery, SelectExpired, SelectOrphans, Settle,
           Restart, Crash, Choose, vars
  <2>6. FAILED \in LifecycleStates
    BY DEF LifecycleStates
  <2> QED
    BY <2>1, <2>2, <2>3, <2>4, <2>5, <2>6 DEF Next, RequestStep, MaintenanceStep
<1> QED
  BY <1>1, <1>2, TypeCorrect, PTL DEF Spec, ImplementsLifecycle, Lifecycle!Spec

\* Every step of this module stores one Asset, ends grace windows, reclaims one
\* Asset, or leaves the life of all Assets as it is.
LEMMA StoreStep ==
  ASSUME TypeOK, TimeInv, FreshUploadsAreKept', [Next]_vars
  PROVE  Store!Next \/ \A x \in Assets : Life(x)' = Life(x)
<1> USE DEF storageVars, requestVars, cycleVars, budgetVars
<1> DEFINE Lives == [x \in Assets |-> Life(x)]
<1>1. CASE Tick
  <2>1. clock' = clock + 1 /\ UNCHANGED storageVars
    BY <1>1 DEF Tick
  <2>2. PICK xs \in SUBSET Assets :
          \A x \in Assets : x \in xs <=> Life(x) = "promised" /\ Life(x)' = "unprotected"
    <3> DEFINE xs == {x \in Assets : Life(x) = "promised" /\ Life(x)' = "unprotected"}
    <3> QED
      BY xs \in SUBSET Assets
  <2>3. ASSUME NEW x \in Assets
        PROVE  Life(x)' = IF x \in xs THEN "unprotected" ELSE Life(x)
    <3>1. clock \in Nat /\ storedAt[x] \in Nat /\ GraceWindow \in Nat
      BY WindowAssumption DEF TypeOK
    <3>2. (clock + 1) - storedAt[x] < GraceWindow => clock - storedAt[x] < GraceWindow
      BY <3>1
    <3> QED
      BY <2>1, <2>2, <3>2 DEF Life
  <2>4. Lives' = [x \in Assets |-> IF x \in xs THEN "unprotected" ELSE Lives[x]]
    BY <2>3
  <2>5. \A x \in xs : Lives[x] = "promised"
    BY <2>2
  <2> QED
    BY <2>4, <2>5 DEF Store!Next, Store!Expire
<1>2. ASSUME NEW x \in Assets, Ingest(x) PROVE Store!Next
  <2>1. /\ clock' = clock
        /\ x \notin issued /\ x \in issued' /\ x \in present' /\ storedAt'[x] = clock
        /\ \A y \in Assets \ {x} : /\ y \in issued' <=> y \in issued
                                   /\ y \in present' <=> y \in present
                                   /\ storedAt'[y] = storedAt[y]
    BY <1>2 DEF Ingest, TypeOK
  <2>2. clock - clock < GraceWindow
    BY WindowAssumption, GraceAssumption DEF TypeOK
  <2>3. Life(x) = "unknown" /\ Life(x)' = "promised"
    BY <2>1, <2>2 DEF Life
  <2>4. \A y \in Assets \ {x} : Life(y)' = Life(y)
    BY <2>1 DEF Life
  <2>5. Lives[x] = "unknown" /\ Lives' = [Lives EXCEPT ![x] = "promised"]
    BY <2>3, <2>4
  <2> QED
    BY <2>5 DEF Store!Next, Store!Store
<1>3. CASE Settle
  <2>1. /\ UNCHANGED <<clock, issued, storedAt>>
        /\ present' = present \/ present' = present \ {target.asset}
    BY <1>3 DEF Settle
  <2>2. CASE present' = present
    BY <2>1, <2>2 DEF Life
  <2>3. CASE present' # present
    <3>1. PICK x \in present : present' = present \ {x}
      BY <2>1, <2>3
    <3>2. x \in issued /\ x \in Assets /\ x \notin present'
      BY <3>1 DEF TypeOK
    <3>3. ~(clock - storedAt[x] < GraceWindow)
      BY <2>1, <3>2 DEF FreshUploadsAreKept
    <3>4. Life(x) = "unprotected" /\ Life(x)' = "deleted"
      BY <2>1, <3>1, <3>2, <3>3 DEF Life
    <3>5. \A y \in Assets \ {x} : Life(y)' = Life(y)
      BY <2>1, <3>1 DEF Life
    <3>6. Lives[x] = "unprotected" /\ Lives' = [Lives EXCEPT ![x] = "deleted"]
      BY <3>2, <3>4, <3>5
    <3> QED
      BY <3>2, <3>6 DEF Store!Next, Store!Reclaim
  <2> QED
    BY <2>2, <2>3
<1>4. CASE UNCHANGED <<clock, storageVars>>
  BY <1>4 DEF Life
<1>5. ASSUME NEW r \in Requests,
             \/ \E ids \in SUBSET Assets : Reserve(r, ids)
             \/ \E x \in Assets : ReadAsset(r, x)
             \/ Reject(r)
             \/ \E a \in Analyses : Persist(r, a)
             \/ Release(r)
      PROVE  UNCHANGED <<clock, storageVars>>
  BY <1>5 DEF Reserve, ReadAsset, Reject, Persist, Release
<1>6. BeginCycle \/ OwnedPassDone \/ StartupCleanup \/ ScanConflict \/ CycleRaises
        \/ OrphanPassDone \/ ScanQuery \/ SelectExpired \/ SelectOrphans \/ Restart
        \/ Crash \/ UNCHANGED vars \/ (\E c \in candidates : Choose(c))
        \/ (\E a \in Analyses, to \in LifecycleStates : Transition(a, to))
        \/ (\E a \in Analyses : Recover(a))
      => UNCHANGED <<clock, storageVars>>
  BY DEF BeginCycle, OwnedPassDone, StartupCleanup, ScanConflict, CycleRaises,
         OrphanPassDone, ScanQuery, SelectExpired, SelectOrphans, Restart, Crash, Choose,
         Transition, Recover, vars
<1> QED
  BY <1>1, <1>2, <1>3, <1>4, <1>5, <1>6 DEF Next, RequestStep, MaintenanceStep

\* This module implements the abstract store: deletion respects the grace
\* window, and what has gone does not come back.
THEOREM RefinesStore == Spec => ImplementsStore
<1>1. Init => Store!Init
  BY DEF Init, Life, Store!Init
<1>2. TypeOK /\ Inv /\ Inv' /\ [Next]_vars => [Store!Next]_[x \in Assets |-> Life(x)]
  BY StoreStep DEF Inv, KeptInv
<1> QED
  BY <1>1, <1>2, TypeCorrect, Invariance, PTL DEF Spec, ImplementsStore, Store!Spec

=============================================================================
