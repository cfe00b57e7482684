----------------------- MODULE SqliteConnections_proofs -----------------------
(***************************************************************************)
(* Proofs about SqliteConnections, for any sets of Analyses, Assets and    *)
(* threads and any number of crashes.                                      *)
(***************************************************************************)
EXTENDS SqliteConnections, TLAPS

\* The names of the states differ.
LEMMA StatesAreDistinct ==
  /\ QUEUED # RUNNING /\ QUEUED # SUCCEEDED /\ QUEUED # FAILED /\ QUEUED # ABSENT
  /\ RUNNING # SUCCEEDED /\ RUNNING # FAILED /\ RUNNING # ABSENT
  /\ SUCCEEDED # FAILED /\ SUCCEEDED # ABSENT /\ FAILED # ABSENT
BY DEF QUEUED, RUNNING, SUCCEEDED, FAILED, ABSENT

\* The members of the closed set of states.
LEMMA StatesAreStates ==
  /\ QUEUED \in LifecycleStates /\ RUNNING \in LifecycleStates
  /\ SUCCEEDED \in LifecycleStates /\ FAILED \in LifecycleStates
  /\ ABSENT \notin LifecycleStates
BY StatesAreDistinct DEF LifecycleStates

\* The type of a row, as TypeOK states it.
Rows == [state : LifecycleStates \cup {ABSENT}, reached : SUBSET LifecycleStates,
         error : BOOLEAN, owned : SUBSET Derived]

\* The calls that write.
WriteOps == {"create", "move", "own"}

-----------------------------------------------------------------------------
(* What the calls write *)

\* The fields of the absent row.
LEMMA NoRowIsARow ==
  /\ NoRow \in Rows
  /\ NoRow.state = ABSENT /\ NoRow.reached = {} /\ NoRow.error = FALSE /\ NoRow.owned = {}
BY DEF NoRow, Rows

\* A call is one of four kinds, with the arguments of its kind.
LEMMA CallsAreTyped ==
  ASSUME NEW c \in Calls
  PROVE  /\ c.id \in Analyses
         /\ c.op \in WriteOps \cup {"read"}
         /\ c.op = "own" => c.asset \in Derived
         /\ c.op = "move" => c.to \in {RUNNING, SUCCEEDED, FAILED} /\ c.error \in BOOLEAN
BY DEF Calls, WriteOps

\* create inserts a QUEUED row where there is none.
LEMMA CreateWrites ==
  ASSUME NEW row \in Rows, NEW c \in Calls, c.op = "create", Admits(row, c),
         NEW new, new = Stored(row, Updated(row, c), c)
  PROVE  /\ row = NoRow
         /\ new \in Rows
         /\ new.state = QUEUED /\ new.reached = {QUEUED}
         /\ new.error = FALSE /\ new.owned = {}
<1>1. row = NoRow
  BY DEF Admits
<1>2. new = [NoRow EXCEPT !.state = QUEUED, !.reached = {QUEUED}]
  BY DEF Stored, Updated
<1>3. new = [state |-> QUEUED, reached |-> {QUEUED}, error |-> FALSE, owned |-> {}]
  BY <1>2 DEF NoRow
<1>4. /\ new.state = QUEUED /\ new.reached = {QUEUED}
      /\ new.error = FALSE /\ new.owned = {}
  BY <1>3
<1>5. /\ QUEUED \in LifecycleStates \cup {ABSENT}
      /\ {QUEUED} \in SUBSET LifecycleStates
      /\ {} \in SUBSET Derived
  BY StatesAreStates
<1>6. new \in Rows
  BY <1>3, <1>5 DEF Rows
<1> QED
  BY <1>1, <1>4, <1>6

\* transition moves the row along the table and keeps what it owns.
LEMMA MoveWrites ==
  ASSUME NEW row \in Rows, NEW c \in Calls, c.op = "move", Admits(row, c),
         NEW new, new = Stored(row, Updated(row, c), c)
  PROVE  /\ IsValidTransition(row.state, c.to)
         /\ new \in Rows
         /\ new.state = c.to /\ new.reached = row.reached \cup {c.to}
         /\ new.error = c.error /\ new.owned = row.owned
         /\ c.error <=> c.to = FAILED
<1>1. PICK moved \in Rows : moved = Moved(row, c)
  <2>1. c.to \in LifecycleStates /\ c.error \in BOOLEAN
    BY CallsAreTyped, StatesAreStates
  <2> QED
    BY <2>1 DEF Moved, WithStateReached, Rows
<1>2. /\ moved.state = c.to /\ moved.reached = row.reached \cup {c.to}
      /\ moved.error = c.error /\ moved.owned = row.owned
  BY <1>1 DEF Moved, WithStateReached, Rows
<1>3. new = [moved EXCEPT !.owned = row.owned]
  BY <1>1 DEF Stored, Updated
<1>4. IsValidTransition(row.state, c.to) /\ RecordIsValid(moved)
  BY <1>1 DEF Admits
<1>5. c.error <=> c.to = FAILED
  BY <1>2, <1>4 DEF RecordIsValid
<1>6. new = moved
  BY <1>2, <1>3 DEF Rows
<1> QED
  BY <1>2, <1>4, <1>5, <1>6

\* add_owned_asset adds an Asset, to an open row if the Asset is new.
LEMMA OwnWrites ==
  ASSUME NEW row \in Rows, NEW c \in Calls, c.op = "own", Admits(row, c),
         NEW new, new = Stored(row, Updated(row, c), c)
  PROVE  /\ c.asset \in row.owned \/ row.state \in {QUEUED, RUNNING}
         /\ new \in Rows
         /\ new.state = row.state /\ new.reached = row.reached
         /\ new.error = row.error /\ new.owned = row.owned \cup {c.asset}
<1>1. PICK mine \in Rows : mine = [row EXCEPT !.owned = @ \cup {c.asset}]
  BY CallsAreTyped DEF Rows
<1>2. mine.owned = row.owned \cup {c.asset}
  BY <1>1 DEF Rows
<1>3. new = [row EXCEPT !.owned = mine.owned]
  BY <1>1 DEF Stored, Updated
<1>4. c.asset \in row.owned \/ row.state \in {QUEUED, RUNNING}
  BY DEF Admits
<1>5. new = mine
  BY <1>1, <1>2, <1>3 DEF Rows
<1>6. mine.state = row.state /\ mine.reached = row.reached /\ mine.error = row.error
  BY <1>1 DEF Rows
<1> QED
  BY <1>2, <1>4, <1>5, <1>6

-----------------------------------------------------------------------------
(* Types *)

\* What TypeOK says of the table and of the calls.
LEMMA TypesOfCalls ==
  ASSUME TypeOK
  PROVE  /\ rows \in [Analyses -> Rows]
         /\ found \in [Threads -> Rows]
         /\ call \in [Threads -> Calls \cup {NoCall}]
         /\ granted \in [Analyses -> [LifecycleStates -> Nat]]
         /\ linked \in [Analyses -> SUBSET Derived]
BY DEF TypeOK, Rows

\* Which thread holds the lock, and what a call in progress knows.
LockInv ==
  /\ \A t \in Threads : pc[t] \in {"selecting", "writing", "committing"} => reserved = t
  /\ \A t \in Threads :
       pc[t] \in {"beginning", "selecting", "writing", "committing"} =>
         call[t] \in Calls /\ call[t].op \in WriteOps
  /\ \A t \in Threads :
       pc[t] \in {"writing", "committing"} => found[t] = rows[call[t].id]
  /\ \A t \in Threads : pc[t] = "committing" => Admits(found[t], call[t])

\* What a COMMIT does to the table and tells its caller.
Committed(a, c) ==
  /\ rows' = [rows EXCEPT ![a] = Stored(rows[a], Updated(rows[a], c), c)]
  /\ Grant(c)

\* The four parts of a row that Commit changes.
LEMMA CommitWrites ==
  ASSUME TypeOK, LockInv, NEW t \in Threads, Commit(t)
  PROVE  /\ call[t] \in Calls /\ call[t].op \in WriteOps
         /\ call[t].id \in Analyses
         /\ Admits(rows[call[t].id], call[t])
         /\ Committed(call[t].id, call[t])
<1>1. pc[t] = "committing"
  BY DEF Commit, Return, GoOn
<1>2. call[t] \in Calls /\ call[t].op \in WriteOps
  BY <1>1 DEF LockInv
<1>3. found[t] = rows[call[t].id] /\ Admits(found[t], call[t])
  BY <1>1 DEF LockInv
<1>4. call[t].id \in Analyses
  BY <1>2, CallsAreTyped
<1>5. rows' = [rows EXCEPT ![call[t].id] =
                 Stored(rows[call[t].id], Updated(rows[call[t].id], call[t]), call[t])]
  BY <1>3 DEF Commit
<1> QED
  BY <1>2, <1>3, <1>4, <1>5 DEF Commit, Committed

\* A row that a COMMIT writes is a row.
LEMMA StoredIsARow ==
  ASSUME NEW row \in Rows, NEW c \in Calls, c.op \in WriteOps, Admits(row, c)
  PROVE  Stored(row, Updated(row, c), c) \in Rows
<1> DEFINE new == Stored(row, Updated(row, c), c)
<1>1. CASE c.op = "create"
  <2>1. \A n : n = new => n \in Rows
    BY <1>1, CreateWrites
  <2> QED
    BY <2>1
<1>2. CASE c.op = "move"
  <2>1. \A n : n = new => n \in Rows
    BY <1>2, MoveWrites
  <2> QED
    BY <2>1
<1>3. CASE c.op = "own"
  <2>1. \A n : n = new => n \in Rows
    BY <1>3, OwnWrites
  <2> QED
    BY <2>1
<1> QED
  BY <1>1, <1>2, <1>3 DEF WriteOps

\* The steps of Next, one thread at a time.
ThreadStep(t) ==
  \/ Open(t) \/ InspectColumns(t) \/ AddColumn(t) \/ EndThread(t)
  \/ \E c \in Calls : Invoke(t, c)
  \/ WriteCall(t) /\ UNCHANGED <<phase, schema, crashes>>
  \/ ReadCall(t) /\ UNCHANGED <<phase, schema, rows, reserved, waiting, crashes, toldVars>>

\* A step is a step of a thread or of the process.
LEMMA StepsOfNext ==
  ASSUME Next
  PROVE  Serve \/ Crash \/ \E t \in Threads : ThreadStep(t)
BY DEF Next, ThreadStep

\* The variables keep their types.
LEMMA TypeStep ==
  ASSUME TypeOK, LockInv, [Next]_vars
  PROVE  TypeOK'
<1> USE ConnectionAssumption DEF TypeOK, lockVars, callVars, toldVars
<1>0. NoRow \in Rows /\ Rows = [state : LifecycleStates \cup {ABSENT},
                                reached : SUBSET LifecycleStates,
                                error : BOOLEAN, owned : SUBSET Derived]
  BY NoRowIsARow DEF Rows
<1>1. CASE Serve
  BY <1>1 DEF Serve
<1>2. CASE Crash
  <2>1. /\ pc' \in [Threads -> {"closed"}]
        /\ call' \in [Threads -> {NoCall}]
        /\ found' \in [Threads -> Rows]
    BY <1>0, <1>2 DEF Crash
  <2>2. crashes' \in 0..MaxCrashes
    BY <1>2 DEF Crash
  <2> QED
    BY <1>0, <1>2, <2>1, <2>2 DEF Crash
<1>3. ASSUME NEW t \in Threads, Open(t) \/ InspectColumns(t) \/ AddColumn(t)
      PROVE  TypeOK'
  BY <1>3 DEF Open, InspectColumns, AddColumn, GoOn
<1>4. ASSUME NEW t \in Threads, EndThread(t) PROVE TypeOK'
  BY <1>4 DEF EndThread, GoOn, Released
<1>5. ASSUME NEW t \in Threads, NEW c \in Calls, Invoke(t, c) PROVE TypeOK'
  <2>1. call' \in [Threads -> Calls \cup {NoCall}]
    BY <1>5 DEF Invoke
  <2> QED
    BY <1>5, <2>1 DEF Invoke, GoOn
<1>6. ASSUME NEW t \in Threads, NEW from, Return(t, from)
      PROVE  /\ pc' = [pc EXCEPT ![t] = "idle"]
             /\ call' \in [Threads -> Calls \cup {NoCall}]
             /\ found' \in [Threads -> Rows]
  BY <1>0, <1>6 DEF Return, GoOn
<1>7. ASSUME NEW t \in Threads, Begin(t) \/ Write(t), UNCHANGED <<rows, toldVars>>,
             UNCHANGED <<phase, schema, crashes>>
      PROVE  TypeOK'
  BY <1>7 DEF Begin, Write, GoOn
<1>8. ASSUME NEW t \in Threads, Select(t), UNCHANGED <<rows, toldVars>>,
             UNCHANGED <<phase, schema, crashes>>
      PROVE  TypeOK'
  <2>1. call[t] \in Calls
    BY <1>8 DEF Select, GoOn, LockInv
  <2>2. rows[call[t].id] \in Rows
    BY <1>0, <2>1, CallsAreTyped
  <2>3. found' \in [Threads -> Rows]
    BY <1>0, <1>8, <2>2 DEF Select
  <2> QED
    BY <1>0, <1>8, <2>3 DEF Select, GoOn
<1>9. ASSUME NEW t \in Threads, BeginRaises(t) \/ Rollback(t) \/ CommitRaises(t),
             UNCHANGED <<rows, toldVars>>, UNCHANGED <<phase, schema, crashes>>
      PROVE  TypeOK'
  <2>1. \E from : Return(t, from)
    BY <1>9 DEF BeginRaises, Rollback, CommitRaises
  <2> QED
    BY <1>0, <1>6, <1>9, <2>1 DEF BeginRaises, Rollback, CommitRaises, Released
<1>10. ASSUME NEW t \in Threads, Commit(t), UNCHANGED <<phase, schema, crashes>>
       PROVE  TypeOK'
  <2> DEFINE c == call[t]
  <2>1. /\ c \in Calls /\ c.op \in WriteOps /\ c.id \in Analyses
        /\ Admits(rows[c.id], c) /\ Committed(c.id, c)
    BY <1>10, CommitWrites
  <2>2. rows[c.id] \in Rows
    BY <1>0, <2>1
  <2>3. PICK new \in Rows : new = Stored(rows[c.id], Updated(rows[c.id], c), c)
    BY <2>1, <2>2, StoredIsARow
  <2>4. rows' \in [Analyses -> Rows]
    BY <1>0, <2>1, <2>3 DEF Committed
  <2>5. /\ granted' \in [Analyses -> [LifecycleStates -> Nat]]
        /\ linked' \in [Analyses -> SUBSET Derived]
    <3>1. CASE c.op = "own"
      <4>1. c.asset \in Derived
        BY <2>1, <3>1, CallsAreTyped
      <4>2. /\ linked' = [linked EXCEPT ![c.id] = @ \cup {c.asset}]
            /\ UNCHANGED granted
        BY <2>1, <3>1 DEF Committed, Grant
      <4>3. linked[c.id] \cup {c.asset} \in SUBSET Derived
        BY <2>1, <4>1
      <4> QED
        BY <2>1, <4>2, <4>3
    <3>2. CASE c.op # "own"
      <4> DEFINE s == IF c.op = "create" THEN QUEUED ELSE c.to
      <4>1. s \in LifecycleStates
        BY <2>1, <3>2, CallsAreTyped, StatesAreStates DEF WriteOps
      <4>2. granted' = [granted EXCEPT ![c.id][s] = @ + 1] /\ UNCHANGED linked
        BY <2>1, <3>2 DEF Committed, Grant
      <4> HIDE DEF s
      <4> QED
        BY <2>1, <4>1, <4>2
    <3> QED
      BY <3>1, <3>2
  <2>6. Return(t, "committing") /\ Released(t)
    BY <1>10 DEF Commit
  <2> QED
    BY <1>0, <1>6, <1>10, <2>4, <2>5, <2>6 DEF Released
<1>11. ASSUME NEW t \in Threads, ReadCall(t),
              UNCHANGED <<phase, schema, rows, reserved, waiting, crashes, toldVars>>
       PROVE  TypeOK'
  <2>1. CASE StartRead(t)
    BY <1>11, <2>1 DEF StartRead, GoOn
  <2>2. CASE ReadRaises(t) \/ EndRead(t)
    <3>1. \E from : Return(t, from)
      BY <2>2 DEF ReadRaises, EndRead
    <3> QED
      BY <1>0, <1>6, <1>11, <2>2, <3>1 DEF ReadRaises, EndRead
  <2> QED
    BY <1>11, <2>1, <2>2 DEF ReadCall
<1>12. CASE UNCHANGED vars
  BY <1>12 DEF vars
<1>13. ASSUME NEW t \in Threads, ThreadStep(t) PROVE TypeOK'
  BY <1>3, <1>4, <1>5, <1>7, <1>8, <1>9, <1>10, <1>11, <1>13 DEF ThreadStep, WriteCall
<1> QED
  BY <1>1, <1>2, <1>12, <1>13, StepsOfNext

\* The lock and what its holder knows are kept.
LEMMA LockStep ==
  ASSUME TypeOK, LockInv, [Next]_vars
  PROVE  LockInv'
<1> USE ConnectionAssumption DEF LockInv, lockVars, callVars, toldVars
<1>0. /\ pc \in [Threads -> {"closed", "inspecting", "upgrading", "idle", "beginning",
                            "selecting", "writing", "committing", "reading", "fetching"}]
      /\ call \in [Threads -> Calls \cup {NoCall}]
      /\ found \in [Threads -> Rows]
  BY TypesOfCalls DEF TypeOK
<1>1. CASE Serve
  BY <1>1 DEF Serve
<1>2. CASE Crash
  BY <1>2 DEF Crash
<1>3. ASSUME NEW t \in Threads, Open(t) \/ InspectColumns(t) \/ AddColumn(t)
      PROVE  LockInv'
  BY <1>0, <1>3 DEF Open, InspectColumns, AddColumn, GoOn
<1>4. ASSUME NEW t \in Threads, EndThread(t) PROVE LockInv'
  BY <1>0, <1>4 DEF EndThread, GoOn, Released
<1>5. ASSUME NEW t \in Threads, NEW c \in Calls, Invoke(t, c) PROVE LockInv'
  <2>1. c.op # "read" => c.op \in WriteOps
    BY CallsAreTyped
  <2>2. call'[t] = c /\ \A u \in Threads \ {t} : call'[u] = call[u] /\ pc'[u] = pc[u]
    BY <1>0, <1>5 DEF Invoke, GoOn
  <2>3. pc'[t] = IF c.op = "read" THEN "reading" ELSE "beginning"
    BY <1>0, <1>5 DEF Invoke, GoOn
  <2> QED
    BY <1>0, <1>5, <2>1, <2>2, <2>3 DEF Invoke
<1>6. ASSUME NEW t \in Threads, NEW from, Return(t, from),
             UNCHANGED rows, UNCHANGED reserved \/ Released(t)
      PROVE  LockInv'
  BY <1>0, <1>6 DEF Return, GoOn, Released
<1>7. ASSUME NEW t \in Threads, Begin(t) \/ Select(t) \/ Write(t), UNCHANGED rows
      PROVE  LockInv'
  BY <1>0, <1>7 DEF Begin, Select, Write, GoOn
<1>8. ASSUME NEW t \in Threads, Commit(t) PROVE LockInv'
  <2>1. /\ pc[t] = "committing" /\ reserved = t
        /\ pc' = [pc EXCEPT ![t] = "idle"]
        /\ \A u \in Threads \ {t} : call'[u] = call[u] /\ found'[u] = found[u]
    BY <1>0, <1>8 DEF Commit, Return, GoOn
  <2>2. \A u \in Threads \ {t} : pc[u] \notin {"selecting", "writing", "committing"}
    BY <2>1
  <2> QED
    BY <1>0, <2>1, <2>2
<1>9. ASSUME NEW t \in Threads, ReadCall(t), UNCHANGED <<rows, reserved>>
      PROVE  LockInv'
  <2>1. CASE StartRead(t)
    BY <1>0, <1>9, <2>1 DEF StartRead, GoOn
  <2>2. CASE ReadRaises(t) \/ EndRead(t)
    BY <1>6, <1>9, <2>2 DEF ReadRaises, EndRead
  <2> QED
    BY <1>9, <2>1, <2>2 DEF ReadCall
<1>10. CASE UNCHANGED vars
  BY <1>10 DEF vars
<1>11. ASSUME NEW t \in Threads, WriteCall(t) PROVE LockInv'
  <2>1. CASE /\ BeginRaises(t) \/ Rollback(t) \/ CommitRaises(t)
             /\ UNCHANGED rows
    BY <1>6, <2>1 DEF BeginRaises, Rollback, CommitRaises
  <2> QED
    BY <1>7, <1>8, <1>11, <2>1 DEF WriteCall
<1>12. ASSUME NEW t \in Threads, ThreadStep(t) PROVE LockInv'
  BY <1>3, <1>4, <1>5, <1>9, <1>11, <1>12 DEF ThreadStep
<1> QED
  BY <1>1, <1>2, <1>10, <1>12, StepsOfNext

\* Every thread is where its call has it, and only the holder of the lock is in
\* a transaction.
THEOREM TypeCorrect == Spec => [](TypeOK /\ LockInv)
<1>1. Init => TypeOK /\ LockInv
  <2> SUFFICES ASSUME Init PROVE TypeOK /\ LockInv
    OBVIOUS
  <2>1. /\ rows \in [Analyses -> Rows]
        /\ found \in [Threads -> Rows]
    BY NoRowIsARow DEF Init
  <2>2. /\ granted \in [Analyses -> [LifecycleStates -> Nat]]
        /\ linked \in [Analyses -> SUBSET Derived]
    BY DEF Init
  <2>3. /\ pc \in [Threads -> {"closed"}]
        /\ call \in [Threads -> Calls \cup {NoCall}]
        /\ crashes \in 0..MaxCrashes
    BY ConnectionAssumption DEF Init
  <2>4. TypeOK
    <3>1. /\ phase \in {"booting", "serving"}
          /\ schema \in {"none", "legacy", "current"}
          /\ reserved \in Threads \cup {Nobody}
          /\ waiting \in BOOLEAN
          /\ shared \subseteq Threads
      BY DEF Init
    <3> QED
      BY <2>1, <2>2, <2>3, <3>1 DEF TypeOK, Rows
  <2>5. LockInv
    BY DEF Init, LockInv
  <2> QED
    BY <2>4, <2>5
<1>2. TypeOK /\ LockInv /\ [Next]_vars => (TypeOK /\ LockInv)'
  BY TypeStep, LockStep
<1> QED
  BY <1>1, <1>2, PTL DEF Spec

-----------------------------------------------------------------------------
(* The table *)

\* The row of an Analysis is absent or in one of the states.
PresenceInv ==
  \A a \in Analyses : rows[a] = NoRow \/ rows[a].state \in LifecycleStates

\* The invariant of the table, on the ones of the types and of the lock.
TableInv == PresenceInv /\ RowsAreGrantedAndReadable

\* The transitions there are.
LEMMA ValidTransitions ==
  ASSUME NEW from, NEW to, IsValidTransition(from, to)
  PROVE  \/ from = QUEUED /\ to = RUNNING
         \/ from = RUNNING /\ to \in {SUCCEEDED, FAILED}
BY DEF QUEUED, RUNNING, SUCCEEDED, FAILED, IsValidTransition, VALID_TRANSITIONS

\* A COMMIT writes what it tells its caller, and a row that can be read back.
LEMMA CommitKeepsTable ==
  ASSUME TypeOK, TableInv, NEW c \in Calls, c.op \in WriteOps, c.id \in Analyses,
         Admits(rows[c.id], c), Committed(c.id, c)
  PROVE  TableInv'
<1> DEFINE a == c.id
           row == rows[a]
<1>0. /\ rows \in [Analyses -> Rows] /\ row \in Rows
      /\ granted \in [Analyses -> [LifecycleStates -> Nat]]
      /\ linked \in [Analyses -> SUBSET Derived]
  BY TypesOfCalls
<1>1. PICK new : new = Stored(row, Updated(row, c), c)
  OBVIOUS
<1>2. /\ rows' = [rows EXCEPT ![a] = new]
      /\ rows'[a] = new
      /\ \A b \in Analyses \ {a} : rows'[b] = rows[b]
  BY <1>0, <1>1 DEF Committed
<1>3. /\ \A s \in LifecycleStates : granted[a][s] = IF s \in row.reached THEN 1 ELSE 0
      /\ linked[a] = row.owned
      /\ row # NoRow =>
           /\ row.state \in LifecycleStates
           /\ row.reached =
                {QUEUED, row.state} \cup (IF row.state = QUEUED THEN {} ELSE {RUNNING})
           /\ row.error <=> row.state = FAILED
  BY DEF TableInv, PresenceInv, RowsAreGrantedAndReadable, TheTableIsWhatWasGranted,
         RowsCanBeReadBack
<1>4. ASSUME new.state \in LifecycleStates,
             new.reached =
               {QUEUED, new.state} \cup (IF new.state = QUEUED THEN {} ELSE {RUNNING}),
             new.error <=> new.state = FAILED,
             \A s \in LifecycleStates :
               granted'[a][s] = IF s \in new.reached THEN 1 ELSE 0,
             linked'[a] = new.owned,
             \A b \in Analyses \ {a} : granted'[b] = granted[b] /\ linked'[b] = linked[b]
      PROVE  TableInv'
  <2>1. PresenceInv'
    BY <1>2, <1>4 DEF TableInv, PresenceInv
  <2>2. TheTableIsWhatWasGranted'
    BY <1>2, <1>4 DEF TableInv, RowsAreGrantedAndReadable, TheTableIsWhatWasGranted
  <2>3. RowsCanBeReadBack'
    BY <1>2, <1>4 DEF TableInv, RowsAreGrantedAndReadable, RowsCanBeReadBack
  <2> QED
    BY <2>1, <2>2, <2>3 DEF TableInv, RowsAreGrantedAndReadable
<1>5. ASSUME NEW to \in LifecycleStates, c.op # "own",
             to = IF c.op = "create" THEN QUEUED ELSE c.to,
             to \notin row.reached
      PROVE  /\ \A s \in LifecycleStates :
                  granted'[a][s] = IF s \in row.reached \cup {to} THEN 1 ELSE 0
             /\ linked' = linked
             /\ \A b \in Analyses \ {a} : granted'[b] = granted[b]
  <2>1. granted' = [granted EXCEPT ![a][to] = @ + 1] /\ linked' = linked
    BY <1>5 DEF Committed, Grant
  <2>2. granted[a] \in [LifecycleStates -> Nat]
    BY <1>0
  <2>3. granted'[a] = [granted[a] EXCEPT ![to] = @ + 1]
    BY <1>0, <2>1
  <2>4. \A s \in LifecycleStates :
          granted'[a][s] = IF s = to THEN granted[a][s] + 1 ELSE granted[a][s]
    BY <2>2, <2>3
  <2>5. \A s \in LifecycleStates :
          granted'[a][s] = IF s \in row.reached \cup {to} THEN 1 ELSE 0
    BY <1>3, <1>5, <2>4
  <2> QED
    BY <1>0, <2>1, <2>5
<1>6. CASE c.op = "create"
  <2>1. /\ row = NoRow
        /\ new.state = QUEUED /\ new.reached = {QUEUED}
        /\ new.error = FALSE /\ new.owned = {}
    BY <1>0, <1>1, <1>6, CreateWrites
  <2>2. row.reached = {} /\ row.owned = {}
    BY <2>1, NoRowIsARow
  <2>3. /\ \A s \in LifecycleStates :
             granted'[a][s] = IF s \in row.reached \cup {QUEUED} THEN 1 ELSE 0
        /\ linked' = linked
        /\ \A b \in Analyses \ {a} : granted'[b] = granted[b]
    BY <1>5, <1>6, <2>2, StatesAreStates
  <2> QED
    BY <1>3, <1>4, <2>1, <2>2, <2>3, StatesAreStates, StatesAreDistinct
<1>7. CASE c.op = "move"
  <2>1. /\ IsValidTransition(row.state, c.to)
        /\ new.state = c.to /\ new.reached = row.reached \cup {c.to}
        /\ new.error = c.error /\ new.owned = row.owned
        /\ c.error <=> c.to = FAILED
    BY <1>0, <1>1, <1>7, MoveWrites
  <2>2. \/ row.state = QUEUED /\ c.to = RUNNING
        \/ row.state = RUNNING /\ c.to \in {SUCCEEDED, FAILED}
    BY <2>1, ValidTransitions
  <2>3. row # NoRow
    BY <2>2, NoRowIsARow, StatesAreDistinct
  <2>4. /\ row.reached = IF row.state = QUEUED THEN {QUEUED} ELSE {QUEUED, RUNNING}
        /\ c.to \notin row.reached
        /\ c.to \in LifecycleStates
    BY <1>3, <2>2, <2>3, StatesAreStates, StatesAreDistinct
  <2>5. /\ \A s \in LifecycleStates :
             granted'[a][s] = IF s \in row.reached \cup {c.to} THEN 1 ELSE 0
        /\ linked' = linked
        /\ \A b \in Analyses \ {a} : granted'[b] = granted[b]
    BY <1>5, <1>7, <2>4
  <2>6. new.reached = {QUEUED, new.state} \cup (IF new.state = QUEUED THEN {} ELSE {RUNNING})
    BY <2>1, <2>2, <2>4, StatesAreDistinct
  <2> QED
    BY <1>3, <1>4, <2>1, <2>4, <2>5, <2>6
<1>8. CASE c.op = "own"
  <2>1. /\ c.asset \in row.owned \/ row.state \in {QUEUED, RUNNING}
        /\ new.state = row.state /\ new.reached = row.reached
        /\ new.error = row.error /\ new.owned = row.owned \cup {c.asset}
    BY <1>0, <1>1, <1>8, OwnWrites
  <2>2. row # NoRow
    BY <2>1, NoRowIsARow, StatesAreDistinct
  <2>3. linked' = [linked EXCEPT ![a] = @ \cup {c.asset}] /\ granted' = granted
    BY <1>8 DEF Committed, Grant
  <2>4. linked'[a] = new.owned /\ \A b \in Analyses \ {a} : linked'[b] = linked[b]
    BY <1>0, <1>3, <2>1, <2>3
  <2> QED
    BY <1>3, <1>4, <2>1, <2>2, <2>3, <2>4
<1> QED
  BY <1>6, <1>7, <1>8 DEF WriteOps

\* Every other step leaves the table and what callers were told alone.
LEMMA OnlyCommitWrites ==
  ASSUME [Next]_vars, \A t \in Threads : ~Commit(t)
  PROVE  UNCHANGED <<rows, toldVars>>
<1>1. ASSUME NEW t \in Threads, ThreadStep(t) PROVE UNCHANGED <<rows, toldVars>>
  <2>1. WriteCall(t) => UNCHANGED <<rows, toldVars>>
    BY DEF WriteCall
  <2> QED
    BY <1>1, <2>1 DEF ThreadStep, Open, InspectColumns, AddColumn, EndThread, Invoke
<1> QED
  BY <1>1, StepsOfNext DEF Serve, Crash, vars, toldVars

\* A row says what callers were told, once each, and can be read back, however
\* the calls of the threads interleave and whichever of their steps raises.
THEOREM TableIsFaithful == Spec => []RowsAreGrantedAndReadable
<1>1. Init => TableInv
  <2> SUFFICES ASSUME Init PROVE TableInv
    OBVIOUS
  <2>1. \A a \in Analyses : rows[a] = NoRow
    BY DEF Init
  <2>2. \A a \in Analyses : /\ \A s \in LifecycleStates : granted[a][s] = 0
                            /\ linked[a] = {}
    BY DEF Init
  <2> QED
    BY <2>1, <2>2, NoRowIsARow
    DEF TableInv, PresenceInv, RowsAreGrantedAndReadable, TheTableIsWhatWasGranted,
        RowsCanBeReadBack
<1>2. TypeOK /\ LockInv /\ TableInv /\ [Next]_vars => TableInv'
  <2> SUFFICES ASSUME TypeOK, LockInv, TableInv, [Next]_vars PROVE TableInv'
    OBVIOUS
  <2>1. ASSUME NEW t \in Threads, Commit(t) PROVE TableInv'
    BY <2>1, CommitWrites, CommitKeepsTable
  <2>2. CASE UNCHANGED <<rows, toldVars>>
    BY <2>2 DEF toldVars, TableInv, PresenceInv, RowsAreGrantedAndReadable,
                TheTableIsWhatWasGranted, RowsCanBeReadBack
  <2> QED
    BY <2>1, <2>2, OnlyCommitWrites
<1>3. TableInv => RowsAreGrantedAndReadable
  BY DEF TableInv
<1> QED
  BY <1>1, <1>2, <1>3, TypeCorrect, PTL DEF Spec

\* Assets are linked to open Analyses only, and rows move along the lifecycle.
LEMMA WhatCommitChanges ==
  ASSUME TypeOK, LockInv, NEW t \in Threads, Commit(t)
  PROVE  \E a \in Analyses : \E new \in Rows :
           /\ rows' = [rows EXCEPT ![a] = new]
           /\ new.owned # rows[a].owned => new.state \in {QUEUED, RUNNING}
           /\ \/ new.state = rows[a].state
              \/ rows[a].state = ABSENT /\ new.state = QUEUED
              \/ IsValidTransition(rows[a].state, new.state)
<1> DEFINE c == call[t]
           a == c.id
<1>1. /\ c \in Calls /\ c.op \in WriteOps /\ a \in Analyses
      /\ Admits(rows[a], c) /\ Committed(a, c)
  BY CommitWrites
<1> HIDE DEF c
<1>2. rows[a] \in Rows
  BY <1>1, TypesOfCalls
<1>3. PICK new \in Rows : new = Stored(rows[a], Updated(rows[a], c), c)
  BY <1>1, <1>2, StoredIsARow
<1>4. rows' = [rows EXCEPT ![a] = new]
  BY <1>3, <1>1 DEF Committed
<1>5. CASE c.op = "create"
  <2>1. rows[a] = NoRow /\ new.state = QUEUED /\ new.owned = {}
    BY <1>1, <1>2, <1>3, <1>5, CreateWrites
  <2> QED
    BY <1>1, <1>4, <2>1, NoRowIsARow
<1>6. CASE c.op = "move"
  <2>1. /\ IsValidTransition(rows[a].state, c.to)
        /\ new.state = c.to /\ new.owned = rows[a].owned
    BY <1>1, <1>2, <1>3, <1>6, MoveWrites
  <2> QED
    BY <1>1, <1>4, <2>1
<1>7. CASE c.op = "own"
  <2>1. /\ c.asset \in rows[a].owned \/ rows[a].state \in {QUEUED, RUNNING}
        /\ new.state = rows[a].state /\ new.owned = rows[a].owned \cup {c.asset}
    BY <1>1, <1>2, <1>3, <1>7, OwnWrites
  <2>2. new.owned # rows[a].owned => new.state \in {QUEUED, RUNNING}
    BY <2>1
  <2> QED
    BY <1>1, <1>4, <2>1, <2>2
<1> QED
  BY <1>1, <1>5, <1>6, <1>7 DEF WriteOps

\* No Asset is linked to an Analysis whose retention clock runs.
THEOREM OwnershipComesFirst == Spec => OwnershipPrecedesTheClock
<1> DEFINE Early == \A a \in Analyses :
                      rows'[a].owned # rows[a].owned => ~IsTerminal(rows'[a].state)
<1>1. TypeOK /\ LockInv /\ [Next]_vars => [Early]_rows
  <2> SUFFICES ASSUME TypeOK, LockInv, [Next]_vars, ~UNCHANGED rows PROVE Early
    OBVIOUS
  <2>1. PICK t \in Threads : Commit(t)
    BY OnlyCommitWrites
  <2>2. PICK a \in Analyses, new \in Rows :
          /\ rows' = [rows EXCEPT ![a] = new]
          /\ new.owned # rows[a].owned => new.state \in {QUEUED, RUNNING}
    BY <2>1, WhatCommitChanges
  <2>3. /\ rows'[a] = new
        /\ \A b \in Analyses \ {a} : rows'[b] = rows[b]
    BY <2>2, TypesOfCalls
  <2>4. new.state \in {QUEUED, RUNNING} => ~IsTerminal(new.state)
    BY StatesAreDistinct DEF IsTerminal, TERMINAL_STATES
  <2> QED
    BY <2>2, <2>3, <2>4
<1> QED
  BY <1>1, TypeCorrect, PTL DEF Spec, OwnershipPrecedesTheClock

\* Interleaved transactions implement the abstract lifecycle: each call takes
\* effect at its COMMIT, and a call that raises takes none.
THEOREM RefinesLifecycle == Spec => ImplementsLifecycle
<1> USE DEF Lifecycle!Next, Lifecycle!Create, Lifecycle!Transition,
        Lifecycle!IsValidTransition, Lifecycle!VALID_TRANSITIONS,
        Lifecycle!LifecycleStates, Lifecycle!QUEUED, Lifecycle!RUNNING,
        Lifecycle!SUCCEEDED, Lifecycle!FAILED, Lifecycle!ABSENT
<1> DEFINE state == [a \in Analyses |-> rows[a].state]
<1>1. Init => Lifecycle!Init
  <2> SUFFICES ASSUME Init PROVE Lifecycle!Init
    OBVIOUS
  <2>1. \A a \in Analyses : rows[a].state = ABSENT
    BY NoRowIsARow DEF Init
  <2> QED
    BY <2>1 DEF Lifecycle!Init, ABSENT
<1>2. TypeOK /\ LockInv /\ [Next]_vars => [Lifecycle!Next]_state
  <2> SUFFICES ASSUME TypeOK, LockInv, [Next]_vars PROVE Lifecycle!Next \/ UNCHANGED state
    OBVIOUS
  <2>1. CASE UNCHANGED rows
    BY <2>1
  <2>2. ASSUME NEW t \in Threads, Commit(t)
        PROVE  Lifecycle!Next \/ UNCHANGED state
    <3>1. PICK a \in Analyses, new \in Rows :
            /\ rows' = [rows EXCEPT ![a] = new]
            /\ \/ new.state = rows[a].state
               \/ rows[a].state = ABSENT /\ new.state = QUEUED
               \/ IsValidTransition(rows[a].state, new.state)
      BY <2>2, WhatCommitChanges
    <3>2. state' = [state EXCEPT ![a] = new.state]
      <4>1. rows'[a] = new /\ \A b \in Analyses \ {a} : rows'[b] = rows[b]
        BY <3>1, TypesOfCalls
      <4> QED
        BY <4>1
    <3>3. state[a] = rows[a].state
      OBVIOUS
    <3> HIDE DEF state
    <3>4. CASE new.state = rows[a].state
      <4>1. state \in [Analyses -> {rows[b].state : b \in Analyses}]
        BY DEF state
      <4> QED
        BY <3>2, <3>3, <3>4, <4>1
    <3>5. CASE rows[a].state = ABSENT /\ new.state = QUEUED
      BY <3>2, <3>3, <3>5 DEF QUEUED, ABSENT, state
    <3>6. CASE IsValidTransition(rows[a].state, new.state)
      <4>1. new.state \in LifecycleStates
        BY <3>6, ValidTransitions, StatesAreStates
      <4> QED
        BY <3>2, <3>3, <3>6, <4>1
        DEF IsValidTransition, VALID_TRANSITIONS, LifecycleStates, QUEUED, RUNNING,
            SUCCEEDED, FAILED, state
    <3> QED
      BY <3>1, <3>4, <3>5, <3>6
  <2> QED
    BY <2>1, <2>2, OnlyCommitWrites
<1> QED
  BY <1>1, <1>2, TypeCorrect, PTL DEF Spec, ImplementsLifecycle, Lifecycle!Spec

-----------------------------------------------------------------------------
(* The upgrade *)

\* While create_app runs its thread is alone, and it has left the file with the
\* column before anyone else opens a connection.
SchemaInv ==
  /\ phase = "booting" => \A t \in Threads \ {Main} : pc[t] = "closed"
  /\ phase = "serving" => schema = "current"
  /\ pc[Main] = "inspecting" => schema # "none"
  /\ pc[Main] \notin {"closed", "inspecting", "upgrading"} => schema = "current"
  /\ UpgradeMeetsNobody

\* No connection is about to add a column that another one has added.
THEOREM UpgradeIsAlone == Spec => []UpgradeMeetsNobody
<1> USE ConnectionAssumption
<1>1. Init => SchemaInv
  BY DEF Init, SchemaInv, UpgradeMeetsNobody
<1>2. TypeOK /\ SchemaInv /\ [Next]_vars => SchemaInv'
  <2> SUFFICES ASSUME TypeOK, SchemaInv, [Next]_vars PROVE SchemaInv'
    OBVIOUS
  <2> USE DEF SchemaInv, UpgradeMeetsNobody
  <2>0. pc \in [Threads -> {"closed", "inspecting", "upgrading", "idle", "beginning",
                            "selecting", "writing", "committing", "reading", "fetching"}]
    BY DEF TypeOK
  <2>1. CASE Serve
    BY <2>0, <2>1 DEF Serve, callVars
  <2>2. CASE Crash
    BY <2>2 DEF Crash
  <2>3. ASSUME NEW t \in Threads, Open(t) PROVE SchemaInv'
    BY <2>0, <2>3 DEF TypeOK, Open, MayOpen, GoOn
  <2>4. ASSUME NEW t \in Threads, InspectColumns(t) PROVE SchemaInv'
    BY <2>0, <2>4 DEF TypeOK, InspectColumns, GoOn
  <2>5. ASSUME NEW t \in Threads, AddColumn(t) PROVE SchemaInv'
    <3>1. phase = "booting" /\ t = Main
      BY <2>5 DEF TypeOK, AddColumn, GoOn
    <3> QED
      BY <2>0, <2>5, <3>1 DEF AddColumn, GoOn
  <2>6. ASSUME NEW t \in Threads, NEW from, NEW to, GoOn(t, from, to),
               from \notin {"closed", "inspecting", "upgrading"},
               to \notin {"inspecting", "upgrading"},
               to # "closed" \/ t # Main,
               UNCHANGED <<phase, schema>>
        PROVE  SchemaInv'
    BY <2>0, <2>6 DEF GoOn
  <2>7. ASSUME NEW t \in Threads, NEW c \in Calls, Invoke(t, c) PROVE SchemaInv'
    BY <2>6, <2>7 DEF Invoke
  <2>8. ASSUME NEW t \in Threads, EndThread(t) PROVE SchemaInv'
    BY <2>6, <2>8 DEF EndThread
  <2>9. ASSUME NEW t \in Threads, WriteCall(t), UNCHANGED <<phase, schema>>
        PROVE  SchemaInv'
    <3>1. CASE Begin(t)
      BY <2>6, <2>9, <3>1 DEF Begin
    <3>2. CASE BeginRaises(t)
      BY <2>6, <2>9, <3>2 DEF BeginRaises, Return
    <3>3. CASE Select(t)
      BY <2>6, <2>9, <3>3 DEF Select
    <3>4. CASE Rollback(t)
      BY <2>6, <2>9, <3>4 DEF Rollback, Return
    <3>5. CASE Write(t)
      BY <2>6, <2>9, <3>5 DEF Write
    <3>6. CASE CommitRaises(t)
      BY <2>6, <2>9, <3>6 DEF CommitRaises, Return
    <3>7. CASE Commit(t)
      BY <2>6, <2>9, <3>7 DEF Commit, Return
    <3> QED
      BY <2>9, <3>1, <3>2, <3>3, <3>4, <3>5, <3>6, <3>7 DEF WriteCall
  <2>10. ASSUME NEW t \in Threads, ReadCall(t), UNCHANGED <<phase, schema>>
         PROVE  SchemaInv'
    <3>1. CASE StartRead(t)
      BY <2>6, <2>10, <3>1 DEF StartRead
    <3>2. CASE ReadRaises(t)
      BY <2>6, <2>10, <3>2 DEF ReadRaises, Return
    <3>3. CASE EndRead(t)
      BY <2>6, <2>10, <3>3 DEF EndRead, Return
    <3> QED
      BY <2>10, <3>1, <3>2, <3>3 DEF ReadCall
  <2>11. CASE UNCHANGED vars
    BY <2>11 DEF vars, callVars
  <2>12. ASSUME NEW t \in Threads, ThreadStep(t) PROVE SchemaInv'
    BY <2>3, <2>4, <2>5, <2>7, <2>8, <2>9, <2>10, <2>12 DEF ThreadStep
  <2> QED
    BY <2>1, <2>2, <2>11, <2>12, StepsOfNext
<1>3. SchemaInv => UpgradeMeetsNobody
  BY DEF SchemaInv
<1>4. TypeOK /\ LockInv => TypeOK
  OBVIOUS
<1> QED
  BY <1>1, <1>2, <1>3, <1>4, TypeCorrect, PTL DEF Spec

=============================================================================
