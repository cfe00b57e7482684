------------------------- MODULE SqliteConnections -------------------------
(***************************************************************************)
(* The Analysis repository one level below the atomic transitions of the   *)
(* other modules: every thread lazily opens a connection of its own        *)
(* (_ThreadLocalAnalysisRepository) and a call of SQLiteAnalysisRepository *)
(* is BEGIN IMMEDIATE, SELECT, validate, UPDATE, COMMIT.  The file locks   *)
(* are those of SQLite's rollback journal, the mode the adapter leaves the *)
(* database in: one RESERVED lock for a writer, SHARED locks for readers,  *)
(* and a PENDING lock with which a COMMIT waits for the readers to leave.  *)
(* A statement that waits longer than busy_timeout raises.  BEGIN and      *)
(* COMMIT stand outside the `try` that rolls back.                         *)
(***************************************************************************)
EXTENDS LifecycleRules, FiniteSets

CONSTANTS
  Analyses,     \* identifiers of Analyses
  Derived,      \* identifiers of Assets recorded with add_owned_asset
  Threads,      \* threads of the process that use the repository
  Main,         \* the thread that runs create_app
  Nobody,       \* no thread holds the lock
  NoCall,       \* the call of a thread that is not in one
  MaxCrashes    \* bound on crashes of the process

ASSUME ConnectionAssumption ==
  /\ Main \in Threads
  /\ Nobody \notin Threads
  /\ MaxCrashes \in Nat

VARIABLES
  phase,     \* of the process: booting (create_app) or serving
  schema,    \* of the file: none, legacy (no owned_asset_ids_json), current
  rows,      \* the committed table
  reserved,  \* the thread whose transaction holds RESERVED
  waiting,   \* TRUE when that transaction also holds PENDING
  shared,    \* threads that hold SHARED
  pc,        \* where each thread is in its present call
  call,      \* the arguments of that call
  found,     \* the row its SELECT returned
  crashes,
  granted,   \* history: how often each caller was told of a state
  linked     \* history: the Assets callers were told are owned

lockVars == <<reserved, waiting, shared>>
callVars == <<pc, call, found>>
toldVars == <<granted, linked>>
vars == <<phase, schema, rows, lockVars, callVars, crashes, toldVars>>

-----------------------------------------------------------------------------
(* Rows and records *)

NoRow == [state |-> ABSENT, reached |-> {}, error |-> FALSE, owned |-> {}]

Calls ==
  [op : {"create", "read"}, id : Analyses]
    \cup [op : {"own"}, id : Analyses, asset : Derived]
    \cup [op : {"move"}, id : Analyses, to : {RUNNING, SUCCEEDED, FAILED},
          error : BOOLEAN]

\* LifecycleTimestamps.with_state_reached: the other slots stay.
WithStateReached(row, to) == row.reached \cup {to}

\* Mutant of RecordIsValid: the error may stay behind.
RecordHasAnError(record) ==
  /\ record.state \in record.reached
  /\ record.state = FAILED => record.error

\* AnalysisRecord.__post_init__ on what the table tells apart.
RecordIsValid(record) ==
  /\ record.state \in record.reached
  /\ record.error <=> record.state = FAILED

\* The record a transition builds from the row it read.
Moved(row, c) ==
  [row EXCEPT !.state = c.to, !.reached = WithStateReached(row, c.to),
              !.error = c.error]

\* The record each call of the port writes, when it writes one.
Updated(row, c) ==
  CASE c.op = "create" -> [NoRow EXCEPT !.state = QUEUED, !.reached = {QUEUED}]
    [] c.op = "move"   -> Moved(row, c)
    [] c.op = "own"    -> [row EXCEPT !.owned = @ \cup {c.asset}]

\* The columns each call's INSERT or UPDATE names: add_owned_asset leaves
\* those of the lifecycle alone, transition leaves owned_asset_ids_json.
Stored(row, record, c) ==
  CASE c.op = "create" -> record
    [] c.op = "move"   -> [record EXCEPT !.owned = row.owned]
    [] c.op = "own"    -> [row EXCEPT !.owned = record.owned]

\* What each call of the port demands of the row it read.
Admits(row, c) ==
  CASE c.op = "create" -> row = NoRow
    [] c.op = "move"   -> /\ IsValidTransition(row.state, c.to)
                          /\ RecordIsValid(Moved(row, c))
    [] c.op = "own"    -> \/ c.asset \in row.owned
                          \/ row.state \in {QUEUED, RUNNING}

-----------------------------------------------------------------------------
(* The connection of a thread *)

GoOn(t, from, to) ==
  /\ pc[t] = from
  /\ pc' = [pc EXCEPT ![t] = to]

\* A call returns or raises: its arguments and the row it read are gone.
Return(t, from) ==
  /\ GoOn(t, from, "idle")
  /\ call' = [call EXCEPT ![t] = NoCall]
  /\ found' = [found EXCEPT ![t] = NoRow]

\* Mutant of MayOpen: threads are started before create_app has its own.
MayOpenAtOnce(t) == TRUE

\* While create_app runs, the thread that runs it is the only one.
MayOpen(t) == phase = "serving" \/ t = Main

\* sqlite3.connect and CREATE TABLE IF NOT EXISTS on the first call a thread
\* makes: a read of the schema, a write only if there is no table.
Open(t) ==
  /\ MayOpen(t)
  /\ ~waiting
  /\ schema = "none" => reserved = Nobody
  /\ GoOn(t, "closed", "inspecting")
  /\ schema' = IF schema = "none" THEN "current" ELSE schema
  /\ UNCHANGED <<phase, rows, lockVars, call, found, crashes, toldVars>>

\* PRAGMA table_info: the column is there, or it has to be added.
InspectColumns(t) ==
  /\ GoOn(t, "inspecting", IF schema = "current" THEN "idle" ELSE "upgrading")
  /\ UNCHANGED <<phase, schema, rows, lockVars, call, found, crashes, toldVars>>

\* ALTER TABLE: owned_asset_ids_json is [] in every old row.  A second
\* connection that found the column missing gets "duplicate column name", and
\* its thread has no repository.
AddColumn(t) ==
  /\ reserved = Nobody
  /\ GoOn(t, "upgrading", IF schema = "legacy" THEN "idle" ELSE "closed")
  /\ schema' = "current"
  /\ UNCHANGED <<phase, rows, lockVars, call, found, crashes, toldVars>>

\* What closing the connection of t gives back.
Released(t) ==
  /\ reserved' = IF reserved = t THEN Nobody ELSE reserved
  /\ waiting' = (waiting /\ reserved # t)
  /\ shared' = shared \ {t}

\* A thread other than Main ends; its thread-local connection goes with it.
EndThread(t) ==
  /\ t # Main
  /\ GoOn(t, "idle", "closed")
  /\ Released(t)
  /\ UNCHANGED <<phase, schema, rows, call, found, crashes, toldVars>>

-----------------------------------------------------------------------------
(* Calls that write: create, transition, add_owned_asset *)

Invoke(t, c) ==
  /\ GoOn(t, "idle", IF c.op = "read" THEN "reading" ELSE "beginning")
  /\ call' = [call EXCEPT ![t] = c]
  /\ UNCHANGED <<phase, schema, rows, lockVars, found, crashes, toldVars>>

\* Mutant of Begin: BEGIN DEFERRED, the lock is taken by the write.
BeginDeferred(t) ==
  /\ GoOn(t, "beginning", "selecting")
  /\ UNCHANGED <<lockVars, call, found>>

\* BEGIN IMMEDIATE.
Begin(t) ==
  /\ reserved = Nobody
  /\ GoOn(t, "beginning", "selecting")
  /\ reserved' = t
  /\ UNCHANGED <<waiting, shared, call, found>>

\* "database is locked" after busy_timeout, or "cannot start a transaction
\* within a transaction": raised outside the `try`.
BeginRaises(t) ==
  /\ reserved # Nobody
  /\ Return(t, "beginning")
  /\ UNCHANGED lockVars

Select(t) ==
  /\ GoOn(t, "selecting", "writing")
  /\ found' = [found EXCEPT ![t] = rows[call[t].id]]
  /\ UNCHANGED <<lockVars, call>>

\* ROLLBACK and raise: the row is not one the call admits, or a statement
\* failed.
Rollback(t) ==
  /\ Return(t, "writing")
  /\ Released(t)

\* The INSERT or UPDATE, and the start of COMMIT: PENDING, unless nothing
\* was written.
Write(t) ==
  /\ GoOn(t, "writing", "committing")
  /\ Admits(found[t], call[t])
  /\ waiting' = (Updated(found[t], call[t]) # found[t])
  /\ UNCHANGED <<reserved, shared, call, found>>

\* What the caller is told when its call returns.
Grant(c) ==
  LET state == IF c.op = "create" THEN QUEUED ELSE c.to
  IN IF c.op = "own"
     THEN /\ linked' = [linked EXCEPT ![c.id] = @ \cup {c.asset}]
          /\ UNCHANGED granted
     ELSE /\ granted' = [granted EXCEPT ![c.id][state] = @ + 1]
          /\ UNCHANGED linked

\* The readers have left: EXCLUSIVE, the pages are written, the locks given up.
Commit(t) ==
  /\ waiting => shared = {}
  /\ Return(t, "committing")
  /\ rows' = [rows EXCEPT ![call[t].id] =
                Stored(@, Updated(found[t], call[t]), call[t])]
  /\ Grant(call[t])
  /\ Released(t)

\* A reader stayed for longer than busy_timeout: COMMIT raises outside the
\* `try`, the transaction stays open and keeps RESERVED and PENDING.
CommitRaises(t) ==
  /\ waiting
  /\ shared # {}
  /\ Return(t, "committing")
  /\ UNCHANGED lockVars

\* One step of a call of create, transition or add_owned_asset.
WriteCall(t) ==
  \/ /\ \/ Begin(t) \/ BeginRaises(t) \/ Select(t) \/ Rollback(t) \/ Write(t)
        \/ CommitRaises(t)
     /\ UNCHANGED <<rows, toldVars>>
  \/ Commit(t)

-----------------------------------------------------------------------------
(* Calls that read: get, list_by_state *)

\* SHARED, unless another transaction waits with PENDING; the thread's own
\* open transaction is no obstacle.
StartRead(t) ==
  /\ waiting => reserved = t
  /\ GoOn(t, "reading", "fetching")
  /\ shared' = IF reserved = t THEN shared ELSE shared \cup {t}
  /\ UNCHANGED <<call, found>>

ReadRaises(t) ==
  /\ waiting
  /\ reserved # t
  /\ Return(t, "reading")
  /\ UNCHANGED shared

EndRead(t) ==
  /\ Return(t, "fetching")
  /\ shared' = shared \ {t}

ReadCall(t) == StartRead(t) \/ ReadRaises(t) \/ EndRead(t)

-----------------------------------------------------------------------------
(* The process and the specification *)

\* create_app returns: run_startup_recovery and the rest used Main's
\* connection.
Serve ==
  /\ phase = "booting"
  /\ pc[Main] = "idle"
  /\ phase' = "serving"
  /\ UNCHANGED <<schema, rows, lockVars, callVars, crashes, toldVars>>

\* The journal of an open transaction is rolled back by the next process.
Crash ==
  /\ crashes < MaxCrashes
  /\ crashes' = crashes + 1
  /\ phase' = "booting"
  /\ reserved' = Nobody
  /\ waiting' = FALSE
  /\ shared' = {}
  /\ pc' = [t \in Threads |-> "closed"]
  /\ call' = [t \in Threads |-> NoCall]
  /\ found' = [t \in Threads |-> NoRow]
  /\ UNCHANGED <<schema, rows, toldVars>>

Init ==
  /\ phase = "booting"
  /\ schema \in {"none", "legacy", "current"}
  /\ rows = [a \in Analyses |-> NoRow]
  /\ reserved = Nobody
  /\ waiting = FALSE
  /\ shared = {}
  /\ pc = [t \in Threads |-> "closed"]
  /\ call = [t \in Threads |-> NoCall]
  /\ found = [t \in Threads |-> NoRow]
  /\ crashes = 0
  /\ granted = [a \in Analyses |-> [s \in LifecycleStates |-> 0]]
  /\ linked = [a \in Analyses |-> {}]

Next ==
  \/ Serve
  \/ Crash
  \/ \E t \in Threads :
       \/ Open(t) \/ InspectColumns(t) \/ AddColumn(t) \/ EndThread(t)
       \/ \E c \in Calls : Invoke(t, c)
       \/ /\ WriteCall(t)
          /\ UNCHANGED <<phase, schema, crashes>>
       \/ /\ ReadCall(t)
          /\ UNCHANGED <<phase, schema, rows, reserved, waiting, crashes, toldVars>>

Spec == Init /\ [][Next]_vars

-----------------------------------------------------------------------------
(* Properties *)

\* Where a thread may be, and whose locks are held.
TypeOK ==
  /\ phase \in {"booting", "serving"}
  /\ schema \in {"none", "legacy", "current"}
  /\ rows \in [Analyses -> [state : LifecycleStates \cup {ABSENT},
                            reached : SUBSET LifecycleStates,
                            error : BOOLEAN, owned : SUBSET Derived]]
  /\ reserved \in Threads \cup {Nobody}
  /\ waiting \in BOOLEAN
  /\ shared \subseteq Threads
  /\ pc \in [Threads -> {"closed", "inspecting", "upgrading", "idle", "beginning",
                         "selecting", "writing", "committing", "reading",
                         "fetching"}]
  /\ call \in [Threads -> Calls \cup {NoCall}]
  /\ found \in [Threads -> [state : LifecycleStates \cup {ABSENT},
                            reached : SUBSET LifecycleStates,
                            error : BOOLEAN, owned : SUBSET Derived]]
  /\ crashes \in 0..MaxCrashes
  /\ granted \in [Analyses -> [LifecycleStates -> Nat]]
  /\ linked \in [Analyses -> SUBSET Derived]

\* Whatever the threads interleave and however the process dies, a transition
\* is granted to one caller only, the table holds it from then on, and it
\* holds no transition whose caller was told that it failed; the same Assets
\* are owned that callers were told are owned.
TheTableIsWhatWasGranted ==
  \A a \in Analyses :
    /\ \A s \in LifecycleStates :
         granted[a][s] = IF s \in rows[a].reached THEN 1 ELSE 0
    /\ linked[a] = rows[a].owned

\* Every row can be read back: start-up recovery builds a record of each row
\* it lists, and one that AnalysisRecord refuses would keep the service down.
\* The columns agree on how far the Analysis came.
RowsCanBeReadBack ==
  \A a \in Analyses :
    rows[a] # NoRow =>
      /\ rows[a].reached =
           {QUEUED, rows[a].state} \cup (IF rows[a].state = QUEUED THEN {} ELSE {RUNNING})
      /\ rows[a].error <=> rows[a].state = FAILED

\* A row says what callers were told, and in a form that can be read back.
RowsAreGrantedAndReadable == TheTableIsWhatWasGranted /\ RowsCanBeReadBack

\* An Asset is linked to an Analysis before the retention clock of the
\* Analysis starts, so that the clock covers the link (AnalysisRepositoryPort,
\* add_owned_asset).
OwnershipPrecedesTheClock ==
  [][\A a \in Analyses :
       rows'[a].owned # rows[a].owned => ~IsTerminal(rows'[a].state)]_rows

\* The upgrade of an old database file meets no second connection: no thread
\* is about to add a column that another one has added.
UpgradeMeetsNobody ==
  \A t \in Threads : pc[t] = "upgrading" => schema = "legacy"

\* No thread is outside a call while its transaction is open: "commit-or-
\* rollback" is how docs/analysis-repository-sqlite-schema.md describes every
\* write.
EveryCallEndsItsTransaction ==
  \A t \in Threads : pc[t] = "idle" => reserved # t

\* The lifecycle every other module takes for granted, implemented by
\* interleaved transactions.
Lifecycle == INSTANCE AnalysisLifecycle WITH state <- [a \in Analyses |-> rows[a].state]
ImplementsLifecycle == Lifecycle!Spec

=============================================================================
