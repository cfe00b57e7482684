--------------------------- MODULE LifecycleRules ---------------------------
(***************************************************************************)
(* The closed vocabulary of core/analysis_lifecycle.py: the four states of *)
(* an Analysis and the three transitions the Core state machine admits.    *)
(* Every module that changes the state of an Analysis goes through         *)
(* IsValidTransition, as every writer in the code goes through             *)
(* `validate_lifecycle_transition`.                                        *)
(***************************************************************************)
EXTENDS Naturals, Sequences

QUEUED    == "queued"
RUNNING   == "running"
SUCCEEDED == "succeeded"
FAILED    == "failed"

\* The state of an identifier for which no row is persisted.
ABSENT == "absent"

\* Mutant of DeclaredOrder: the scan meets the terminal states first.
TerminalFirst == <<SUCCEEDED, FAILED, RUNNING, QUEUED>>

\* The members of AnalysisLifecycleState in their declaration order: the
\* order in which `for requested_state in AnalysisLifecycleState` meets them.
DeclaredOrder == <<QUEUED, RUNNING, SUCCEEDED, FAILED>>

LifecycleStates == {QUEUED, RUNNING, SUCCEEDED, FAILED}

TERMINAL_STATES == {SUCCEEDED, FAILED}

VALID_TRANSITIONS == {<<QUEUED, RUNNING>>, <<RUNNING, SUCCEEDED>>,
                      <<RUNNING, FAILED>>}

IsTerminal(s) == s \in TERMINAL_STATES

IsValidTransition(from, to) == <<from, to>> \in VALID_TRANSITIONS

=============================================================================
