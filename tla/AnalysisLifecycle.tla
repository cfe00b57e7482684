-------------------------- MODULE AnalysisLifecycle --------------------------
(***************************************************************************)
(* What the repository promises about the lifecycle of an Analysis,        *)
(* whoever calls it and whenever it crashes: a row is inserted QUEUED, it  *)
(* moves only along VALID_TRANSITIONS, and it is never removed.  The       *)
(* executor, the recovery routine and the maintenance worker are shown to  *)
(* implement this specification.                                           *)
(***************************************************************************)
EXTENDS LifecycleRules

CONSTANT Analyses

VARIABLE state

Init == state = [a \in Analyses |-> ABSENT]

Create(a) ==
  /\ state[a] = ABSENT
  /\ state' = [state EXCEPT ![a] = QUEUED]

Transition(a, to) ==
  /\ IsValidTransition(state[a], to)
  /\ state' = [state EXCEPT ![a] = to]

Next ==
  \E a \in Analyses :
    \/ Create(a)
    \/ \E to \in LifecycleStates : Transition(a, to)

Spec == Init /\ [][Next]_state

=============================================================================
