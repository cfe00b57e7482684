----------------------------- MODULE AssetStore -----------------------------
(***************************************************************************)
(* What a client may rely on once an upload was answered: the Asset is     *)
(* there for the whole grace window, afterwards it may go at any time, and *)
(* what has gone does not come back, not even for another client.          *)
(*                                                                         *)
(* Who else keeps an unprotected Asset (a request that reads it, an        *)
(* Analysis) is left to the specifications that implement this one, and so *)
(* is everything that happens to a file before the answer.                 *)
(***************************************************************************)
CONSTANT Assets

VARIABLE life   \* of each Asset, as its client knows it

Init == life = [x \in Assets |-> "unknown"]

\* The upload is answered with a fresh identifier.
Store(x) ==
  /\ life[x] = "unknown"
  /\ life' = [life EXCEPT ![x] = "promised"]

\* The grace window of every Asset of xs ends, at one tick of the clock.
Expire(xs) ==
  /\ \A x \in xs : life[x] = "promised"
  /\ life' = [x \in Assets |-> IF x \in xs THEN "unprotected" ELSE life[x]]

\* A cleanup pass deletes the Asset.
Reclaim(x) ==
  /\ life[x] = "unprotected"
  /\ life' = [life EXCEPT ![x] = "deleted"]

Next ==
  \/ \E x \in Assets : Store(x)
  \/ \E xs \in SUBSET Assets : Expire(xs)
  \/ \E x \in Assets : Reclaim(x)

Spec == Init /\ [][Next]_life

=============================================================================
