----------------------------- MODULE AssetName -----------------------------
(***************************************************************************)
(* The name under which an Asset is presented.                             *)
(*                                                                         *)
(* A name is a sequence of characters, of which there are four kinds: "a"  *)
(* for those that are kept, "_" for the separators that are kept inside    *)
(* and stripped at the ends (space, dot, underscore), "#" for those that   *)
(* are replaced, "/" for those that make a name a path.                    *)
(***************************************************************************)
EXTENDS Integers, Sequences, FiniteSets

CONSTANT MaxNameLength   \* _MAX_INFORMATIVE_NAME_LENGTH

ASSUME NameAssumption == MaxNameLength \in Nat \ {0}

Characters == {"a", "_", "#", "/"}

\* Positions of the characters that strip(" ._") stops at.
Solid(s) == {p \in 1..Len(s) : s[p] # "_"}

StripRight(s) ==
  IF Solid(s) = {} THEN <<>> ELSE SubSeq(s, 1, CHOOSE p \in Solid(s) : \A q \in Solid(s) : q <= p)

StripLeft(s) ==
  IF Solid(s) = {} THEN <<>> ELSE SubSeq(s, CHOOSE p \in Solid(s) : \A q \in Solid(s) : p <= q, Len(s))

\* Positions of the characters that add one to the result: of a run of replaced
\* ones only the first does.
Kept(name) == {p \in 1..Len(name) : name[p] # "#" \/ p = 1 \/ name[p - 1] # "#"}

\* The k-th of them.
Nth(s, k) == CHOOSE p \in s : Cardinality({q \in s : q <= p}) = k

\* A run of replaced characters becomes one underscore.
Replaced(name) ==
  [k \in 1..Cardinality(Kept(name)) |->
     LET character == name[Nth(Kept(name), k)]
     IN  IF character = "#" THEN "_" ELSE character]

FirstOf(s) == SubSeq(s, 1, IF Len(s) < MaxNameLength THEN Len(s) ELSE MaxNameLength)

\* Mutant of SanitizeAssetName: nothing is stripped after the cut.
SanitizeThenCut(name) == FirstOf(StripRight(StripLeft(Replaced(name))))

\* sanitize_asset_name
SanitizeAssetName(name) == StripRight(FirstOf(StripRight(StripLeft(Replaced(name)))))

\* The names sanitize_asset_name raises for.
NameIsRejected(name) ==
  \/ \E p \in 1..Len(name) : name[p] = "/"
  \/ SanitizeAssetName(name) = <<>>
=============================================================================
