-------------------------- MODULE MCAssetRetention --------------------------
(* Model values and symmetry for the TLC runs of AssetRetention. *)
EXTENDS AssetRetention, TLC

CONSTANTS a1, a2, x1, x2, r1, r2

OneAnalysis == {a1}
TwoAnalyses == {a1, a2}
OneAsset == {x1}
TwoAssets == {x1, x2}
OneRequest == {r1}
TwoRequests == {r1, r2}

\* Identifiers are random uuids and the module never compares them by order.
SymmetryOneRequest == Permutations(TwoAnalyses) \cup Permutations(TwoAssets)
SymmetryOneAsset == Permutations(TwoAnalyses) \cup Permutations(TwoRequests)

=============================================================================
