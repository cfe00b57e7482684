------------------------ MODULE MCAnalysisExecution ------------------------
(* Model values and symmetry for the TLC runs of AnalysisExecution. *)
EXTENDS AnalysisExecution, TLC

CONSTANTS a1, a2, a3, w1, w2

TwoAnalyses == {a1, a2}
ThreeAnalyses == {a1, a2, a3}
OneWorker == {w1}
TwoWorkers == {w1, w2}

\* Identifiers and pool threads are interchangeable.
WorkerSymmetry == Permutations(ThreeAnalyses) \cup Permutations(TwoWorkers)

=============================================================================
