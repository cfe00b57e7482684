------------------------ MODULE MCSqliteConnections ------------------------
(* Model values for the TLC runs of SqliteConnections. *)
EXTENDS SqliteConnections, TLC

CONSTANTS a1, main, t1, t2, x1

OneAnalysis == {a1}
OneDerived == {x1}
TwoThreads == {main, t1}
ThreeThreads == {main, t1, t2}

=============================================================================
