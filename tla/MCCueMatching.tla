--------------------------- MODULE MCCueMatching ---------------------------
(* A small instance of CueMatching for TLC. *)
EXTENDS CueMatching

\* Every window with bounds on the grid of quarters of a two-sample source.
MCWindows == [start : {NoBound} \cup 0..8, end : {NoBound} \cup 0..8]

Whole == [start |-> NoBound, end |-> NoBound]

\* Two cues with any windows in a source of at most two samples; and one cue
\* in the whole of a source that has room for three, before an empty cue.
MCRequests ==
  [samples : {0, 1, 2}, cues : [CueIndices -> [window : MCWindows, length : {0, 1, 2}]]]
    \cup {[samples |-> n, cues |-> <<[window |-> Whole, length |-> l],
                                     [window |-> Whole, length |-> 0]>>] :
            n \in {6, 7}, l \in {1, 2, 3}}

=============================================================================
