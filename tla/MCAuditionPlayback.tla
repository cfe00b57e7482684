-------------------------- MODULE MCAuditionPlayback --------------------------
(* Cues for the TLC run of AuditionPlayback: each has its own button and     *)
(* that of an occurrence. There is no symmetry, for the sake of liveness.    *)
EXTENDS AuditionPlayback, TLC

CONSTANTS c1, c2

TwoCues == {c1, c2}
=============================================================================
