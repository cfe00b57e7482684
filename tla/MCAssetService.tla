--------------------------- MODULE MCAssetService ---------------------------
(* A small instance of AssetService for TLC. *)
EXTENDS AssetService

CONSTANTS u1, u2, i1, i2, t1, t2

TwoUploads == {u1, u2}
TwoIds == {i1, i2}
TwoThreads == {t1, t2}

\* A cue may be shorter than a source; with chunks of one or two units a body
\* reaches its limit exactly, falls short of it, or exceeds it.
MCMaxSize == [k \in Kinds |-> IF k = "cue" THEN 1 ELSE 2]

\* Names of up to three characters, of which two are kept, and a path.
MCNames == UNION {[1..n -> {"a", "_", "#"}] : n \in 0..3} \cup {<<"a", "/">>}
=============================================================================
