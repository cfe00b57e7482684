------------------------- MODULE MCAnalysisRequests -------------------------
(* Assets, cues and requests for the TLC run of AnalysisRequests. *)
EXTENDS AnalysisRequests, TLC

CONSTANTS s, c

TwoAssets == {s, c}
OneSource == {s}

\* A whole WAV of n frames at the canonical rate: one channel, 16 bits.
Mono(n) == [container |-> "wav", parses |-> TRUE, width |-> TRUE, rate |-> 2,
            frames |-> n, present |-> n, ragged |-> FALSE, size |-> 4 + 2 * n,
            probe |-> "ok", decode |-> "ok", audio |-> TRUE, timed |-> TRUE]

Stereo(n) == [Mono(n) EXCEPT !.size = 4 + 4 * n]

Whole == Mono(4)

\* Files that are not WAV, or not one that can be decoded.
Broken == {[Whole EXCEPT !.container = "other"], [Whole EXCEPT !.parses = FALSE],
           [Whole EXCEPT !.width = FALSE], [Whole EXCEPT !.rate = 0],
           [Whole EXCEPT !.present = 3, !.ragged = TRUE, !.size = 11]}

\* Empty, whole, cut short, at other rates.  Six frames are exactly what an
\* audition may last, and their bytes exactly what it may send; four in stereo
\* are too many bytes, seven too long for it but not for an Analysis, nine for
\* either.  At rate 7, 22 frames are too long but resampled to six.
Wavs == {Mono(0), Whole, [Whole EXCEPT !.present = 2, !.size = 8],
         [Whole EXCEPT !.present = 0, !.size = 4],
         Mono(6), Stereo(4), Mono(7), Mono(9),
         [Mono(5) EXCEPT !.rate = 3], [Mono(1) EXCEPT !.rate = 7],
         [Mono(22) EXCEPT !.rate = 7]}

Video == [Whole EXCEPT !.container = "video"]

Videos == {Video, [Video EXCEPT !.timed = FALSE, !.frames = 9, !.present = 9],
           [Video EXCEPT !.frames = 9], [Video EXCEPT !.audio = FALSE],
           [Video EXCEPT !.probe = "timeout"], [Video EXCEPT !.probe = "invalid"],
           [Video EXCEPT !.decode = "timeout"]}

\* The interesting files as cues of a plain source, and as sources of a cue.
MCContents ==
  {(s :> m) @@ (c :> Whole) : m \in Broken \cup Wavs \cup Videos}
    \cup {(s :> Video) @@ (c :> m) : m \in Broken \cup Wavs \cup {Video}}

NoWindow == [start |-> NoBound, end |-> NoBound]

MCCueRequests ==
  {[cue_id |-> "p", asset_id |-> c, label |-> "none", window |-> NoWindow],
   [cue_id |-> "p", asset_id |-> s, label |-> "fine", window |-> NoWindow],
   [cue_id |-> "q", asset_id |-> c, label |-> "fine",
    window |-> [start |-> 2, end |-> 16]],
   [cue_id |-> "q", asset_id |-> c, label |-> "long", window |-> NoWindow],
   [cue_id |-> "q", asset_id |-> c, label |-> "none",
    window |-> [start |-> 5, end |-> 5]]}

=============================================================================
