-------------------------- MODULE CueMatching_proofs --------------------------
(***************************************************************************)
(* Proofs about CueMatching for every number of cues, every source, cue    *)
(* and window, every vector of scores and every cap.                       *)
(***************************************************************************)
EXTENDS CueMatching, FiniteSetTheorems, WellFoundedInduction, TLAPS

(***************************************************************************)
(* Rounding.                                                               *)
(***************************************************************************)

\* A rounded time is a sample index at most half a sample away.
LEMMA RoundIsNear ==
  ASSUME NEW time \in Nat
  PROVE  /\ Round(time) \in Nat
         /\ Round(time) * UnitsPerSample >= time - 2
         /\ Round(time) * UnitsPerSample <= time + 2
BY SMT DEF Round, UnitsPerSample

\* Rounding keeps the end of a source: no time in it leads past it.
LEMMA RoundStaysInside ==
  ASSUME NEW time \in Nat, NEW length \in Nat, time <= Duration(length)
  PROVE  Round(time) <= length
BY SMT DEF Round, UnitsPerSample, Duration

\* What the creation accepts, the run can slice, inside the source.
LEMMA AcceptedWindowSlices ==
  ASSUME NEW window \in Window, NEW length \in Nat,
         CreationAccepts(window, length)
  PROVE  /\ ~WindowRaises(window)
         /\ ~SliceRaises(window, length)
         /\ StartIndex(window) \in Nat
         /\ EndIndex(window, length) \in Nat
         /\ EndIndex(window, length) <= length
         /\ StartIndex(window) * UnitsPerSample >= StartTime(window) - 2
         /\ EndIndex(window, length) * UnitsPerSample
              <= EndTime(window, length) + 2
<1>1. window.start \in Nat \cup {NoBound} /\ window.end \in Nat \cup {NoBound}
  BY DEF Window, Times
<1>2. StartTime(window) \in Nat
  BY <1>1 DEF StartTime
<1>3. StartIndex(window) \in Nat
      /\ StartIndex(window) * UnitsPerSample >= StartTime(window) - 2
  BY <1>2, RoundIsNear DEF StartIndex
<1>4. CASE window.end = NoBound
  BY <1>1, <1>2, <1>3, <1>4, SMT
     DEF CreationAccepts, WindowRaises, SliceRaises, StartTime, EndTime,
         EndIndex, Duration, UnitsPerSample, NoBound
<1>5. CASE window.end # NoBound
  <2>1. window.end \in Nat /\ EndTime(window, length) = window.end
    BY <1>1, <1>5 DEF EndTime
  <2>2. /\ EndIndex(window, length) = Round(window.end)
        /\ window.end <= Duration(length)
    BY <1>5, <2>1 DEF EndIndex, CreationAccepts
  <2>3. /\ EndIndex(window, length) \in Nat
        /\ EndIndex(window, length) <= length
        /\ EndIndex(window, length) * UnitsPerSample <= window.end + 2
    BY <2>1, <2>2, RoundIsNear, RoundStaysInside
  <2>4. ~WindowRaises(window)
    BY <1>1, <1>5, <2>1, SMT
       DEF CreationAccepts, WindowRaises, StartTime, EndTime, NoBound
  <2>5. ~SliceRaises(window, length)
    BY <1>1, <1>3, <1>5, <2>1, <2>3, SMT
       DEF CreationAccepts, SliceRaises, StartTime, EndTime, Duration,
           UnitsPerSample, NoBound
  <2> QED BY <1>3, <2>1, <2>3, <2>4, <2>5
<1> QED BY <1>4, <1>5

-----------------------------------------------------------------------------
(***************************************************************************)
(* The inductive invariant.                                                *)
(***************************************************************************)

Scanning == pc \in {"scan", "project"}

\* The request is the accepted one; inside the loop body the slice is that of
\* its window, and a vector of scores exists only for a cue that fits in it.
Place ==
  /\ \A c \in CueIndices : CreationAccepts(cues[c].window, samples)
  /\ pc # "raised"
  /\ pc = "match" \/ Scanning =>
       slice = SourceSlice(cues[current].window, samples)
  /\ Scanning => Length > 0 /\ SliceLength >= Length

\* The scan: what is taken and what is pending was accepted, everything taken
\* is better than everything pending, and below the cap as long as it runs.
Scan ==
  /\ ~Scanning => selected = {}
  /\ pc # "scan" => pending = {}
  /\ pc = "scan" => method = "multi" /\ Cardinality(selected) < MaxOccurrences
  /\ IsFiniteSet(selected)
  /\ pending \subseteq AcceptedLags
  /\ selected \subseteq AcceptedLags
  /\ \A taken \in selected : \A lag \in pending : Better(taken, lag)

\* The single-best matcher keeps the first maximum if it is accepted.
Single ==
  pc = "project" /\ method = "single" =>
    \E best \in Lags : IsFirst(best, Lags) /\ selected = {best} \cap AcceptedLags

IInv ==
  /\ TypeOK /\ Place /\ Scan /\ Single
  /\ OccurrencesShareNoSample
  /\ NothingBetterIsDropped
  /\ OccurrencesInWindow

\* Initially nothing is scanned and no outcome has an occurrence.
LEMMA InitEstablishes == Init => IInv
<1> SUFFICES ASSUME Init PROVE IInv
  OBVIOUS
<1> USE MatchingAssumption DEF Init
<1>1. /\ cues \in [CueIndices -> Cue]
      /\ \A c \in CueIndices : CreationAccepts(cues[c].window, samples)
  OBVIOUS
<1>2. TypeOK
  BY <1>1, SMT DEF TypeOK, Outcome, NotYet, CueIndices, Lags
<1>3. Place /\ Single
  BY <1>1 DEF Place, Single, Scanning
<1>4. IsFiniteSet(selected) /\ Cardinality(selected) = 0
  BY FS_EmptySet
<1>5. Scan
  BY <1>4 DEF Scan, Scanning
<1>6. OccurrencesShareNoSample /\ NothingBetterIsDropped
  BY <1>4, SMT DEF OccurrencesShareNoSample, NothingBetterIsDropped
<1>7. OccurrencesInWindow
  BY DEF OccurrencesInWindow, NotYet, Outcome
<1> QED BY <1>2, <1>3, <1>5, <1>6, <1>7 DEF IInv

-----------------------------------------------------------------------------
(***************************************************************************)
(* One lemma per action.                                                   *)
(***************************************************************************)

\* The window of the current cue was accepted, so the slice exists.
LEMMA SliceKeeps == ASSUME IInv, Slice PROVE IInv'
<1> USE MatchingAssumption DEF IInv
<1> DEFINE window == cues[current].window
<1>1. /\ pc = "slice" /\ current \in CueIndices
      /\ current \in 1..(CueCount + 1) /\ current <= CueCount
  BY SMT DEF Slice, TypeOK, CueIndices
<1>2. /\ window \in Window /\ samples \in Nat
      /\ CreationAccepts(window, samples)
  BY <1>1 DEF TypeOK, Place, Cue
<1>3. /\ ~WindowRaises(window) /\ ~SliceRaises(window, samples)
      /\ StartIndex(window) \in Nat /\ EndIndex(window, samples) \in Nat
  BY <1>2, AcceptedWindowSlices
<1>4. /\ pc' = "match" /\ slice' = SourceSlice(window, samples)
      /\ UNCHANGED <<method, samples, cues, current, scores, pending, selected,
                     outcomes>>
  BY <1>3 DEF Slice
<1>5. slice' \in [first : Nat, last : Nat]
  BY <1>3, <1>4 DEF SourceSlice
<1>6. selected = {} /\ pending = {}
  BY <1>1 DEF Scan, Scanning
<1>7. TypeOK'
  BY <1>1, <1>4, <1>5, <1>6 DEF TypeOK, Lags
<1>8. Place'
  BY <1>1, <1>4 DEF Place, Scanning
<1>9. Scan' /\ Single'
  BY <1>1, <1>4, <1>6 DEF Scan, Single, Scanning
<1>10. OccurrencesShareNoSample' /\ NothingBetterIsDropped'
  BY <1>4 DEF OccurrencesShareNoSample, NothingBetterIsDropped
<1>11. OccurrencesInWindow'
  BY <1>4 DEF OccurrencesInWindow
<1> QED BY <1>7, <1>8, <1>9, <1>10, <1>11

\* Concluding a cue with an outcome whose occurrences lie in its window.
LEMMA ConcludeKeeps ==
  ASSUME IInv, NEW outcome, Conclude(outcome),
         pc \in {"match", "project"},
         outcome \in [kind : {"not_yet", "occurrences", "no_match", "failure"},
                      at : SUBSET Nat],
         \A at \in outcome.at :
           /\ at * UnitsPerSample >= StartTime(cues[current].window) - 2
           /\ (at + Length) * UnitsPerSample
                <= EndTime(cues[current].window, samples) + 2
           /\ at + Length <= samples
  PROVE  IInv'
<1> USE MatchingAssumption DEF IInv
<1>1. current \in CueIndices /\ current \in 1..CueCount
  BY SMT DEF TypeOK, CueIndices
<1>2. /\ outcomes' = [outcomes EXCEPT ![current] = outcome]
      /\ current' = current + 1
      /\ pc' = IF current = CueCount THEN "done" ELSE "slice"
      /\ scores' = [lag \in {} |-> 0]
      /\ selected' = {}
      /\ UNCHANGED <<method, samples, cues, slice, pending>>
  BY DEF Conclude
<1>3. pending = {}
  BY DEF Scan
<1>4. pc' \in {"done", "slice"} /\ (pc' = "slice" => current' <= CueCount)
  BY <1>1, <1>2, SMT
<1>5. current' \in 1..(CueCount + 1)
  BY <1>1, <1>2, SMT
<1>6. outcomes' \in [CueIndices -> [kind : {"not_yet", "occurrences", "no_match",
                                            "failure"},
                                    at : SUBSET Nat]]
  BY <1>1, <1>2 DEF TypeOK
<1>7. TypeOK'
  BY <1>2, <1>3, <1>4, <1>5, <1>6 DEF TypeOK, Lags
<1>8. Place'
  BY <1>2, <1>4 DEF Place, Scanning
<1>9. IsFiniteSet(selected') /\ Cardinality(selected') = 0
  BY <1>2, FS_EmptySet
<1>10. Scan' /\ Single'
  BY <1>2, <1>3, <1>4, <1>9 DEF Scan, Single, Scanning
<1>11. OccurrencesShareNoSample' /\ NothingBetterIsDropped'
  BY <1>4, <1>9, SMT DEF OccurrencesShareNoSample, NothingBetterIsDropped
<1>12. OccurrencesInWindow'
  <2> SUFFICES ASSUME NEW c \in CueIndices, NEW at \in outcomes'[c].at
               PROVE  /\ at * UnitsPerSample >= StartTime(cues[c].window) - 2
                      /\ (at + cues[c].length) * UnitsPerSample
                           <= EndTime(cues[c].window, samples) + 2
                      /\ at + cues[c].length <= samples
    BY <1>2 DEF OccurrencesInWindow
  <2>1. CASE c = current
    <3>1. outcomes'[c] = outcome
      BY <1>1, <1>2, <2>1 DEF TypeOK
    <3> QED BY <2>1, <3>1 DEF Length
  <2>2. CASE c # current
    <3>1. outcomes'[c] = outcomes[c]
      BY <1>2, <2>2 DEF TypeOK
    <3> QED BY <3>1 DEF OccurrencesInWindow
  <2> QED BY <2>1, <2>2
<1> QED BY <1>7, <1>8, <1>10, <1>11, <1>12

\* A cue without a match and a cue that failed have no occurrence.
LEMMA RejectAndFailKeep == ASSUME IInv, RejectInput \/ MatcherFails PROVE IInv'
<1>1. PICK kind \in {"failure", "no_match"} : Conclude(Outcome(kind, {}))
  BY DEF RejectInput, MatcherFails
<1>2. pc = "match"
  BY DEF RejectInput, MatcherFails, Matchable
<1>3. /\ Outcome(kind, {}) \in
           [kind : {"not_yet", "occurrences", "no_match", "failure"},
            at : SUBSET Nat]
      /\ Outcome(kind, {}).at = {}
  BY DEF Outcome
<1> QED BY <1>1, <1>2, <1>3, ConcludeKeeps

\* The types of the loop body, for the matcher's steps.
LEMMA BodyTypes ==
  ASSUME IInv, pc \in {"match", "scan", "project"}
  PROVE  /\ current \in CueIndices
         /\ cues[current].window \in Window
         /\ Length \in Nat
         /\ samples \in Nat
         /\ slice.first \in Nat /\ slice.last \in Nat /\ SliceLength \in Int
<1>1. current \in CueIndices
  BY MatchingAssumption, SMT DEF IInv, TypeOK, CueIndices
<1>2. cues[current] \in Cue /\ slice \in [first : Nat, last : Nat]
  BY <1>1 DEF IInv, TypeOK
<1>3. samples \in Nat
  BY MatchingAssumption DEF IInv, TypeOK
<1>4. cues[current].window \in Window /\ Length \in Nat
  BY <1>2, MatchingAssumption DEF Cue, Length
<1>5. slice.first \in Nat /\ slice.last \in Nat
  BY <1>2
<1>6. SliceLength \in Int
  BY <1>5, SMT DEF SliceLength
<1> QED BY <1>1, <1>3, <1>4, <1>5, <1>6

\* The overlap test of the code is about shared samples.
LEMMA OverlapIsSharing ==
  ASSUME Length \in Nat, Length > 0, NEW a \in Int, NEW b \in Int
  PROVE  Overlap(a, b) <=> Span(a) \cap Span(b) # {}
<1>1. ASSUME Overlap(a, b) PROVE Span(a) \cap Span(b) # {}
  <2>1. CASE a <= b
    BY <1>1, <2>1, b \in Span(a) \cap Span(b), SMT DEF Overlap, Span
  <2>2. CASE b <= a
    BY <1>1, <2>2, a \in Span(a) \cap Span(b), SMT DEF Overlap, Span
  <2> QED BY <2>1, <2>2
<1>2. ASSUME ~Overlap(a, b) PROVE Span(a) \cap Span(b) = {}
  BY <1>2, SMT DEF Overlap, Span
<1> QED BY <1>1, <1>2

\* The single-best matcher takes at most one lag.
LEMMA MatchSingleKeeps == ASSUME IInv, MatchSingle PROVE IInv'
<1> USE MatchingAssumption DEF IInv
<1>1. /\ pc = "match" /\ method = "single"
      /\ Length > 0 /\ SliceLength >= Length
      /\ scores' \in [0..(SliceLength - Length) -> Scores]
      /\ pc' = "project"
      /\ UNCHANGED <<method, samples, cues, current, slice, pending, outcomes>>
  BY DEF MatchSingle, Matchable
<1>2. PICK best \in Lags' :
        IsFirst(best, Lags)' /\ selected' = {best} \cap AcceptedLags'
  BY DEF MatchSingle
<1>3. /\ pending = {} /\ current <= CueCount
  BY <1>1 DEF Scan, TypeOK
<1>4. Length' = Length /\ SliceLength' = SliceLength
  BY <1>1 DEF Length, SliceLength
<1>5. /\ IsFiniteSet(selected') /\ Cardinality(selected') <= 1
      /\ Cardinality(selected') \in Nat
  <2>1. IsFiniteSet({best}) /\ Cardinality({best}) = 1
    BY FS_Singleton
  <2>2. selected' \subseteq {best}
    BY <1>2
  <2> QED BY <2>1, <2>2, FS_Subset, FS_CardinalityType
<1>6. TypeOK'
  BY <1>1, <1>2, <1>3, <1>4 DEF TypeOK, AcceptedLags
<1>7. Place'
  BY <1>1, <1>4 DEF Place, Scanning
<1>8. Scan'
  BY <1>1, <1>2, <1>3, <1>5 DEF Scan, Scanning, AcceptedLags
<1>9. Single'
  BY <1>2 DEF Single
<1>10. OccurrencesShareNoSample'
  BY <1>2 DEF OccurrencesShareNoSample
<1>11. NothingBetterIsDropped'
  BY <1>1, <1>5, SMT DEF NothingBetterIsDropped
<1>12. OccurrencesInWindow'
  BY <1>1 DEF OccurrencesInWindow
<1> QED BY <1>6, <1>7, <1>8, <1>9, <1>10, <1>11, <1>12

\* Before the scan every accepted lag is pending.
LEMMA MatchMultiKeeps == ASSUME IInv, MatchMulti PROVE IInv'
<1> USE MatchingAssumption DEF IInv
<1>1. /\ pc = "match" /\ method = "multi"
      /\ Length > 0 /\ SliceLength >= Length
      /\ scores' \in [0..(SliceLength - Length) -> Scores]
      /\ pending' = AcceptedLags'
      /\ pc' = IF pending' = {} THEN "project" ELSE "scan"
      /\ UNCHANGED <<method, samples, cues, current, slice, selected, outcomes>>
  BY DEF MatchMulti, Matchable
<1>2. selected = {} /\ current <= CueCount
  BY <1>1 DEF Scan, Scanning, TypeOK
<1>3. Length' = Length /\ SliceLength' = SliceLength
  BY <1>1 DEF Length, SliceLength
<1>4. IsFiniteSet(selected') /\ Cardinality(selected') = 0
  BY <1>1, <1>2, FS_EmptySet
<1>5. TypeOK'
  BY <1>1, <1>2, <1>3 DEF TypeOK, AcceptedLags
<1>6. Place'
  BY <1>1, <1>3 DEF Place, Scanning
<1>7. Scan' /\ Single'
  BY <1>1, <1>2, <1>4, SMT DEF Scan, Single, Scanning
<1>8. OccurrencesShareNoSample'
  BY <1>1, <1>2 DEF OccurrencesShareNoSample
<1>9. NothingBetterIsDropped'
  BY <1>1, <1>4, SMT DEF NothingBetterIsDropped, AcceptedLags
<1>10. OccurrencesInWindow'
  BY <1>1 DEF OccurrencesInWindow
<1> QED BY <1>5, <1>6, <1>7, <1>8, <1>9, <1>10

\* A suppressed lag shares a sample with a better one already taken.
LEMMA SuppressKeeps ==
  ASSUME IInv, Consider, NEW lag \in pending, IsFirst(lag, pending),
         Suppress(lag)
  PROVE  IInv'
<1> USE MatchingAssumption DEF IInv
<1>1. /\ pc = "scan"
      /\ pending' = pending \ {lag} /\ selected' = selected
      /\ pc' = IF pending' = {} THEN "project" ELSE "scan"
      /\ UNCHANGED <<method, samples, cues, current, slice, scores, outcomes>>
  BY DEF Consider, Suppress
<1>2. method = "multi" /\ Cardinality(selected) < MaxOccurrences
  BY <1>1 DEF Scan
<1>3. /\ Length \in Nat /\ Length > 0
      /\ Lags = 0..(SliceLength - Length) /\ SliceLength \in Int
      /\ current <= CueCount
  BY <1>1, BodyTypes DEF Place, Scanning, TypeOK, Lags
<1>4. PICK chosen \in selected : Overlap(lag, chosen)
  BY DEF Suppress, Suppressed
<1>5. lag \in Int /\ chosen \in Int
  BY <1>3, <1>4, SMT DEF TypeOK
<1>6. Better(chosen, lag) /\ Span(chosen) \cap Span(lag) # {}
  BY <1>3, <1>4, <1>5, OverlapIsSharing DEF Scan
<1>7. /\ TypeOK' /\ Place' /\ Scan' /\ Single'
  <2>1. TypeOK'
    BY <1>1, <1>3 DEF TypeOK, Lags, SliceLength, Length
  <2>2. Place'
    BY <1>1 DEF Place, Scanning, SliceLength, Length
  <2>3. Scan'
    BY <1>1, <1>2 DEF Scan, Scanning, AcceptedLags, Lags, Better
  <2>4. Single'
    BY <1>1, <1>2 DEF Single
  <2> QED BY <2>1, <2>2, <2>3, <2>4
<1>8. OccurrencesShareNoSample'
  BY <1>1 DEF OccurrencesShareNoSample, Span, Length
<1>9. NothingBetterIsDropped'
  <2>1. Cardinality(selected') <= MaxOccurrences
    BY <1>1 DEF NothingBetterIsDropped
  <2>2. SUFFICES ASSUME NEW other \in Lags,
                        other \notin selected, other \notin pending \ {lag},
                        scores[other] >= Threshold
                 PROVE  \E taken \in selected :
                          /\ Better(taken, other)
                          /\ Span(taken) \cap Span(other) # {}
    BY <1>1, <2>1 DEF NothingBetterIsDropped, Lags, Better, Span, Length
  <2>3. CASE other = lag
    BY <1>4, <1>6, <2>3
  <2>4. CASE other # lag
    <3>1. Cardinality(selected) # MaxOccurrences
      BY <1>2, FS_CardinalityType, SMT DEF Scan
    <3> QED BY <1>1, <1>2, <2>2, <2>4, <3>1 DEF NothingBetterIsDropped
  <2> QED BY <2>3, <2>4
<1>10. OccurrencesInWindow'
  BY <1>1 DEF OccurrencesInWindow
<1> QED BY <1>7, <1>8, <1>9, <1>10

\* A lag that is taken overlaps nothing taken before; what the cap drops is
\* worse than all that is taken.
LEMMA SelectKeeps ==
  ASSUME IInv, Consider, NEW lag \in pending, IsFirst(lag, pending),
         Select(lag)
  PROVE  IInv'
<1> USE MatchingAssumption DEF IInv
<1>1. /\ pc = "scan"
      /\ selected' = selected \cup {lag}
      /\ pending' = IF Cardinality(selected') = MaxOccurrences
                      THEN {}
                      ELSE pending \ {lag}
      /\ pc' = IF pending' = {} THEN "project" ELSE "scan"
      /\ UNCHANGED <<method, samples, cues, current, slice, scores, outcomes>>
  BY DEF Consider, Select
<1>2. /\ method = "multi" /\ Cardinality(selected) < MaxOccurrences
      /\ IsFiniteSet(selected) /\ Cardinality(selected) \in Nat
  BY <1>1, FS_CardinalityType DEF Scan
<1>3. /\ Length \in Nat /\ Length > 0
      /\ Lags = 0..(SliceLength - Length) /\ SliceLength \in Int
      /\ current <= CueCount
  BY <1>1, BodyTypes DEF Place, Scanning, TypeOK, Lags
<1>4. \A chosen \in selected : ~Overlap(lag, chosen)
  BY DEF Select, Suppressed
<1>5. lag \in Lags /\ lag \in AcceptedLags /\ selected \subseteq Lags /\ Lags \subseteq Int
  BY <1>3, SMT DEF TypeOK, Scan
<1>6. lag \notin selected
  BY <1>3, <1>4, <1>5, SMT DEF Overlap
<1>7. /\ IsFiniteSet(selected')
      /\ Cardinality(selected') = Cardinality(selected) + 1
      /\ Cardinality(selected') \in Nat
  <2>1. IsFiniteSet(selected \cup {lag})
        /\ Cardinality(selected \cup {lag}) = Cardinality(selected) + 1
    BY <1>2, <1>6, FS_AddElement
  <2> QED BY <1>1, <2>1, FS_CardinalityType
<1>8. Cardinality(selected') <= MaxOccurrences
  BY <1>2, <1>7, SMT
<1>9. \A other \in pending \ {lag} : Better(lag, other)
  BY DEF IsFirst, Precedes, Better
<1>10. \A taken \in selected' : \A other \in pending \ {lag} : Better(taken, other)
  BY <1>1, <1>9 DEF Scan
<1>11. TypeOK'
  BY <1>1, <1>3, <1>5 DEF TypeOK, Lags, SliceLength, Length
<1>12. Place'
  BY <1>1 DEF Place, Scanning, SliceLength, Length
<1>13. Scan'
  <2>1. pc' = "scan" => method' = "multi" /\ Cardinality(selected') < MaxOccurrences
    <3>1. pc' = "scan" => Cardinality(selected') # MaxOccurrences
      BY <1>1
    <3>2. MaxOccurrences \in Nat
      OBVIOUS
    <3> QED BY <1>1, <1>2, <1>7, <1>8, <3>1, <3>2
  <2>2. pending' \subseteq AcceptedLags' /\ selected' \subseteq AcceptedLags'
    BY <1>1, <1>5 DEF Scan, AcceptedLags, Lags
  <2>3. \A taken \in selected' : \A other \in pending' : Better(taken, other)'
    BY <1>1, <1>10 DEF Better
  <2> QED BY <1>1, <1>7, <2>1, <2>2, <2>3 DEF Scan, Scanning
<1>14. Single'
  BY <1>1, <1>2 DEF Single
<1>15. OccurrencesShareNoSample'
  <2> SUFFICES ASSUME NEW a \in selected', NEW b \in selected', a # b
               PROVE  Span(a) \cap Span(b) = {}
    BY <1>1 DEF OccurrencesShareNoSample, Span, Length
  <2>1. CASE a \in selected /\ b \in selected
    BY <1>1, <2>1 DEF OccurrencesShareNoSample
  <2>2. CASE a = lag /\ b \in selected
    BY <1>3, <1>4, <1>5, <2>2, OverlapIsSharing
  <2>3. CASE b = lag /\ a \in selected
    <3>1. Span(b) \cap Span(a) = {}
      BY <1>3, <1>4, <1>5, <2>3, OverlapIsSharing
    <3> QED BY <3>1
  <2> QED BY <1>1, <2>1, <2>2, <2>3
<1>16. NothingBetterIsDropped'
  <2>1. SUFFICES ASSUME NEW other \in Lags,
                        other \notin selected', other \notin pending',
                        scores[other] >= Threshold
                 PROVE  \/ \E taken \in selected' :
                             Better(taken, other) /\ Span(taken) \cap Span(other) # {}
                        \/ /\ Cardinality(selected') = MaxOccurrences
                           /\ \A taken \in selected' : Better(taken, other)
    <3>1. /\ Lags' = Lags /\ scores' = scores
          /\ \A a, b : Better(a, b)' <=> Better(a, b)
          /\ \A a : Span(a)' = Span(a)
      BY <1>1 DEF Lags, Better, Span, Length
    <3> QED BY <1>8, <2>1, <3>1 DEF NothingBetterIsDropped
  <2>2. CASE other \in pending
    <3>1. other \in pending \ {lag}
      BY <1>1, <2>1, <2>2
    <3>2. Cardinality(selected') = MaxOccurrences
      BY <1>1, <2>1, <3>1
    <3> QED BY <1>10, <3>1, <3>2
  <2>3. CASE other \notin pending
    <3>1. Cardinality(selected) # MaxOccurrences
      BY <1>2, SMT
    <3>2. PICK taken \in selected :
            Better(taken, other) /\ Span(taken) \cap Span(other) # {}
      BY <1>1, <1>2, <2>1, <2>3, <3>1 DEF NothingBetterIsDropped
    <3> QED BY <1>1, <3>2
  <2> QED BY <2>2, <2>3
<1>17. OccurrencesInWindow'
  BY <1>1 DEF OccurrencesInWindow
<1> QED BY <1>11, <1>12, <1>13, <1>14, <1>15, <1>16, <1>17

\* Rebasing puts the occurrences of a slice into the window it was cut for.
LEMMA ProjectKeeps == ASSUME IInv, Project PROVE IInv'
<1> USE MatchingAssumption DEF IInv
<1> DEFINE window == cues[current].window
           outcome == IF selected = {}
                        THEN Outcome("no_match", {})
                        ELSE Outcome("occurrences", Rebased)
<1>1. pc = "project" /\ Conclude(outcome)
  BY DEF Project
<1>2. /\ current \in CueIndices /\ window \in Window /\ Length \in Nat
      /\ samples \in Nat
  BY <1>1, BodyTypes
<1>3. /\ slice = SourceSlice(window, samples)
      /\ CreationAccepts(window, samples)
      /\ Length > 0 /\ SliceLength >= Length
  BY <1>1, <1>2 DEF Place, Scanning
<1>4. /\ slice.first \in Nat /\ slice.last \in Nat /\ slice.last <= samples
      /\ slice.first * UnitsPerSample >= StartTime(window) - 2
      /\ slice.last * UnitsPerSample <= EndTime(window, samples) + 2
  BY <1>2, <1>3, AcceptedWindowSlices DEF SourceSlice
<1>5. selected \subseteq 0..(slice.last - slice.first - Length)
  BY <1>1 DEF TypeOK, Lags, SliceLength
<1>6. window.start \in Int /\ window.end \in Int
  BY <1>2, SMT DEF Window, Times, NoBound
<1>7. StartTime(window) \in Int /\ EndTime(window, samples) \in Int
  BY <1>2, <1>6, SMT DEF StartTime, EndTime, Duration, UnitsPerSample
<1>8. ASSUME NEW at \in Rebased
      PROVE  /\ at \in Nat
             /\ at * UnitsPerSample >= StartTime(window) - 2
             /\ (at + Length) * UnitsPerSample <= EndTime(window, samples) + 2
             /\ at + Length <= samples
  <2>1. PICK lag \in selected : at = slice.first + lag
    BY DEF Rebased
  <2>2. lag \in Nat /\ lag <= slice.last - slice.first - Length
    BY <1>2, <1>4, <1>5, <2>1, SMT
  <2> HIDE DEF window
  <2> QED BY <1>2, <1>4, <1>7, <2>1, <2>2, SMT DEF UnitsPerSample
<1>9. outcome.at \subseteq Rebased /\ outcome.kind \in {"no_match", "occurrences"}
  BY DEF Outcome
<1>10. outcome \in [kind : {"not_yet", "occurrences", "no_match", "failure"},
                    at : SUBSET Nat]
  BY <1>8 DEF Outcome
<1> HIDE DEF outcome
<1> QED BY <1>1, <1>8, <1>9, <1>10, ConcludeKeeps

-----------------------------------------------------------------------------
(***************************************************************************)
(* The best selection.                                                     *)
(***************************************************************************)

\* A set of natural numbers has a least element.
LEMMA LeastElement ==
  ASSUME NEW S \in SUBSET Nat, S # {}
  PROVE  \E m \in S : \A n \in S : m <= n
<1>1. PICK m \in S : \A n \in S : ~ (<<n, m>> \in OpToRel(<, Nat))
  BY NatLessThanWellFounded, WFMin
<1>2. \A n \in S : ~ (n < m)
  BY <1>1 DEF OpToRel
<1> QED BY <1>2

\* Of some numbered scores one is the best: the first of the greatest ones.
LEMMA BestExists ==
  ASSUME NEW n \in Nat, NEW sc \in [0..n -> Int], NEW D \in SUBSET (0..n), D # {}
  PROVE  \E best \in D : \A other \in D \ {best} :
           sc[best] > sc[other] \/ (sc[best] = sc[other] /\ best < other)
<1> DEFINE Beats(a, b) == sc[a] > sc[b] \/ (sc[a] = sc[b] /\ a < b)
           Upto(k) == {d \in D : d <= k}
           HasBest(k) == \E b \in Upto(k) : \A other \in Upto(k) \ {b} : Beats(b, other)
           Bad == {k \in 0..n : Upto(k) # {} /\ ~HasBest(k)}
<1>1. D \subseteq Nat /\ \A d \in D : d <= n /\ sc[d] \in Int
  OBVIOUS
<1>2. Upto(n) = D
  BY <1>1
<1>3. ASSUME NEW k \in Nat, k <= n, \A j \in Bad : k <= j, Upto(k) # {}
      PROVE  HasBest(k)
  <2>1. CASE \A d \in Upto(k) : d = k
    BY <1>3, <2>1
  <2>2. CASE \E d \in Upto(k) : d # k
    <3>1. PICK j \in Nat : k = j + 1
      <4>1. PICK d \in Nat : d <= k /\ d # k
        BY <1>1, <2>2
      <4>2. k - 1 \in Nat /\ k = (k - 1) + 1
        BY <4>1
      <4> QED BY <4>2
    <3>2. Upto(j) = Upto(k) \ {k}
      <4>1. ASSUME NEW d \in Nat PROVE d <= j <=> d <= k /\ d # k
        BY <3>1
      <4> QED BY <1>1, <4>1
    <3>3. j \notin Bad /\ j \in 0..n
      <4>1. j <= n /\ ~(k <= j)
        BY <1>3, <3>1
      <4> HIDE DEF Bad
      <4> QED BY <1>3, <4>1
    <3> HIDE DEF Upto, Beats
    <3>4. HasBest(j)
      BY <2>2, <3>2, <3>3
    <3>5. PICK b \in Upto(j) : \A other \in Upto(j) \ {b} : Beats(b, other)
      BY <3>4
    <3>6. CASE k \notin Upto(k)
      BY <3>2, <3>5, <3>6
    <3>7. CASE k \in Upto(k) /\ Beats(b, k)
      BY <3>2, <3>5, <3>7
    <3>8. CASE k \in Upto(k) /\ ~Beats(b, k)
      <4>1. k \in D /\ b \in D /\ b < k
        <5>1. b <= j /\ b \in D /\ k \in D
          BY <3>5, <3>8 DEF Upto
        <5> QED BY <1>1, <3>1, <5>1
      <4>2. sc[b] \in Int /\ sc[k] \in Int /\ sc[k] > sc[b]
        BY <1>1, <3>8, <4>1 DEF Beats
      <4>3. ASSUME NEW d \in Upto(k), d # k PROVE Beats(k, d)
        <5>1. d \in D /\ sc[d] \in Int /\ (d = b \/ Beats(b, d))
          BY <1>1, <3>2, <3>5, <4>3 DEF Upto
        <5>2. sc[b] >= sc[d]
          BY <4>2, <5>1 DEF Beats
        <5> QED BY <4>2, <5>1, <5>2 DEF Beats
      <4> QED BY <3>8, <4>3
    <3> QED BY <3>6, <3>7, <3>8
  <2> QED BY <2>1, <2>2
<1>4. Bad = {}
  <2> SUFFICES ASSUME Bad # {} PROVE FALSE
    OBVIOUS
  <2>1. Bad \in SUBSET Nat /\ \A k \in Bad : k <= n /\ Upto(k) # {} /\ ~HasBest(k)
    OBVIOUS
  <2> HIDE DEF Bad, HasBest, Upto
  <2>2. PICK k \in Bad : \A j \in Bad : k <= j
    BY <2>1, LeastElement
  <2> QED BY <1>3, <2>1, <2>2
<1>5. n \in 0..n /\ Upto(n) # {}
  BY <1>2
<1>6. HasBest(n)
  BY <1>4, <1>5
<1> QED BY <1>2, <1>6

\* Two selections that each leave out only what better ones justify are one: the
\* best lag that is in one of them only has no justification in the other.
LEMMA OneBestSelection ==
  ASSUME IInv, pc = "project",
         NEW A \in SUBSET Lags, NEW B \in SUBSET Lags,
         IsBestSelection(A), IsBestSelection(B)
  PROVE  A = B
<1> USE DEF IInv
<1> DEFINE n == SliceLength - Length
<1>1. /\ n \in Nat /\ Lags = 0..n /\ scores \in [0..n -> Int]
  <2>1. Length \in Nat /\ SliceLength \in Int /\ SliceLength >= Length
    BY BodyTypes DEF Place, Scanning
  <2>2. scores \in [0..n -> Scores] /\ Scores \subseteq Int
    BY MatchingAssumption DEF TypeOK
  <2>3. n \in Nat
    BY <2>1
  <2>4. scores \in [0..n -> Int]
    BY <2>2
  <2> QED BY <2>3, <2>4 DEF Lags
<1> HIDE DEF n
<1>2. ASSUME NEW S \in SUBSET Lags, NEW T \in SUBSET Lags, NEW d \in S \ T,
             IsBestSelection(S), IsBestSelection(T),
             \A other \in (S \ T) \cup (T \ S) : other # d => Better(d, other)
      PROVE  FALSE
  <2>1. ASSUME NEW t \in T, Better(t, d) PROVE t \in S
    <3>1. t # d /\ t \in Int /\ d \in Int /\ scores[t] \in Int /\ scores[d] \in Int
      BY <1>1, <1>2
    <3>2. ~Better(d, t)
      BY <2>1, <3>1 DEF Better
    <3> QED BY <1>2, <3>1, <3>2
  <2>2. CASE \E taken \in T : Better(taken, d) /\ Span(taken) \cap Span(d) # {}
    <3>1. PICK taken \in T : Better(taken, d) /\ Span(taken) \cap Span(d) # {}
      BY <2>2
    <3>2. taken \in S /\ taken # d
      BY <1>2, <2>1, <3>1
    <3> QED BY <1>2, <3>1, <3>2 DEF IsBestSelection
  <2>3. CASE Cardinality(T) = MaxOccurrences /\ \A taken \in T : Better(taken, d)
    <3>1. T \subseteq S \ {d}
      BY <1>2, <2>1, <2>3
    <3>2. IsFiniteSet(S) /\ IsFiniteSet(T)
      <4>1. IsFiniteSet(0..n)
        BY <1>1, FS_Interval
      <4> QED BY <1>1, <4>1, FS_Subset
    <3>3. /\ IsFiniteSet(T \cup {d}) /\ Cardinality(T \cup {d}) = Cardinality(T) + 1
      BY <1>2, <3>2, FS_AddElement
    <3>4. Cardinality(T \cup {d}) <= Cardinality(S)
      <4>1. T \cup {d} \subseteq S
        BY <1>2, <3>1
      <4> QED BY <3>2, <4>1, FS_Subset
    <3>5. Cardinality(S) <= MaxOccurrences /\ Cardinality(S) \in Nat
      BY <1>2, <3>2, FS_CardinalityType DEF IsBestSelection
    <3>6. MaxOccurrences \in Nat
      BY MatchingAssumption
    <3> QED BY <2>3, <3>3, <3>4, <3>5, <3>6
  <2>4. d \in Lags \ T /\ scores[d] >= Threshold
    BY <1>2 DEF IsBestSelection
  <2> QED BY <1>2, <2>2, <2>3, <2>4 DEF IsBestSelection
<1> SUFFICES ASSUME A # B PROVE FALSE
  OBVIOUS
<1> DEFINE D == (A \ B) \cup (B \ A)
<1>3. PICK d \in D : \A other \in D \ {d} :
        scores[d] > scores[other] \/ (scores[d] = scores[other] /\ d < other)
  <2>1. D \in SUBSET (0..n) /\ D # {}
    BY <1>1
  <2> HIDE DEF D
  <2> QED BY <1>1, <2>1, BestExists
<1>4. \A other \in D : other # d => Better(d, other)
  BY <1>3 DEF Better
<1>5. CASE d \in A \ B
  BY <1>2, <1>4, <1>5
<1>6. CASE d \in B \ A
  <2>1. \A other \in (B \ A) \cup (A \ B) : other # d => Better(d, other)
    BY <1>4
  <2> QED BY <1>2, <1>6, <2>1
<1> QED BY <1>3, <1>5, <1>6

\* The scan ends with a selection of that kind.
LEMMA ScanEndsBest ==
  ASSUME IInv, pc = "project", method = "multi"
  PROVE  IsBestSelection(selected)
<1>1. pending = {} /\ selected \subseteq AcceptedLags /\ Cardinality(selected) <= MaxOccurrences
  BY DEF IInv, Scan, NothingBetterIsDropped
<1>2. \A lag \in selected : scores[lag] >= Threshold
  BY <1>1 DEF AcceptedLags
<1>3. \A a, b \in selected : a # b => Span(a) \cap Span(b) = {}
  BY DEF IInv, OccurrencesShareNoSample
<1>4. \A lag \in Lags \ selected :
        scores[lag] >= Threshold =>
          \/ \E taken \in selected : Better(taken, lag) /\ Span(taken) \cap Span(lag) # {}
          \/ Cardinality(selected) = MaxOccurrences /\ \A taken \in selected : Better(taken, lag)
  BY <1>1 DEF IInv, NothingBetterIsDropped
<1> QED BY <1>1, <1>2, <1>3, <1>4 DEF IsBestSelection

-----------------------------------------------------------------------------
(***************************************************************************)
(* The theorems.                                                           *)
(***************************************************************************)

\* The invariant is inductive.
LEMMA NextKeeps == ASSUME IInv, [Next]_vars PROVE IInv'
<1>1. CASE Slice
  BY <1>1, SliceKeeps
<1>2. CASE RejectInput \/ MatcherFails
  BY <1>2, RejectAndFailKeep
<1>3. CASE MatchSingle
  BY <1>3, MatchSingleKeeps
<1>4. CASE MatchMulti
  BY <1>4, MatchMultiKeeps
<1>5. CASE Consider
  <2>1. PICK lag \in pending : IsFirst(lag, pending) /\ (Suppress(lag) \/ Select(lag))
    BY <1>5 DEF Consider
  <2> QED BY <1>5, <2>1, SuppressKeeps, SelectKeeps
<1>6. CASE Project
  BY <1>6, ProjectKeeps
<1>7. CASE UNCHANGED vars
  BY <1>7 DEF vars, IInv, TypeOK, Place, Scan, Single, Scanning,
     OccurrencesShareNoSample, NothingBetterIsDropped, OccurrencesInWindow,
     Lags, Length, SliceLength, AcceptedLags, IsFirst, Precedes, Better, Span
<1> QED BY <1>1, <1>2, <1>3, <1>4, <1>5, <1>6, <1>7 DEF Next, Returned

\* The verdict follows from what the scan keeps.
LEMMA InvariantGivesVerdict == ASSUME IInv PROVE VerdictOfTheBestLag
<1> USE MatchingAssumption DEF IInv
<1> SUFFICES ASSUME pc = "project"
             PROVE  /\ (selected # {}) <=> (\E lag \in Lags : scores[lag] >= Threshold)
                    /\ \A lag \in Lags :
                         /\ scores[lag] >= Threshold
                         /\ \A other \in Lags \ {lag} : Better(lag, other)
                         => lag \in selected
  BY DEF VerdictOfTheBestLag
<1>1. /\ pending = {} /\ selected \subseteq AcceptedLags /\ IsFiniteSet(selected)
  BY DEF Scan
<1>2. Lags \subseteq Int /\ \A lag \in Lags : scores[lag] \in Int
  <2>1. SliceLength \in Int /\ Length \in Nat
    BY BodyTypes
  <2>2. scores \in [0..(SliceLength - Length) -> Scores]
    BY DEF TypeOK
  <2>3. Lags = 0..(SliceLength - Length)
    BY <2>2 DEF Lags
  <2>4. Lags \subseteq Int
    BY <2>1, <2>3, SMT
  <2>5. \A lag \in Lags : scores[lag] \in Scores
    BY <2>2, <2>3
  <2>6. Scores \subseteq Int
    OBVIOUS
  <2> QED BY <2>4, <2>5, <2>6
<1>3. ASSUME NEW a \in Lags, NEW b \in Lags, Better(a, b) PROVE ~Better(b, a)
  BY <1>2, <1>3, SMT DEF Better
<1>4. ASSUME NEW a \in Lags, NEW b \in Lags, Better(a, b), scores[b] >= Threshold
      PROVE  scores[a] >= Threshold
  BY <1>2, <1>4, SMT DEF Better
<1>5. CASE method = "single"
  <2>1. PICK best \in Lags :
          IsFirst(best, Lags) /\ selected = {best} \cap AcceptedLags
    BY <1>5 DEF Single
  <2>2. \A other \in Lags \ {best} : Better(best, other)
    BY <2>1 DEF IsFirst, Precedes, Better
  <2>3. ASSUME NEW lag \in Lags, scores[lag] >= Threshold PROVE selected = {best}
    BY <1>4, <2>1, <2>2, <2>3 DEF AcceptedLags
  <2>4. ASSUME NEW lag \in Lags, \A other \in Lags \ {lag} : Better(lag, other)
        PROVE  lag = best
    BY <1>3, <2>1, <2>2, <2>4
  <2> QED BY <1>1, <2>3, <2>4 DEF AcceptedLags
<1>6. CASE method = "multi"
  <2>1. Cardinality(selected) = MaxOccurrences => selected # {}
    BY FS_EmptySet
  <2>2. ASSUME NEW lag \in Lags, scores[lag] >= Threshold, lag \notin selected
        PROVE  \E taken \in selected : Better(taken, lag)
    BY <1>1, <1>6, <2>1, <2>2 DEF NothingBetterIsDropped
  <2>3. ASSUME NEW lag \in Lags, scores[lag] >= Threshold,
               \A other \in Lags \ {lag} : Better(lag, other)
        PROVE  lag \in selected
    BY <1>1, <1>3, <2>2, <2>3 DEF AcceptedLags
  <2> QED BY <1>1, <2>2, <2>3 DEF AcceptedLags
<1> QED BY <1>5, <1>6 DEF TypeOK, Methods

\* The invariant of the scan holds in every state.
LEMMA Invariance == Spec => []IInv
BY InitEstablishes, NextKeeps, PTL DEF Spec

\* Type correctness of the loop, whatever the cues and the scores.
THEOREM TypeCorrect == Spec => []TypeOK
<1>1. IInv => TypeOK
  BY DEF IInv
<1> QED BY Invariance, <1>1, PTL

\* No two occurrences of a cue share a sample, for every vector of scores.
THEOREM NoOverlap == Spec => []OccurrencesShareNoSample
<1>1. IInv => OccurrencesShareNoSample
  BY DEF IInv
<1> QED BY Invariance, <1>1, PTL

\* A candidate is dropped only for better ones: the scan is greedy by score.
THEOREM BestFirst == Spec => []NothingBetterIsDropped
<1>1. IInv => NothingBetterIsDropped
  BY DEF IInv
<1> QED BY Invariance, <1>1, PTL

\* The occurrences of a cue are the one best selection of its lags, whatever the
\* scores, the threshold and the cap.
THEOREM SelectionIsDetermined == Spec => []SelectionIsTheBest
<1>1. IInv => SelectionIsTheBest
  <2> SUFFICES ASSUME IInv, pc = "project", method = "multi", NEW lags \in SUBSET Lags
               PROVE  IsBestSelection(lags) <=> lags = selected
    BY DEF SelectionIsTheBest
  <2>1. selected \in SUBSET Lags /\ IsBestSelection(selected)
    BY ScanEndsBest DEF IInv, TypeOK
  <2> QED BY <2>1, OneBestSelection
<1> QED BY Invariance, <1>1, PTL

\* The two matchers agree on whether a cue is found, and on its best lag.
THEOREM MatchersAgree == Spec => []VerdictOfTheBestLag
<1>1. IInv => VerdictOfTheBestLag
  BY InvariantGivesVerdict
<1> QED BY Invariance, <1>1, PTL

\* The checks at creation, in seconds, cover those at execution, in samples.
THEOREM CreationCoversExecution == Spec => []AcceptedWindowNeverRaises
<1>1. IInv => AcceptedWindowNeverRaises
  BY DEF IInv, Place, AcceptedWindowNeverRaises
<1> QED BY Invariance, <1>1, PTL

\* Every occurrence lies in the window asked for, to half a sample.
THEOREM WithinTheWindow == Spec => []OccurrencesInWindow
<1>1. IInv => OccurrencesInWindow
  BY DEF IInv
<1> QED BY Invariance, <1>1, PTL

-----------------------------------------------------------------------------
(***************************************************************************)
(* The call comes to its end.                                              *)
(***************************************************************************)

\* The cues before the current one, and they alone, have an outcome.
OutcomeInv ==
  /\ \A c \in CueIndices : outcomes[c].kind # "not_yet" <=> c < current
  /\ pc = "done" => current = CueCount + 1
  /\ pc = "scan" => pending # {}

\* What a step does to the outcomes, to the place in the loop and to the scan.
Concluded ==
  /\ \A c \in CueIndices \ {current} : outcomes'[c] = outcomes[c]
  /\ outcomes'[current].kind # "not_yet"
  /\ current' = current + 1
  /\ pc' = IF current = CueCount THEN "done" ELSE "slice"

Advanced ==
  /\ UNCHANGED <<outcomes, current>>
  /\ pc' \in {"match", "scan", "project"}
  /\ Stage' > Stage \/ (Stage' = Stage /\ pending' \subseteq pending /\ pending' # pending)
  /\ pc' = "scan" => pending' # {}

\* An outcome other than not_yet, for the cue the loop is at.
LEMMA ConcludeConcludes ==
  ASSUME IInv, NEW kind \in {"failure", "no_match", "occurrences"}, NEW at,
         Conclude(Outcome(kind, at)), pc \in {"match", "project"}
  PROVE  Concluded
<1>1. current \in CueIndices
  BY BodyTypes
<1>2. outcomes'[current] = Outcome(kind, at)
      /\ \A c \in CueIndices \ {current} : outcomes'[c] = outcomes[c]
  BY <1>1 DEF IInv, TypeOK, Conclude
<1> QED BY <1>2 DEF Concluded, Conclude, Outcome

\* One disjunct of Next after the other.
LEMMA EveryStepAdvances ==
  ASSUME IInv, IInv', Next, pc # "done"
  PROVE  Concluded \/ Advanced
<1>0. pc # "raised" /\ pc' # "raised"
  BY DEF IInv, Place
<1>1. CASE Slice
  BY <1>0, <1>1 DEF Slice, Advanced, Stage
<1>2. CASE RejectInput \/ MatcherFails
  <2>1. pc = "match" /\ \E kind \in {"failure", "no_match"} : Conclude(Outcome(kind, {}))
    BY <1>2 DEF RejectInput, MatcherFails, Matchable
  <2> QED BY <2>1, ConcludeConcludes
<1>3. CASE MatchSingle \/ MatchMulti
  <2>1. /\ pc = "match" /\ pc' \in {"scan", "project"} /\ UNCHANGED <<outcomes, current>>
        /\ pc' = "scan" => pending' # {}
    BY <1>3 DEF MatchSingle, MatchMulti, Matchable
  <2> QED BY <2>1 DEF Advanced, Stage
<1>4. CASE Consider
  <2>1. PICK lag \in pending : Suppress(lag) \/ Select(lag)
    BY <1>4 DEF Consider
  <2>2. pending' \subseteq pending /\ lag \notin pending'
    BY <2>1 DEF Suppress, Select
  <2>3. /\ pc = "scan" /\ pc' = IF pending' = {} THEN "project" ELSE "scan"
        /\ UNCHANGED <<outcomes, current>>
    BY <1>4 DEF Consider
  <2> QED BY <2>1, <2>2, <2>3 DEF Advanced, Stage
<1>5. CASE Project
  <2>1. pc = "project" /\ \E kind \in {"no_match", "occurrences"}, at \in {{}, Rebased} :
                            Conclude(Outcome(kind, at))
    BY <1>5 DEF Project
  <2> QED BY <2>1, ConcludeConcludes
<1> QED BY <1>0, <1>1, <1>2, <1>3, <1>4, <1>5 DEF Next, Returned

\* The invariant of the outcomes.
LEMMA OutcomesStay ==
  ASSUME IInv, IInv', OutcomeInv, [Next]_vars
  PROVE  OutcomeInv'
<1>0. /\ current \in 1..(CueCount + 1) /\ CueCount \in Nat /\ CueIndices \subseteq Nat
      /\ CueIndices = 1..CueCount
  BY MatchingAssumption DEF IInv, TypeOK, CueIndices
<1>1. CASE Concluded
  <2>1. ASSUME NEW c \in CueIndices PROVE outcomes'[c].kind # "not_yet" <=> c < current'
    <3>1. CASE c = current
      BY <1>0, <1>1, <3>1 DEF Concluded
    <3>2. CASE c # current
      <4>1. c < current + 1 <=> c < current
        BY <1>0, <3>2
      <4> QED BY <1>1, <3>2, <4>1 DEF Concluded, OutcomeInv
    <3> QED BY <3>1, <3>2
  <2>2. pc' \in {"done", "slice"} /\ (pc' = "done" => current' = CueCount + 1)
    BY <1>1 DEF Concluded
  <2> QED BY <2>1, <2>2 DEF OutcomeInv
<1>2. CASE Advanced
  BY <1>2 DEF Advanced, OutcomeInv
<1>3. CASE pc = "done" \/ UNCHANGED vars
  <2>1. UNCHANGED vars
    BY <1>3 DEF Next, Slice, RejectInput, MatcherFails, MatchSingle, MatchMulti, Matchable,
                Consider, Project, Returned
  <2> QED BY <2>1 DEF vars, OutcomeInv
<1> QED BY <1>1, <1>2, <1>3, EveryStepAdvances

\* The invariant of the outcomes holds in every state.
LEMMA OutcomesInvariance == Spec => []OutcomeInv
<1>1. Init => OutcomeInv
  <2>1. Init => CueIndices \subseteq Nat \ {0}
    BY MatchingAssumption DEF CueIndices
  <2> QED BY <2>1 DEF Init, OutcomeInv, NotYet, Outcome
<1>2. IInv /\ IInv' /\ OutcomeInv /\ [Next]_vars => OutcomeInv'
  BY OutcomesStay
<1> QED BY <1>1, <1>2, Invariance, PTL DEF Spec

\* Every call that returns is complete: the safety half of EveryCueGetsAnOutcome.
THEOREM ReturnIsComplete == Spec => []ReturnsAreComplete
<1>1. OutcomeInv => ReturnsAreComplete
  <2>1. \A c \in CueIndices : c < CueCount + 1
    BY MatchingAssumption DEF CueIndices
  <2> QED BY <2>1 DEF OutcomeInv, ReturnsAreComplete
<1> QED BY <1>1, OutcomesInvariance, PTL

\* The scan is never without a next candidate.
THEOREM ScanHasNext == Spec => []ScanGoesOn
<1>1. IInv /\ OutcomeInv => ScanGoesOn
  <2> SUFFICES ASSUME IInv, OutcomeInv, pc = "scan"
               PROVE  \E lag \in pending : IsFirst(lag, pending)
    BY DEF ScanGoesOn
  <2>1. /\ SliceLength - Length \in Nat /\ scores \in [0..(SliceLength - Length) -> Scores]
        /\ pending \in SUBSET (0..(SliceLength - Length)) /\ pending # {}
    <3>1. SliceLength \in Int /\ Length \in Nat /\ SliceLength >= Length
      BY BodyTypes DEF IInv, Place, Scanning
    <3>2. scores \in [0..(SliceLength - Length) -> Scores] /\ pending \subseteq Lags
      BY DEF IInv, TypeOK
    <3>3. SliceLength - Length \in Nat
      BY <3>1
    <3> QED BY <3>2, <3>3 DEF OutcomeInv, Lags
  <2>2. scores \in [0..(SliceLength - Length) -> Int]
    BY <2>1, MatchingAssumption
  <2> QED BY <2>1, <2>2, BestExists DEF IsFirst, Precedes
<1> QED BY <1>1, Invariance, OutcomesInvariance, PTL

\* Every step of the call leads towards its return, and no outcome is given twice.
THEOREM CallsAdvance == Spec => CallAdvances
<1>1. IInv /\ IInv' /\ OutcomeInv /\ [Next]_vars
      => [/\ \A c \in CueIndices :
               outcomes[c].kind # "not_yet" => outcomes'[c] = outcomes[c]
          /\ pc # "done" =>
               \/ current' = current + 1
               \/ current' = current /\ Stage' > Stage
               \/ /\ current' = current /\ Stage' = Stage
                  /\ pending' \subseteq pending /\ pending' # pending
         ]_vars
  <2> SUFFICES ASSUME IInv, IInv', OutcomeInv, Next, pc # "done"
               PROVE  /\ \A c \in CueIndices :
                           outcomes[c].kind # "not_yet" => outcomes'[c] = outcomes[c]
                      /\ \/ current' = current + 1
                         \/ current' = current /\ Stage' > Stage
                         \/ /\ current' = current /\ Stage' = Stage
                            /\ pending' \subseteq pending /\ pending' # pending
    <3>1. pc = "done" /\ Next => UNCHANGED vars
      BY DEF Next, Slice, RejectInput, MatcherFails, MatchSingle, MatchMulti, Matchable,
             Consider, Project, Returned
    <3> QED BY <3>1
  <2>1. current \in 1..(CueCount + 1) /\ CueCount \in Nat
    BY MatchingAssumption DEF IInv, TypeOK
  <2>2. \A c \in CueIndices : outcomes[c].kind # "not_yet" => c # current
    BY <2>1 DEF OutcomeInv
  <2>3. CASE Concluded
    BY <2>2, <2>3 DEF Concluded
  <2>4. CASE Advanced
    BY <2>4 DEF Advanced
  <2> QED BY <2>3, <2>4, EveryStepAdvances
<1> QED BY <1>1, Invariance, OutcomesInvariance, PTL DEF Spec, CallAdvances
=============================================================================
