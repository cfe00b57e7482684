----------------------------- MODULE CueMatching -----------------------------
(***************************************************************************)
(* run_multi_cue_analysis: every cue of a claimed Analysis is searched in  *)
(* its own slice of one source, by the single-best matcher (match_cue) or  *)
(* by the multi-occurrence one, whose greedy scan takes the accepted lags  *)
(* by falling score and rejects those that overlap a lag already taken.    *)
(*                                                                         *)
(* Audio is its length. The correlation is any vector of scores, and it    *)
(* may fail; scores are integers, of which only the order matters.         *)
(***************************************************************************)
EXTENDS SourceWindow, FiniteSets

CONSTANTS
  CueCount,        \* number of cues of the Analysis
  SourceLengths,   \* lengths of a canonical source, in samples
  CueLengths,      \* lengths of a canonical cue, in samples
  Windows,         \* search windows a client asks for
  Requests,        \* the Analyses considered: a source and what is asked of it
  Scores,          \* values of a correlation
  Threshold,       \* acceptance_threshold
  MaxOccurrences   \* MAX_OCCURRENCES_PER_CUE

ASSUME MatchingAssumption ==
  /\ CueCount \in Nat \ {0}
  /\ SourceLengths \subseteq Nat
  /\ CueLengths \subseteq Nat
  /\ Windows \subseteq Window
  /\ Scores \subseteq Int
  /\ Threshold \in Int
  /\ MaxOccurrences \in Nat \ {0}

VARIABLES
  method,       \* configuration.method of the record
  samples,      \* length of the source
  cues,         \* what is asked of each cue
  current,      \* cue the loop is at
  pc,           \* place in the loop body
  slice,        \* its slice of the source
  scores,       \* its score of every lag
  pending,      \* accepted lags the scan has yet to consider
  selected,     \* lags taken
  outcomes      \* the dict the call returns

vars == <<method, samples, cues, current, pc, slice, scores, pending,
          selected, outcomes>>

CueIndices == 1..CueCount

Methods == {"single", "multi"}

Cue == [window : Windows, length : CueLengths]

Outcome(kind, at) == [kind |-> kind, at |-> at]

NotYet == Outcome("not_yet", {})

Lags == DOMAIN scores

Length == cues[current].length

-----------------------------------------------------------------------------
(* The order and the overlap test of the scan. *)

\* Mutant of Precedes: the candidates are scanned in chronological order.
PrecedesInTime(a, b) == a < b

Precedes(a, b) ==
  scores[a] > scores[b] \/ (scores[a] = scores[b] /\ a < b)

\* Mutant of Overlap: windows that share one sample pass for disjoint.
OverlapByTwo(a, b) == ~(a + Length <= b + 1 \/ b + Length <= a + 1)

Overlap(a, b) == ~(a + Length <= b \/ b + Length <= a)

\* Mutant of AcceptedLags: a score at the threshold is refused.
AcceptedLagsAbove == {lag \in Lags : scores[lag] > Threshold}

AcceptedLags == {lag \in Lags : scores[lag] >= Threshold}

IsFirst(lag, among) == \A other \in among \ {lag} : Precedes(lag, other)

-----------------------------------------------------------------------------
Init ==
  /\ method \in Methods
  /\ \E r \in Requests : samples = r.samples /\ cues = r.cues
  /\ samples \in SourceLengths
  /\ cues \in {asked \in [CueIndices -> Cue] :
                 \A c \in CueIndices : CreationAccepts(asked[c].window, samples)}
  /\ current = 1
  /\ pc = "slice"
  /\ slice = [first |-> 0, last |-> 0]
  /\ scores = [lag \in {} |-> 0]
  /\ pending = {}
  /\ selected = {}
  /\ outcomes = [c \in CueIndices |-> NotYet]

\* An error of the window leaves the loop: the whole call raises.
Slice ==
  LET window == cues[current].window IN
  /\ pc = "slice"
  /\ IF WindowRaises(window) \/ SliceRaises(window, samples)
       THEN pc' = "raised" /\ UNCHANGED slice
       ELSE pc' = "match" /\ slice' = SourceSlice(window, samples)
  /\ UNCHANGED <<method, samples, cues, current, scores, pending, selected,
                 outcomes>>

\* outcomes[cue_id] = ..., and on to the next cue.
Conclude(outcome) ==
  /\ outcomes' = [outcomes EXCEPT ![current] = outcome]
  /\ current' = current + 1
  /\ pc' = IF current = CueCount THEN "done" ELSE "slice"
  /\ scores' = [lag \in {} |-> 0]
  /\ selected' = {}
  /\ UNCHANGED <<method, samples, cues, slice, pending>>

SliceLength == slice.last - slice.first

\* An empty cue is invalid_input; a slice shorter than the cue is no_match.
RejectInput ==
  /\ pc = "match"
  /\ \/ Length = 0 /\ Conclude(Outcome("failure", {}))
     \/ Length > 0 /\ SliceLength < Length /\ Conclude(Outcome("no_match", {}))

Matchable == pc = "match" /\ Length > 0 /\ SliceLength >= Length

\* Mutant of MatcherFails: a failing matcher ends the loop.
MatcherFailsForAll ==
  /\ Matchable
  /\ pc' = "raised"
  /\ UNCHANGED <<method, samples, cues, current, slice, scores, pending,
                 selected, outcomes>>

\* An exception of the matcher is processing_failure: this cue's alone.
MatcherFails == Matchable /\ Conclude(Outcome("failure", {}))

\* match_cue: numpy.argmax, then the threshold.
MatchSingle ==
  /\ Matchable
  /\ method = "single"
  /\ scores' \in [0..(SliceLength - Length) -> Scores]
  /\ \E best \in Lags' :
       /\ IsFirst(best, Lags)'
       /\ selected' = {best} \cap AcceptedLags'
  /\ pc' = "project"
  /\ UNCHANGED <<method, samples, cues, current, slice, pending, outcomes>>

\* match_cue_occurrences up to the scan.
MatchMulti ==
  /\ Matchable
  /\ method = "multi"
  /\ scores' \in [0..(SliceLength - Length) -> Scores]
  /\ pending' = AcceptedLags'
  /\ pc' = IF pending' = {} THEN "project" ELSE "scan"
  /\ UNCHANGED <<method, samples, cues, current, slice, selected, outcomes>>

Suppressed(lag) == \E chosen \in selected : Overlap(lag, chosen)

\* One turn of the scan that meets an overlap: continue.
Suppress(lag) ==
  /\ Suppressed(lag)
  /\ pending' = pending \ {lag}
  /\ UNCHANGED selected

\* One that does not: append, and break at the cap.
Select(lag) ==
  /\ ~Suppressed(lag)
  /\ selected' = selected \cup {lag}
  /\ pending' = IF Cardinality(selected') = MaxOccurrences
                  THEN {}
                  ELSE pending \ {lag}

Consider ==
  /\ pc = "scan"
  /\ \E lag \in pending : IsFirst(lag, pending) /\ (Suppress(lag) \/ Select(lag))
  /\ pc' = IF pending' = {} THEN "project" ELSE "scan"
  /\ UNCHANGED <<method, samples, cues, current, slice, scores, outcomes>>

\* Mutant of Rebased: times are left on the timeline of the slice.
NotRebased == selected

\* _rebase_occurrence_times.
Rebased == {slice.first + lag : lag \in selected}

\* _to_per_cue_outcome, _to_multi_per_cue_outcome.
Project ==
  /\ pc = "project"
  /\ Conclude(IF selected = {}
                THEN Outcome("no_match", {})
                ELSE Outcome("occurrences", Rebased))

Returned == pc \in {"done", "raised"} /\ UNCHANGED vars

Next ==
  \/ Slice \/ RejectInput \/ MatcherFails \/ MatchSingle \/ MatchMulti
  \/ Consider \/ Project \/ Returned

Spec == Init /\ [][Next]_vars /\ WF_vars(Next)

-----------------------------------------------------------------------------
(* Properties. They state overlap with the samples a cue covers and order  *)
(* with scores and lags, not with the operators of the scan.               *)

Span(lag) == lag..(lag + Length - 1)

Better(a, b) ==
  scores[a] > scores[b] \/ (scores[a] = scores[b] /\ a < b)

\* Every variable has its type; the lags of a cue are those whose window of
\* cue length fits its slice.
TypeOK ==
  /\ method \in Methods
  /\ samples \in SourceLengths
  /\ cues \in [CueIndices -> Cue]
  /\ current \in 1..(CueCount + 1)
  /\ pc \in {"slice", "match", "scan", "project", "done", "raised"}
  /\ pc \in {"slice", "match", "scan", "project", "raised"} => current <= CueCount
  /\ slice \in [first : Nat, last : Nat]
  /\ pc \in {"scan", "project"} => scores \in [0..(SliceLength - Length) -> Scores]
  /\ pending \subseteq Lags
  /\ selected \subseteq Lags
  /\ outcomes \in [CueIndices -> [kind : {"not_yet", "occurrences", "no_match",
                                          "failure"},
                                  at : SUBSET Nat]]

\* No two occurrences of a cue share a sample: the half-open window test of
\* _select_non_overlapping_candidates, whatever the order of the scan.
OccurrencesShareNoSample ==
  pc \in {"scan", "project"} =>
    \A a, b \in selected : a # b => Span(a) \cap Span(b) = {}

\* The scan drops a candidate only for a better one it took, or because the
\* cap of better ones is reached: a selection a caller can rely on to be the
\* best first, never one that an early weak candidate has spoiled.
NothingBetterIsDropped ==
  /\ Cardinality(selected) <= MaxOccurrences
  /\ pc \in {"scan", "project"} /\ method = "multi" =>
       \A lag \in Lags \ (selected \cup pending) :
         scores[lag] >= Threshold =>
           \/ \E taken \in selected :
                Better(taken, lag) /\ Span(taken) \cap Span(lag) # {}
           \/ /\ Cardinality(selected) = MaxOccurrences
              /\ \A taken \in selected : Better(taken, lag)

\* What a caller may expect of a set of lags: accepted ones that share no sample,
\* no more than the cap, and each left out for better ones.
IsBestSelection(lags) ==
  /\ \A lag \in lags : scores[lag] >= Threshold
  /\ \A a, b \in lags : a # b => Span(a) \cap Span(b) = {}
  /\ Cardinality(lags) <= MaxOccurrences
  /\ \A lag \in Lags \ lags :
       scores[lag] >= Threshold =>
         \/ \E taken \in lags : Better(taken, lag) /\ Span(taken) \cap Span(lag) # {}
         \/ Cardinality(lags) = MaxOccurrences /\ \A taken \in lags : Better(taken, lag)

\* Those expectations leave one answer, and the scan ends with it: the
\* occurrences of a cue are a function of its scores, which no order of the
\* candidates and no early weak one can change.
SelectionIsTheBest ==
  pc = "project" /\ method = "multi" =>
    \A lags \in SUBSET Lags : IsBestSelection(lags) <=> lags = selected

\* Both matchers give one verdict at one threshold: found when some lag
\* reaches it, and then the best lag is among the occurrences. The docs keep
\* the historical cut-off for the new method on this ground.
VerdictOfTheBestLag ==
  pc = "project" =>
    /\ (selected # {}) <=> (\E lag \in Lags : scores[lag] >= Threshold)
    /\ \A lag \in Lags :
         /\ scores[lag] >= Threshold
         /\ \A other \in Lags \ {lag} : Better(lag, other)
         => lag \in selected

\* A window the creation accepted never makes the run raise, which would fail
\* the Analysis for all its cues.
AcceptedWindowNeverRaises == pc # "raised"

\* An occurrence lies, on the timeline of the whole source, in the window its
\* client asked for, to half a sample at either end, and in the source.
OccurrencesInWindow ==
  \A c \in CueIndices : \A at \in outcomes[c].at :
    LET window == cues[c].window IN
    /\ at * UnitsPerSample >= StartTime(window) - 2
    /\ (at + cues[c].length) * UnitsPerSample <= EndTime(window, samples) + 2
    /\ at + cues[c].length <= samples

\* A call that returns has an outcome for every cue, whichever of them failed.
ReturnsAreComplete ==
  pc = "done" => \A c \in CueIndices : outcomes[c].kind # "not_yet"

\* As long as the scan runs, one of its candidates comes before all the others,
\* whatever ties there are among the scores.
ScanGoesOn == pc = "scan" => \E lag \in pending : IsFirst(lag, pending)

\* Where the loop body is.
Stage ==
  CASE pc = "slice" -> 0 [] pc = "match" -> 1 [] pc = "scan" -> 2 [] OTHER -> 3

\* Every step leads towards the return: the cue is concluded and the next one is
\* begun, the body goes on, or the scan has one candidate less.  An outcome is
\* given once, and what follows it, a failing matcher or another cue, leaves it.
CallAdvances ==
  [][/\ \A c \in CueIndices :
          outcomes[c].kind # "not_yet" => outcomes'[c] = outcomes[c]
     /\ pc # "done" =>
          \/ current' = current + 1
          \/ current' = current /\ Stage' > Stage
          \/ /\ current' = current /\ Stage' = Stage
             /\ pending' \subseteq pending /\ pending' # pending
    ]_vars

\* The call ends with an outcome for every cue, whichever of them fail: no
\* cue is dropped and none stops the others.
EveryCueGetsAnOutcome ==
  <>(\A c \in CueIndices : outcomes[c].kind # "not_yet")
=============================================================================
