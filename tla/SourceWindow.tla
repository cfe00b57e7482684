---------------------------- MODULE SourceWindow ----------------------------
(***************************************************************************)
(* The part of the source a cue is searched in: checked once in seconds    *)
(* when the Analysis is created (create_analysis.py), applied in samples   *)
(* when it runs (multi_cue_orchestration.py), by two pieces of code that   *)
(* never call each other.                                                  *)
(*                                                                         *)
(* A time is a number of quarters of a sample period: rounding to a sample *)
(* tells apart only less than a half, a half, and more.                    *)
(***************************************************************************)
EXTENDS Integers

UnitsPerSample == 4

NoBound == -1                       \* the None of an omitted bound

Times == Nat \cup {NoBound}

Window == [start : Times, end : Times]

Duration(samples) == samples * UnitsPerSample

\* Python's round(): to the nearest sample, a half to the even one.
Round(time) ==
  LET whole == time \div UnitsPerSample
      part == time % UnitsPerSample
      up == part > 2 \/ (part = 2 /\ whole % 2 = 1)
  IN whole + (IF up THEN 1 ELSE 0)

StartTime(window) == IF window.start = NoBound THEN 0 ELSE window.start

EndTime(window, samples) ==
  IF window.end = NoBound THEN Duration(samples) ELSE window.end

StartIndex(window) == Round(StartTime(window))

EndIndex(window, samples) ==
  IF window.end = NoBound THEN samples ELSE Round(window.end)

\* CueRequest.__post_init__, then _validate_source_search_window: what the
\* creation of an Analysis lets through.
CreationAccepts(window, samples) ==
  /\ StartTime(window) < Duration(samples)
  /\ EndTime(window, samples) <= Duration(samples)
  /\ StartTime(window) < EndTime(window, samples)
  /\ EndIndex(window, samples) - StartIndex(window) >= 1

\* SourceSearchWindow.__post_init__, built by the executor from the record.
WindowRaises(window) ==
  /\ window.start # NoBound /\ window.end # NoBound
  /\ window.start >= window.end

\* Mutant of SliceRaises: the end of the source is not a legal end of a window.
SliceRaisesAtEnd(window, samples) ==
  window.end # NoBound /\ window.end >= Duration(samples)

\* The three ValueErrors of _source_slice.
SliceRaises(window, samples) ==
  /\ window.start # NoBound \/ window.end # NoBound
  /\ \/ StartTime(window) >= Duration(samples)
     \/ window.end # NoBound /\ window.end > Duration(samples)
     \/ EndIndex(window, samples) <= StartIndex(window)

\* The slice source[first:last], whose first sample is also the offset that
\* _rebase_occurrence_times adds.
SourceSlice(window, samples) ==
  [first |-> StartIndex(window), last |-> EndIndex(window, samples)]
=============================================================================
