------------------------- MODULE AnalysisPolling_proofs -------------------------
(***************************************************************************)
(* Proofs about AnalysisPolling, for any set of Analyses and any number of *)
(* runs of the effect.                                                     *)
(***************************************************************************)
EXTENDS AnalysisPolling, FiniteSetTheorems, TLAPS

\* Every request belongs to a run there has been, a live one to the Analysis
\* asked for, and its answer was the status at the time or an earlier one.
RequestInv ==
  /\ \A p \in polls : p.run <= run
  /\ \A p \in LivePolls : p.id = id
  /\ \A p \in polls : p.answer \in Statuses => Rank(p.answer) <= Rank(status[p.id])

\* The next step, if there is one, is a single timer or a single request.
NextStepInv ==
  /\ \A t \in timers : t.run = run /\ t.id = id
  /\ \A t, s \in timers : t = s
  /\ \A p, q \in LivePolls : p = q
  /\ timers = {} \/ LivePolls = {}
  /\ polling <=> timers # {} \/ LivePolls # {}

\* The count of failures is the number of them in a row.
CountInv == failures = streak

PollInv == RequestInv /\ NextStepInv /\ CountInv /\ OneVerdict /\ ShownIsReal

\* At most one Result request is live.
FetchInv ==
  /\ \A f, g \in fetches : f.live /\ g.live => f = g
  /\ ResultBelongsToShown

Inv == TypeOK /\ PollInv /\ FetchInv

-----------------------------------------------------------------------------
(* Helpers *)

Responses == Statuses \cup {Waiting, "error", "lost"}

\* What a status request may be.
Polls == [run : 1..MaxRuns, id : Analyses, answer : Responses]

\* What a Result request may be.
Fetches == [id : Analyses, live : BOOLEAN, answer : {Waiting, "ok", "error", "lost"}]

\* The interval grows, up to its bound.
LEMMA IntervalGrows ==
  ASSUME NEW ms \in BaseInterval..MaxInterval
  PROVE  NextInterval(ms) \in BaseInterval..MaxInterval
BY DEF NextInterval, BaseInterval, MaxInterval

\* Ranks are numbers, and a status is past `none`.
LEMMA RanksAreNumbers ==
  /\ \A s : Rank(s) \in 0..3
  /\ \A s \in Statuses : Rank(s) \in 1..3
  /\ Rank("queued") = 1 /\ Rank("running") = 2 /\ Rank("succeeded") = 3 /\ Rank("failed") = 3
BY DEF Rank, Statuses

\* Nothing is none of the statuses of an Analysis.
LEMMA NothingIsNoStatus ==
  /\ \A s \in Statuses : \A a \in Analyses : Shown(a, s) # Nothing
  /\ Nothing.status = "none" /\ Nothing.id = NoAnalysis
  /\ ~IsTerminalStatus("none")
BY PollingAssumption DEF Shown, Nothing, Statuses, IsTerminalStatus

\* What setAnalysis and the effect it causes do to the Result.
LEMMA ShowingKeepsFetches ==
  ASSUME TypeOK, FetchInv, id' \in Analyses \cup {NoAnalysis},
         NEW analysis \in [id : {id'}, status : Statuses] \cup {Nothing},
         analysis # Nothing => id' \in Analyses,
         analysis = shown => analysis = Nothing \/ id' = id,
         SetAnalysis(analysis)
  PROVE  /\ FetchInv'
         /\ fetches' \subseteq Fetches
         /\ result' \in [state : {"not_requested", "loading", "loaded", "api_error",
                                  "network_error"},
                         id : Analyses \cup {NoAnalysis}]
         /\ shown' = analysis
<1> USE DEF TypeOK, FetchInv, ResultBelongsToShown, Fetches
<1>1. shown' = analysis
  BY DEF SetAnalysis
<1>2. CASE analysis = shown
  <2>1. UNCHANGED resultVars
    BY <1>2 DEF SetAnalysis
  <2>2. CASE analysis = Nothing
    <3>1. result.state = "not_requested"
      BY <1>2, <2>2, NothingIsNoStatus DEF Shown
    <3> QED
      BY <1>1, <1>2, <2>1, <2>2, <3>1, NothingIsNoStatus DEF resultVars
  <2>3. CASE id' = id
    BY <1>1, <1>2, <2>1, <2>3 DEF resultVars
  <2> QED
    BY <1>2, <2>2, <2>3
<1>3. CASE analysis # shown
  <2>1. RunResultEffect(analysis)
    BY <1>3 DEF SetAnalysis
  <2>2. \A f \in Abandoned : f \in Fetches /\ ~f.live
    BY DEF Abandoned
  <2>3. CASE analysis.status # "succeeded"
    <3>1. /\ result' = [state |-> "not_requested", id |-> NoAnalysis]
          /\ fetches' = Abandoned
      BY <2>1, <2>3 DEF RunResultEffect
    <3> QED
      BY <1>1, <2>2, <2>3, <3>1
  <2>4. CASE analysis.status = "succeeded"
    <3> DEFINE f0 == [id |-> analysis.id, live |-> TRUE, answer |-> Waiting]
    <3>1. analysis # Nothing
      BY <2>4, NothingIsNoStatus
    <3>2. analysis.id = id' /\ id' \in Analyses /\ analysis = Shown(id', "succeeded")
      BY <2>4, <3>1 DEF Shown
    <3>3. /\ result' = [state |-> "loading", id |-> id']
          /\ fetches' = Abandoned \cup {f0}
      BY <2>1, <2>4, <3>2 DEF RunResultEffect
    <3>4. f0 \in Fetches /\ f0.live /\ f0.id = id'
      BY <3>2
    <3>5. {g \in fetches' : g.live} = {f0}
      BY <2>2, <3>3, <3>4
    <3>6. {g.id : g \in {h \in fetches' : h.live}} = {id'}
      BY <3>4, <3>5
    <3> QED
      BY <1>1, <2>2, <2>4, <3>2, <3>3, <3>4, <3>5, <3>6
  <2> QED
    BY <2>3, <2>4
<1> QED
  BY <1>1, <1>2, <1>3

-----------------------------------------------------------------------------
(* The steps *)

\* The server's own progress makes no status earlier.
LEMMA ProgressStep ==
  ASSUME Inv, NEW a \in Analyses, Progress(a)
  PROVE  Inv'
<1> USE DEF Inv, TypeOK
<1>1. UNCHANGED <<id, closureVars, timers, polls, hookVars, resultVars, streak>>
  BY DEF Progress
<1>2. /\ status' \in [Analyses -> Statuses]
      /\ \A b \in Analyses : Rank(status[b]) <= Rank(status'[b])
  <2>1. PICK s \in {"running", "succeeded", "failed"} :
          /\ status' = [status EXCEPT ![a] = s]
          /\ \/ status[a] = "queued"
             \/ status[a] = "running" /\ s # "running"
    BY DEF Progress
  <2>2. s \in Statuses /\ Rank(status[a]) <= Rank(s)
    BY <2>1, RanksAreNumbers DEF Statuses
  <2> QED
    BY <2>1, <2>2, RanksAreNumbers
<1>3. RequestInv'
  <2>1. \A p \in polls : p.id \in Analyses
    OBVIOUS
  <2> QED
    BY <1>1, <1>2, <2>1, RanksAreNumbers DEF PollInv, RequestInv, LivePolls, closureVars
<1>4. ShownIsReal'
  BY <1>1, <1>2, RanksAreNumbers DEF PollInv, ShownIsReal, hookVars, Nothing, Shown
<1>5. TypeOK'
  BY <1>1, <1>2 DEF closureVars, hookVars, resultVars
<1>6. NextStepInv' /\ CountInv' /\ OneVerdict'
  BY <1>1 DEF closureVars, hookVars, PollInv, NextStepInv, LivePolls, CountInv, OneVerdict
<1>7. FetchInv'
  BY <1>1 DEF hookVars, resultVars, FetchInv, ResultBelongsToShown
<1> QED
  BY <1>3, <1>4, <1>5, <1>6, <1>7 DEF PollInv

\* A run of the effect ends the run before it and starts over.
LEMMA RunEffectStep ==
  ASSUME Inv, NEW new \in Analyses \cup {NoAnalysis}, RunEffect(new)
  PROVE  Inv'
<1> USE PollingAssumption DEF Inv, TypeOK
<1>1. /\ run' = run + 1 /\ id' = new /\ interval' = BaseInterval /\ delay' = 0
      /\ failures' = 0 /\ streak' = 0 /\ error' = FALSE /\ lost' = FALSE
      /\ run' \in 1..MaxRuns /\ status' = status
  BY DEF RunEffect
<1>2. timers' = {}
  BY DEF RunEffect, ClearTimer, PollInv, NextStepInv
<1>3. SetAnalysis(Nothing)
  BY DEF RunEffect
<1>4. /\ FetchInv' /\ fetches' \subseteq Fetches /\ shown' = Nothing
      /\ result' \in [state : {"not_requested", "loading", "loaded", "api_error",
                               "network_error"},
                      id : Analyses \cup {NoAnalysis}]
  BY <1>1, <1>3, ShowingKeepsFetches
<1>5. /\ run' \in 0..MaxRuns /\ shown' \in {Nothing} /\ delay' \in 0..MaxInterval
      /\ interval' \in BaseInterval..MaxInterval /\ failures' \in 0..MaxTransientFailures
      /\ streak' \in 0..MaxTransientFailures
  BY <1>1, <1>4 DEF MaxInterval, BaseInterval, MaxTransientFailures
<1>6. CASE new = NoAnalysis
  <2>1. polls' = polls /\ polling' = FALSE
    BY <1>6 DEF RunEffect
  <2>2. LivePolls' = {}
    BY <1>1, <2>1 DEF LivePolls, PollInv, RequestInv
  <2>3. RequestInv' /\ NextStepInv'
    BY <1>1, <1>2, <2>1, <2>2 DEF PollInv, RequestInv, NextStepInv
  <2>4. OneVerdict'
    BY <1>1, <1>4, <1>6, <2>1, NothingIsNoStatus DEF OneVerdict, MaxTransientFailures
  <2>5. TypeOK'
    BY <1>1, <1>2, <1>4, <1>5, <2>1 DEF Fetches
  <2>6. CountInv' /\ ShownIsReal'
    BY <1>1, <1>4 DEF CountInv, ShownIsReal
  <2> QED
    BY <1>4, <2>3, <2>4, <2>5, <2>6 DEF PollInv
<1>7. CASE new # NoAnalysis
  <2> DEFINE p0 == [run |-> run + 1, id |-> new, answer |-> Waiting]
  <2>1. polls' = polls \cup {p0} /\ polling' = TRUE
    BY <1>1, <1>7 DEF RunEffect, Ask
  <2>2. p0 \in Polls /\ Waiting \notin Statuses
    BY <1>1, <1>7 DEF Polls, Responses, Waiting, Statuses
  <2>3. LivePolls' = {p0}
    BY <1>1, <2>1 DEF LivePolls, PollInv, RequestInv
  <2>4. RequestInv'
    <3>1. \A p \in polls' : p.run <= run'
      BY <1>1, <2>1 DEF PollInv, RequestInv
    <3>2. \A p \in LivePolls' : p.id = id'
      BY <1>1, <2>3
    <3>3. \A p \in polls' : p.answer \in Statuses => Rank(p.answer) <= Rank(status'[p.id])
      BY <1>1, <2>1, <2>2 DEF PollInv, RequestInv
    <3> QED
      BY <3>1, <3>2, <3>3 DEF RequestInv
  <2>5. NextStepInv'
    BY <1>2, <2>1, <2>3 DEF NextStepInv
  <2>6. OneVerdict'
    BY <1>1, <1>4, <1>7, <2>1, NothingIsNoStatus DEF OneVerdict, MaxTransientFailures
  <2>7. polls' \subseteq Polls
    BY <2>1, <2>2 DEF Polls, Responses
  <2>8. TypeOK'
    BY <1>1, <1>2, <1>4, <1>5, <2>1, <2>7 DEF Fetches, Polls, Responses
  <2>9. CountInv' /\ ShownIsReal'
    BY <1>1, <1>4 DEF CountInv, ShownIsReal
  <2> QED
    BY <1>4, <2>4, <2>5, <2>6, <2>8, <2>9 DEF PollInv
<1> QED
  BY <1>6, <1>7

\* A timer that fires becomes a request.
LEMMA TimerStep ==
  ASSUME Inv, NEW t \in timers, TimerFires(t)
  PROVE  Inv'
<1> USE PollingAssumption DEF Inv, TypeOK
<1> DEFINE p0 == [run |-> t.run, id |-> t.id, answer |-> Waiting]
<1>1. /\ t.run = run /\ t.id = id /\ t.run \in 1..MaxRuns /\ t.id \in Analyses
      /\ LivePolls = {} /\ polling
  BY DEF PollInv, NextStepInv
<1>2. /\ timers' = {} /\ polls' = polls \cup {p0}
      /\ UNCHANGED <<status, id, closureVars, hookVars, resultVars, streak>>
  BY DEF TimerFires, Ask, PollInv, NextStepInv
<1>3. p0 \in Polls /\ Waiting \notin Statuses
  BY <1>1 DEF Polls, Responses, Waiting, Statuses
<1>4. LivePolls' = {p0}
  BY <1>1, <1>2 DEF LivePolls, closureVars
<1>5. RequestInv'
  <2>1. \A p \in LivePolls' : p.id = id'
    BY <1>1, <1>2, <1>4
  <2>2. \A p \in polls' : p.run <= run'
    BY <1>1, <1>2 DEF PollInv, RequestInv, closureVars
  <2>3. \A p \in polls' : p.answer \in Statuses => Rank(p.answer) <= Rank(status'[p.id])
    BY <1>2, <1>3 DEF PollInv, RequestInv
  <2> QED
    BY <2>1, <2>2, <2>3 DEF RequestInv
<1>6. NextStepInv'
  BY <1>1, <1>2, <1>4 DEF NextStepInv, hookVars
<1> QED
  BY <1>2, <1>3, <1>5, <1>6
  DEF closureVars, hookVars, resultVars, PollInv, FetchInv, CountInv, OneVerdict, ShownIsReal,
      ResultBelongsToShown, Polls, Responses

\* The server's answer carries the status of that time.
LEMMA AnswerPollStep ==
  ASSUME Inv, NEW p \in polls, AnswerPoll(p)
  PROVE  Inv'
<1> USE DEF Inv, TypeOK
<1>1. p \in Polls /\ status[p.id] \in Statuses
  BY DEF Polls, Responses
<1>2. PICK answer \in {status[p.id], "error", "lost"} :
        polls' = (polls \ {p}) \cup {[p EXCEPT !.answer = answer]}
  BY DEF AnswerPoll
<1> DEFINE q == [p EXCEPT !.answer = answer]
<1>3. /\ q \in Polls /\ q.run = p.run /\ q.id = p.id /\ q.answer = answer
      /\ polls' = (polls \ {p}) \cup {q}
  BY <1>1, <1>2 DEF Polls, Responses
<1>4. UNCHANGED <<status, id, closureVars, timers, hookVars, resultVars, streak>>
  BY DEF AnswerPoll
<1> HIDE DEF q
<1>5. LivePolls' = IF p \in LivePolls THEN (LivePolls \ {p}) \cup {q} ELSE LivePolls
  BY <1>3, <1>4 DEF LivePolls, closureVars
<1>6. RequestInv'
  <2>1. "error" \notin Statuses /\ "lost" \notin Statuses
    BY DEF Statuses
  <2>2. q.answer \in Statuses => Rank(q.answer) <= Rank(status[q.id])
    BY <1>2, <1>3, <2>1, RanksAreNumbers
  <2>3. \A r \in polls' : r.answer \in Statuses => Rank(r.answer) <= Rank(status'[r.id])
    BY <1>3, <1>4, <2>2 DEF PollInv, RequestInv
  <2>4. \A r \in polls' : r.run <= run'
    BY <1>3, <1>4 DEF PollInv, RequestInv, closureVars
  <2>5. \A r \in LivePolls' : r.id = id'
    BY <1>3, <1>4, <1>5 DEF PollInv, RequestInv
  <2> QED
    BY <2>3, <2>4, <2>5 DEF RequestInv
<1>7. NextStepInv'
  <2>1. \A r, s \in LivePolls' : r = s
    BY <1>5 DEF PollInv, NextStepInv
  <2>2. LivePolls' = {} <=> LivePolls = {}
    BY <1>5
  <2> QED
    BY <1>4, <2>1, <2>2 DEF PollInv, NextStepInv, closureVars, hookVars
<1> QED
  BY <1>3, <1>4, <1>6, <1>7
  DEF closureVars, hookVars, resultVars, PollInv, FetchInv, CountInv, OneVerdict, ShownIsReal,
      ResultBelongsToShown, Polls, Responses

\* Whatever becomes of a Result request, at most one is live, and it is for
\* the Analysis on the page.
LEMMA FetchStep ==
  ASSUME Inv, NEW f \in fetches, AnswerFetch(f) \/ DeliverResult(f)
  PROVE  Inv'
<1> USE DEF Inv, TypeOK
<1>1. f \in Fetches
  BY DEF Fetches
<1>2. /\ FetchInv' /\ fetches' \subseteq Fetches
      /\ result' \in [state : {"not_requested", "loading", "loaded", "api_error",
                               "network_error"},
                      id : Analyses \cup {NoAnalysis}]
      /\ UNCHANGED <<status, id, closureVars, timers, polls, hookVars, streak>>
  <2> USE DEF FetchInv, ResultBelongsToShown, hookVars
  <2>1. CASE AnswerFetch(f)
    <3>1. PICK answer \in {"ok", "error", "lost"} :
            fetches' = (fetches \ {f}) \cup {[f EXCEPT !.answer = answer]}
      BY <2>1 DEF AnswerFetch
    <3> DEFINE g == [f EXCEPT !.answer = answer]
    <3>2. g \in Fetches /\ g.id = f.id /\ g.live = f.live
      BY <1>1, <3>1 DEF Fetches
    <3>3. fetches' = (fetches \ {f}) \cup {g}
      BY <3>1
    <3> HIDE DEF g
    <3>4. UNCHANGED <<status, id, closureVars, timers, polls, hookVars, result, streak>>
      BY <2>1 DEF AnswerFetch
    <3>5. {h.id : h \in {k \in fetches' : k.live}} = {h.id : h \in {k \in fetches : k.live}}
      BY <3>2, <3>3
    <3> QED
      BY <1>1, <3>2, <3>3, <3>4, <3>5 DEF Fetches
  <2>2. CASE DeliverResult(f)
    <3>1. /\ fetches' = fetches \ {f}
          /\ UNCHANGED <<status, id, closureVars, timers, polls, hookVars, streak>>
      BY <2>2 DEF DeliverResult
    <3>2. CASE ~f.live
      <4>1. result' = result
        BY <2>2, <3>2 DEF DeliverResult
      <4>2. {k \in fetches' : k.live} = {k \in fetches : k.live}
        BY <3>1, <3>2
      <4> QED
        BY <3>1, <4>1, <4>2 DEF Fetches
    <3>3. CASE f.live
      <4>1. PICK s \in {"loaded", "api_error", "network_error"} :
              result' = [state |-> s, id |-> f.id]
        BY <1>1, <2>2, <3>3 DEF DeliverResult, Fetches, Waiting
      <4>2. f.id \in {h.id : h \in {k \in fetches : k.live}}
        BY <3>3
      <4>3. result.state = "loading" /\ f.id = id
        BY <4>2
      <4>4. {k \in fetches' : k.live} = {}
        BY <3>1, <3>3
      <4> QED
        BY <1>1, <3>1, <4>1, <4>3, <4>4 DEF Fetches
    <3> QED
      BY <3>2, <3>3
  <2> QED
    BY <2>1, <2>2
<1> QED
  BY <1>2
  DEF closureVars, hookVars, PollInv, RequestInv, NextStepInv, LivePolls, CountInv, OneVerdict,
      ShownIsReal, Fetches

-----------------------------------------------------------------------------
(* The continuations of a status request *)

\* What a live request finds when it returns.
LEMMA LiveRequest ==
  ASSUME Inv, NEW p \in polls, ~Cancelled(p)
  PROVE  /\ LivePolls = {p} /\ timers = {} /\ polling
         /\ p \in Polls /\ p.run = run /\ p.id = id /\ id \in Analyses
         /\ ~error /\ ~lost /\ failures < MaxTransientFailures
         /\ ~IsTerminalStatus(shown.status)
BY DEF Inv, TypeOK, PollInv, RequestInv, NextStepInv, CountInv, OneVerdict, LivePolls, Cancelled,
       Polls, Responses, MaxTransientFailures

\* Once a live request has returned, a timer is armed or polling has stopped.
LEMMA OneStepRemains ==
  ASSUME Inv, NEW p \in polls, ~Cancelled(p), DeliverPoll(p), run' = run,
         \/ ScheduleNext(p) /\ polling' = polling
         \/ Stop
  PROVE  /\ RequestInv' /\ NextStepInv'
         /\ timers' \subseteq [run : 1..MaxRuns, id : Analyses]
         /\ polls' \subseteq Polls
         /\ delay' \in 0..MaxInterval /\ interval' \in BaseInterval..MaxInterval
         /\ polling' \in BOOLEAN
         /\ polling' <=> ScheduleNext(p) /\ polling' = polling
<1>1. /\ LivePolls = {p} /\ timers = {} /\ polling
      /\ p \in Polls /\ p.run = run /\ p.id = id /\ id \in Analyses
  BY LiveRequest
<1>2. polls' = polls \ {p} /\ UNCHANGED <<status, id>>
  BY DEF DeliverPoll
<1>3. LivePolls' = {}
  BY <1>1, <1>2 DEF LivePolls
<1>4. RequestInv'
  BY <1>2, <1>3 DEF Inv, PollInv, RequestInv
<1>5. polls' \subseteq Polls
  BY <1>2 DEF Inv, TypeOK, Polls, Responses
<1>6. CASE ScheduleNext(p) /\ polling' = polling
  <2> DEFINE t0 == [run |-> p.run, id |-> p.id]
  <2>1. timers' = {t0} /\ delay' = interval /\ interval' = NextInterval(interval)
    BY <1>1, <1>6 DEF ScheduleNext
  <2>2. t0.run = run' /\ t0.id = id' /\ t0 \in [run : 1..MaxRuns, id : Analyses]
    BY <1>1, <1>2 DEF Polls
  <2>3. interval' \in BaseInterval..MaxInterval
    BY <2>1, IntervalGrows DEF Inv, TypeOK
  <2>4. delay' \in 0..MaxInterval
    BY <2>1 DEF Inv, TypeOK, BaseInterval, MaxInterval
  <2> HIDE DEF t0
  <2>5. NextStepInv'
    BY <1>1, <1>3, <1>6, <2>1, <2>2 DEF NextStepInv
  <2> QED
    BY <1>1, <1>4, <1>5, <1>6, <2>1, <2>2, <2>3, <2>4, <2>5
<1>7. CASE Stop
  <2>1. polling' = FALSE /\ UNCHANGED <<timers, delay, interval>>
    BY <1>7 DEF Stop
  <2>2. NextStepInv'
    BY <1>1, <1>3, <2>1 DEF NextStepInv
  <2> QED
    BY <1>1, <1>4, <1>5, <2>1, <2>2 DEF Inv, TypeOK
<1> QED
  BY <1>6, <1>7

\* An answer to a run that has ended changes nothing but the set of requests.
LEMMA IgnoreStep ==
  ASSUME Inv, NEW p \in polls, DeliverPoll(p), IgnoreCancelled(p)
  PROVE  Inv'
<1>1. /\ polls' = polls \ {p} /\ p.run # run
      /\ UNCHANGED <<status, id, closureVars, timers, hookVars, resultVars, streak>>
  BY DEF DeliverPoll, IgnoreCancelled, Cancelled
<1>2. LivePolls' = LivePolls
  BY <1>1 DEF LivePolls, closureVars
<1>3. TypeOK'
  BY <1>1 DEF Inv, TypeOK, closureVars, hookVars, resultVars
<1>4. RequestInv' /\ NextStepInv' /\ CountInv' /\ OneVerdict' /\ ShownIsReal'
  BY <1>1, <1>2
  DEF Inv, PollInv, RequestInv, NextStepInv, CountInv, OneVerdict, ShownIsReal, closureVars,
      hookVars
<1>5. FetchInv'
  BY <1>1 DEF Inv, FetchInv, ResultBelongsToShown, hookVars, resultVars
<1> QED
  BY <1>3, <1>4, <1>5 DEF Inv, PollInv

\* A lost request is tried again, or the connection is given up.
LEMMA NetworkStep ==
  ASSUME Inv, NEW p \in polls, DeliverPoll(p), NetworkFails(p)
  PROVE  Inv'
<1>1. /\ ~Cancelled(p) /\ run' = run /\ failures' = failures + 1 /\ streak' = streak + 1
      /\ UNCHANGED <<status, id, shown, error, result, fetches>>
  BY DEF DeliverPoll, NetworkFails, resultVars
<1>2. /\ ~error /\ ~lost /\ polling /\ ~IsTerminalStatus(shown.status) /\ id \in Analyses
      /\ failures < MaxTransientFailures
  BY <1>1, LiveRequest
<1>3. failures = streak /\ failures \in Nat
  BY DEF Inv, PollInv, CountInv, TypeOK
<1>4. failures' \in 0..MaxTransientFailures /\ streak' = failures'
  BY <1>1, <1>2, <1>3 DEF MaxTransientFailures
<1>5. /\ IF failures' >= MaxTransientFailures
           THEN lost' = TRUE /\ Stop
           ELSE ScheduleNext(p) /\ UNCHANGED <<lost, polling>>
  BY DEF NetworkFails
<1>6. /\ RequestInv' /\ NextStepInv'
      /\ timers' \subseteq [run : 1..MaxRuns, id : Analyses]
      /\ polls' \subseteq Polls
      /\ delay' \in 0..MaxInterval /\ interval' \in BaseInterval..MaxInterval
      /\ polling' \in BOOLEAN
  BY <1>1, <1>5, OneStepRemains
<1>7. lost' \in BOOLEAN /\ OneVerdict'
  <2>1. CASE failures' >= MaxTransientFailures
    <3>1. lost' = TRUE /\ polling' = FALSE
      BY <1>5, <2>1 DEF Stop
    <3> QED
      BY <1>1, <1>2, <1>4, <2>1, <3>1 DEF OneVerdict
  <2>2. CASE ~(failures' >= MaxTransientFailures)
    <3>1. lost' = lost /\ polling' = polling
      BY <1>5, <2>2
    <3>2. lost \in BOOLEAN
      BY DEF Inv, TypeOK
    <3>3. id # NoAnalysis
      BY <1>2, PollingAssumption
    <3> QED
      BY <1>1, <1>2, <1>4, <2>2, <3>1, <3>2, <3>3 DEF OneVerdict
  <2> QED
    BY <2>1, <2>2
<1>8. TypeOK'
  BY <1>1, <1>4, <1>6, <1>7 DEF Inv, TypeOK, Polls, Responses
<1>9. ShownIsReal' /\ FetchInv' /\ CountInv'
  BY <1>1, <1>4 DEF Inv, PollInv, ShownIsReal, FetchInv, ResultBelongsToShown, CountInv
<1> QED
  BY <1>6, <1>7, <1>8, <1>9 DEF Inv, PollInv

\* An error of the server ends polling.
LEMMA ErrorStep ==
  ASSUME Inv, NEW p \in polls, DeliverPoll(p), ErrorResponse(p)
  PROVE  Inv'
<1>1. /\ ~Cancelled(p) /\ run' = run /\ failures' = 0 /\ streak' = 0 /\ error' = TRUE /\ Stop
      /\ UNCHANGED <<status, id, shown, lost, result, fetches>>
  BY DEF DeliverPoll, ErrorResponse, resultVars
<1>2. ~lost /\ ~IsTerminalStatus(shown.status)
  BY <1>1, LiveRequest
<1>3. /\ RequestInv' /\ NextStepInv'
      /\ timers' \subseteq [run : 1..MaxRuns, id : Analyses]
      /\ polls' \subseteq Polls
      /\ delay' \in 0..MaxInterval /\ interval' \in BaseInterval..MaxInterval
      /\ polling' \in BOOLEAN
  BY <1>1, OneStepRemains
<1>4. failures' \in 0..MaxTransientFailures /\ streak' \in 0..MaxTransientFailures
  BY <1>1 DEF MaxTransientFailures
<1>5. TypeOK'
  BY <1>1, <1>3, <1>4 DEF Inv, TypeOK, Polls, Responses
<1>6. OneVerdict'
  BY <1>1, <1>2 DEF OneVerdict, Stop, MaxTransientFailures
<1>7. ShownIsReal' /\ FetchInv' /\ CountInv'
  BY <1>1 DEF Inv, PollInv, ShownIsReal, FetchInv, ResultBelongsToShown, CountInv
<1> QED
  BY <1>3, <1>5, <1>6, <1>7 DEF Inv, PollInv

\* A status is shown, and ends polling if it is terminal.
LEMMA StatusStep ==
  ASSUME Inv, NEW p \in polls, DeliverPoll(p), StatusResponse(p)
  PROVE  Inv'
<1>1. /\ ~Cancelled(p) /\ p.answer \in Statuses /\ run' = run /\ failures' = 0 /\ streak' = 0
      /\ UNCHANGED <<status, id, error, lost>>
      /\ SetAnalysis(Shown(p.id, p.answer))
  BY DEF DeliverPoll, StatusResponse
<1>2. p.id = id /\ id \in Analyses /\ ~error /\ ~lost /\ polling
  BY <1>1, LiveRequest
<1>3. \/ IsTerminalStatus(p.answer) /\ Stop
      \/ ~IsTerminalStatus(p.answer) /\ ScheduleNext(p) /\ polling' = polling
  BY DEF StatusResponse
<1>4. /\ RequestInv' /\ NextStepInv'
      /\ timers' \subseteq [run : 1..MaxRuns, id : Analyses]
      /\ polls' \subseteq Polls
      /\ delay' \in 0..MaxInterval /\ interval' \in BaseInterval..MaxInterval
      /\ polling' \in BOOLEAN
  BY <1>1, <1>3, OneStepRemains
<1> DEFINE new == Shown(p.id, p.answer)
<1>5. /\ new \in [id : {id'}, status : Statuses]
      /\ new.id = id /\ new.status = p.answer /\ new # Nothing
  BY <1>1, <1>2, NothingIsNoStatus DEF Shown
<1>6. TypeOK /\ FetchInv /\ id' \in Analyses /\ id' = id /\ SetAnalysis(new)
  BY <1>1, <1>2 DEF Inv
<1> HIDE DEF new
<1>7. /\ FetchInv' /\ fetches' \subseteq Fetches /\ shown' = new
      /\ result' \in [state : {"not_requested", "loading", "loaded", "api_error",
                               "network_error"},
                      id : Analyses \cup {NoAnalysis}]
  BY <1>5, <1>6, ShowingKeepsFetches
<1>8. /\ failures' \in 0..MaxTransientFailures /\ streak' \in 0..MaxTransientFailures
      /\ shown' \in [id : Analyses, status : Statuses]
  BY <1>1, <1>5, <1>6, <1>7 DEF MaxTransientFailures
<1>9. TypeOK'
  BY <1>1, <1>4, <1>7, <1>8 DEF Inv, TypeOK, Polls, Responses, Fetches
<1>10. OneVerdict'
  <2>1. /\ id' # NoAnalysis /\ ~error' /\ ~lost' /\ streak' = 0
        /\ shown'.status = p.answer
    BY <1>1, <1>2, <1>5, <1>7, PollingAssumption
  <2>2. polling' <=> ~IsTerminalStatus(p.answer)
    BY <1>2, <1>3 DEF Stop
  <2> QED
    BY <2>1, <2>2 DEF OneVerdict, MaxTransientFailures
<1>11. ShownIsReal'
  BY <1>1, <1>2, <1>5, <1>7 DEF Inv, PollInv, RequestInv, ShownIsReal
<1> QED
  BY <1>1, <1>4, <1>7, <1>9, <1>10, <1>11 DEF Inv, PollInv, CountInv

-----------------------------------------------------------------------------
(* Theorems *)

\* The invariant holds from the first render on.
LEMMA InvHolds == Spec => []Inv
<1>1. Init => Inv
  <2> SUFFICES ASSUME Init PROVE Inv
    OBVIOUS
  <2>0. MaxRuns \in Nat /\ run = 0
    BY PollingAssumption DEF Init
  <2>1. TypeOK
    <3>1. status \in [Analyses -> Statuses]
      BY DEF Init, Statuses
    <3>2. run \in 0..MaxRuns /\ failures \in 0..MaxTransientFailures
          /\ streak \in 0..MaxTransientFailures /\ delay \in 0..MaxInterval
          /\ interval \in BaseInterval..MaxInterval
      BY <2>0 DEF Init, BaseInterval, MaxInterval, MaxTransientFailures
    <3>3. /\ error \in BOOLEAN /\ lost \in BOOLEAN /\ polling \in BOOLEAN
          /\ timers = {} /\ polls = {} /\ fetches = {} /\ shown = Nothing /\ id = NoAnalysis
          /\ result = [state |-> "not_requested", id |-> NoAnalysis]
      BY DEF Init
    <3> QED
      BY <3>1, <3>2, <3>3 DEF TypeOK
  <2>2. LivePolls = {}
    BY DEF Init, LivePolls
  <2>3. PollInv
    BY <2>2, NothingIsNoStatus
    DEF Init, PollInv, RequestInv, NextStepInv, CountInv, OneVerdict, ShownIsReal,
        MaxTransientFailures
  <2>4. {g \in fetches : g.live} = {}
    BY DEF Init
  <2>5. FetchInv
    BY <2>4, NothingIsNoStatus DEF Init, FetchInv, ResultBelongsToShown
  <2> QED
    BY <2>1, <2>3, <2>5 DEF Inv
<1>2. Inv /\ [Next]_vars => Inv'
  <2> SUFFICES ASSUME Inv, [Next]_vars PROVE Inv'
    OBVIOUS
  <2>1. CASE UNCHANGED vars
    BY <2>1
    DEF vars, Inv, TypeOK, PollInv, RequestInv, NextStepInv, LivePolls, CountInv, OneVerdict,
        ShownIsReal, FetchInv, ResultBelongsToShown, closureVars, hookVars, resultVars
  <2>2. ASSUME NEW p \in polls, DeliverPoll(p) PROVE Inv'
    <3>1. IgnoreCancelled(p) \/ NetworkFails(p) \/ ErrorResponse(p) \/ StatusResponse(p)
      BY <2>2 DEF DeliverPoll
    <3> QED
      BY <2>2, <3>1, IgnoreStep, NetworkStep, ErrorStep, StatusStep
  <2>3. CASE Next
    BY <2>2, <2>3, ProgressStep, RunEffectStep, TimerStep, AnswerPollStep, FetchStep DEF Next
  <2> QED
    BY <2>1, <2>3
<1> QED
  BY <1>1, <1>2, PTL DEF Spec

\* Each variable has its type; in particular the interval stays within its
\* bounds and the count of failures within its limit.
THEOREM TypeCorrect == Spec => []TypeOK
<1>1. Inv => TypeOK
  BY DEF Inv
<1> QED
  BY <1>1, InvHolds, PTL

\* Status, Result and id on the page are of one Analysis, and none of them is
\* ahead of the server, whatever late answers come in whatever order.
THEOREM OneAnalysisOnThePage == Spec => []PageIsOfOneAnalysis
<1>1. Inv => PageIsOfOneAnalysis
  BY DEF Inv, PollInv, FetchInv, PageIsOfOneAnalysis
<1> QED
  BY <1>1, InvHolds, PTL

\* A page that polls has exactly one timer or request, and goes on until it has
\* exactly one verdict.
THEOREM OneStepUntilOneVerdict == Spec => []PollsUntilOneVerdict
<1>1. ASSUME Inv PROVE ExactlyOneNextStep
  <2> USE <1>1 DEF Inv, PollInv, NextStepInv, ExactlyOneNextStep
  <2>1. CASE timers = {} /\ LivePolls = {}
    BY <2>1, FS_EmptySet
  <2>2. CASE timers # {}
    <3>1. PICK t : timers = {t}
      BY <2>2
    <3>2. LivePolls = {} /\ polling
      BY <2>2
    <3>3. Cardinality(timers) = 1 /\ Cardinality(LivePolls) = 0
      BY <3>1, <3>2, FS_EmptySet, FS_Singleton
    <3> QED
      BY <3>2, <3>3
  <2>3. CASE LivePolls # {}
    <3>1. PICK p : LivePolls = {p}
      BY <2>3
    <3>2. timers = {} /\ polling
      BY <2>3
    <3>3. Cardinality(LivePolls) = 1 /\ Cardinality(timers) = 0
      BY <3>1, <3>2, FS_EmptySet, FS_Singleton
    <3> QED
      BY <3>2, <3>3
  <2> QED
    BY <2>1, <2>2, <2>3
<1>2. Inv => PollsUntilOneVerdict
  BY <1>1 DEF Inv, PollInv, PollsUntilOneVerdict
<1> QED
  BY <1>2, InvHolds, PTL

=============================================================================
