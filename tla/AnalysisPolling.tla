--------------------------- MODULE AnalysisPolling ---------------------------
(***************************************************************************)
(* The browser's side of an Analysis: the hook useAnalysisPolling, which   *)
(* polls its status, and the effect of ResultPage that fetches the Result  *)
(* when the hook shows `succeeded`. Requests are answered by the server at *)
(* one time and delivered to the page at another; the page may ask for     *)
(* another Analysis, or go away, in between.                               *)
(*                                                                         *)
(* A run of the hook's effect has its own closure (cancelled flag, timer,  *)
(* interval, count of failures). Runs are numbered: the last one is not    *)
(* cancelled, all others are.                                              *)
(***************************************************************************)
EXTENDS Integers, FiniteSets

CONSTANTS
  Analyses,        \* identifiers of Analyses
  NoAnalysis,      \* the null identifier, and the state that shows nothing
  MaxRuns          \* bound on the runs of the effect

ASSUME PollingAssumption ==
  /\ NoAnalysis \notin Analyses
  /\ MaxRuns \in Nat \ {0}

\* BASE_INTERVAL_MS, MAX_INTERVAL_MS, MAX_CONSECUTIVE_TRANSIENT_FAILURES.
BaseInterval == 2000
MaxInterval == 10000
MaxTransientFailures == 5

VARIABLES
  status,     \* the server's status of every Analysis
  id,         \* argument of the hook
  run,        \* number of the live run of the effect
  timers,     \* armed timers: [run, id]
  delay,      \* delay the last timer of the live run was armed with
  interval,   \* currentIntervalMs of the live run
  failures,   \* consecutiveTransientFailures of the live run
  polls,      \* status requests: [run, id, answer]
  shown,      \* analysis: what the hook returned last
  error,      \* error # null
  lost,       \* connectionLost
  polling,    \* isPolling
  result,     \* resultState of ResultPage: [state, id]
  fetches,    \* Result requests: [id, live, answer]
  streak      \* history: network failures of the live run since an answer

closureVars == <<run, delay, interval, failures>>
hookVars == <<shown, error, lost, polling>>
resultVars == <<result, fetches>>
vars == <<status, id, closureVars, timers, polls, hookVars, resultVars, streak>>

Statuses == {"queued", "running", "succeeded", "failed"}

IsTerminalStatus(s) == s \in {"succeeded", "failed"}

Shown(a, s) == [id |-> a, status |-> s]

Nothing == Shown(NoAnalysis, "none")

Waiting == "waiting"

NextInterval(ms) ==
  LET backedOff == (ms * 3) \div 2
  IN IF backedOff < MaxInterval THEN backedOff ELSE MaxInterval

-----------------------------------------------------------------------------
(* The server. *)

Progress(a) ==
  /\ status[a] \in {"queued", "running"}
  /\ \E s \in IF status[a] = "queued" THEN {"running", "failed"}
                                       ELSE {"succeeded", "failed"} :
       status' = [status EXCEPT ![a] = s]
  /\ UNCHANGED <<id, closureVars, timers, polls, hookVars, resultVars, streak>>

\* A response carries the status of the time it was produced, an error
\* envelope, or never arrives.
AnswerPoll(p) ==
  /\ p.answer = Waiting
  /\ \E answer \in {status[p.id], "error", "lost"} :
       polls' = (polls \ {p}) \cup {[p EXCEPT !.answer = answer]}
  /\ UNCHANGED <<status, id, closureVars, timers, hookVars, resultVars, streak>>

AnswerFetch(f) ==
  /\ f.answer = Waiting
  /\ \E answer \in {"ok", "error", "lost"} :
       fetches' = (fetches \ {f}) \cup {[f EXCEPT !.answer = answer]}
  /\ UNCHANGED <<status, id, closureVars, timers, polls, hookVars, result, streak>>

-----------------------------------------------------------------------------
(* The effect of ResultPage, which runs when the shown id or status changes *)

Abandoned == {[f EXCEPT !.live = FALSE] : f \in fetches}

\* Mutant of RunResultEffect: the cleanup does not cancel the old request.
RunResultEffectUncancelled(analysis) ==
  IF analysis.status # "succeeded"
    THEN /\ result' = [state |-> "not_requested", id |-> NoAnalysis]
         /\ UNCHANGED fetches
    ELSE /\ result' = [state |-> "loading", id |-> analysis.id]
         /\ fetches' = fetches \cup
              {[id |-> analysis.id, live |-> TRUE, answer |-> Waiting]}

RunResultEffect(analysis) ==
  IF analysis.status # "succeeded"
    THEN /\ result' = [state |-> "not_requested", id |-> NoAnalysis]
         /\ fetches' = Abandoned
    ELSE /\ result' = [state |-> "loading", id |-> analysis.id]
         /\ fetches' = Abandoned \cup
              {[id |-> analysis.id, live |-> TRUE, answer |-> Waiting]}

\* setAnalysis, and the effects of the render it causes.
SetAnalysis(analysis) ==
  /\ shown' = analysis
  /\ IF analysis = shown THEN UNCHANGED resultVars ELSE RunResultEffect(analysis)

\* Mutant of DeliverResult: a rejected request is not caught.
DeliverResultUncaught(f) ==
  /\ f.answer # Waiting
  /\ fetches' = fetches \ {f}
  /\ IF f.live /\ f.answer # "lost"
       THEN result' = [state |-> IF f.answer = "ok" THEN "loaded" ELSE "api_error",
                       id |-> f.id]
       ELSE UNCHANGED result
  /\ UNCHANGED <<status, id, closureVars, timers, polls, hookVars, streak>>

DeliverResult(f) ==
  /\ f.answer # Waiting
  /\ fetches' = fetches \ {f}
  /\ IF f.live
       THEN result' = [state |-> CASE f.answer = "ok" -> "loaded"
                                   [] f.answer = "error" -> "api_error"
                                   [] f.answer = "lost" -> "network_error",
                       id |-> f.id]
       ELSE UNCHANGED result
  /\ UNCHANGED <<status, id, closureVars, timers, polls, hookVars, streak>>

-----------------------------------------------------------------------------
(* The hook. *)

Ask(r, a) == {[run |-> r, id |-> a, answer |-> Waiting]}

\* Mutant of ClearTimer: the timer outlives its run.
KeepTimer == timers

\* clearTimeout in the cleanup.
ClearTimer == {t \in timers : t.run # run}

\* The cleanup of the last run, then the body of the next one. The argument
\* changes, or the component is mounted again with the same one.
RunEffect(new) ==
  /\ run < MaxRuns
  /\ run' = run + 1
  /\ id' = new
  /\ timers' = ClearTimer
  /\ interval' = BaseInterval
  /\ delay' = 0
  /\ failures' = 0
  /\ streak' = 0
  /\ SetAnalysis(Nothing)
  /\ error' = FALSE
  /\ lost' = FALSE
  /\ IF new = NoAnalysis
       THEN polling' = FALSE /\ UNCHANGED polls
       ELSE polling' = TRUE /\ polls' = polls \cup Ask(run', new)
  /\ UNCHANGED status

\* pollOnce, called by the timer.
TimerFires(t) ==
  /\ timers' = timers \ {t}
  /\ polls' = polls \cup Ask(t.run, t.id)
  /\ UNCHANGED <<status, id, closureVars, hookVars, resultVars, streak>>

\* scheduleNext.
ScheduleNext(p) ==
  /\ timers' = timers \cup {[run |-> p.run, id |-> p.id]}
  /\ delay' = interval
  /\ interval' = NextInterval(interval)

Stop == polling' = FALSE /\ UNCHANGED <<timers, delay, interval>>

\* Mutant of Cancelled: the flag is never looked at.
NeverCancelled(p) == p.run = 0

Cancelled(p) == p.run # run

\* Continuations of pollOnce, one for each way its request ends.
IgnoreCancelled(p) ==
  /\ Cancelled(p)
  /\ UNCHANGED <<closureVars, timers, hookVars, resultVars, streak>>

\* Mutant of NetworkFails: the last failure is retried like the others.
NetworkFailsForever(p) ==
  /\ ~Cancelled(p)
  /\ p.answer = "lost"
  /\ failures' = IF failures < MaxTransientFailures THEN failures + 1 ELSE failures
  /\ streak' = IF streak < MaxTransientFailures THEN streak + 1 ELSE streak
  /\ lost' = (failures' >= MaxTransientFailures)
  /\ ScheduleNext(p)
  /\ UNCHANGED <<run, shown, error, polling, resultVars>>

NetworkFails(p) ==
  /\ ~Cancelled(p)
  /\ p.answer = "lost"
  /\ failures' = failures + 1
  /\ streak' = streak + 1
  /\ IF failures' >= MaxTransientFailures
       THEN lost' = TRUE /\ Stop
       ELSE ScheduleNext(p) /\ UNCHANGED <<lost, polling>>
  /\ UNCHANGED <<run, shown, error, resultVars>>

ErrorResponse(p) ==
  /\ ~Cancelled(p)
  /\ p.answer = "error"
  /\ failures' = 0
  /\ streak' = 0
  /\ error' = TRUE
  /\ Stop
  /\ UNCHANGED <<run, shown, lost, resultVars>>

\* Mutant of StatusResponse: an answer does not reset the count of failures.
StatusResponseKeepsCount(p) ==
  /\ ~Cancelled(p)
  /\ p.answer \in Statuses
  /\ streak' = 0
  /\ SetAnalysis(Shown(p.id, p.answer))
  /\ IF IsTerminalStatus(p.answer)
       THEN Stop
       ELSE ScheduleNext(p) /\ UNCHANGED polling
  /\ UNCHANGED <<run, failures, error, lost>>

StatusResponse(p) ==
  /\ ~Cancelled(p)
  /\ p.answer \in Statuses
  /\ failures' = 0
  /\ streak' = 0
  /\ SetAnalysis(Shown(p.id, p.answer))
  /\ IF IsTerminalStatus(p.answer)
       THEN Stop
       ELSE ScheduleNext(p) /\ UNCHANGED polling
  /\ UNCHANGED <<run, error, lost>>

DeliverPoll(p) ==
  /\ p.answer # Waiting
  /\ polls' = polls \ {p}
  /\ IgnoreCancelled(p) \/ NetworkFails(p) \/ ErrorResponse(p) \/ StatusResponse(p)
  /\ UNCHANGED <<status, id>>

-----------------------------------------------------------------------------
Init ==
  /\ status = [a \in Analyses |-> "queued"]
  /\ id = NoAnalysis
  /\ run = 0
  /\ timers = {}
  /\ delay = 0
  /\ interval = BaseInterval
  /\ failures = 0
  /\ polls = {}
  /\ shown = Nothing
  /\ error = FALSE
  /\ lost = FALSE
  /\ polling = FALSE
  /\ result = [state |-> "not_requested", id |-> NoAnalysis]
  /\ fetches = {}
  /\ streak = 0

Next ==
  \/ \E a \in Analyses : Progress(a)
  \/ \E new \in Analyses \cup {NoAnalysis} : RunEffect(new)
  \/ \E t \in timers : TimerFires(t)
  \/ \E p \in polls : AnswerPoll(p) \/ DeliverPoll(p)
  \/ \E f \in fetches : AnswerFetch(f) \/ DeliverResult(f)

Spec == Init /\ [][Next]_vars

\* The server works, requests settle and timers fire.
Fairness ==
  /\ \A a \in Analyses : WF_vars(Progress(a))
  /\ WF_vars(\E t \in timers : TimerFires(t))
  /\ WF_vars(\E p \in polls : p.run = run /\ (AnswerPoll(p) \/ DeliverPoll(p)))
  /\ WF_vars(\E f \in fetches : f.live /\ (AnswerFetch(f) \/ DeliverResult(f)))

FairSpec == Spec /\ Fairness

-----------------------------------------------------------------------------
(* Properties. *)

LivePolls == {p \in polls : p.run = run}

Rank(s) == CASE s = "none" -> 0
             [] s = "queued" -> 1
             [] s = "running" -> 2
             [] OTHER -> 3

\* Every variable has its type.
TypeOK ==
  /\ status \in [Analyses -> Statuses]
  /\ id \in Analyses \cup {NoAnalysis}
  /\ run \in 0..MaxRuns
  /\ timers \subseteq [run : 1..MaxRuns, id : Analyses]
  /\ delay \in 0..MaxInterval
  /\ interval \in BaseInterval..MaxInterval
  /\ failures \in 0..MaxTransientFailures
  /\ polls \subseteq [run : 1..MaxRuns, id : Analyses,
                      answer : Statuses \cup {Waiting, "error", "lost"}]
  /\ shown \in [id : Analyses, status : Statuses] \cup {Nothing}
  /\ error \in BOOLEAN /\ lost \in BOOLEAN /\ polling \in BOOLEAN
  /\ result \in [state : {"not_requested", "loading", "loaded", "api_error",
                          "network_error"},
                 id : Analyses \cup {NoAnalysis}]
  /\ fetches \subseteq [id : Analyses, live : BOOLEAN,
                        answer : {Waiting, "ok", "error", "lost"}]
  /\ streak \in 0..MaxTransientFailures

\* What is shown is a status the server gave the Analysis the page asks for,
\* and not a later one than it has: late answers of an abandoned run, for the
\* same or another Analysis, never show.
ShownIsReal ==
  shown # Nothing =>
    shown.id = id /\ Rank(shown.status) <= Rank(status[id])

\* A page that says it is polling has exactly one next step in hand, a timer or
\* a request, so it neither hangs nor polls twice; one that does not has none.
ExactlyOneNextStep ==
  Cardinality(timers) + Cardinality(LivePolls) = IF polling THEN 1 ELSE 0

\* Polling goes on until one verdict, and only one, is there: a terminal
\* status, an error of the server, or the connection lost. It is given up as
\* lost after five failures in a row, answers in between starting the count
\* again, and not one failure later.
OneVerdict ==
  /\ polling <=> /\ id # NoAnalysis
                 /\ ~error /\ ~lost /\ ~IsTerminalStatus(shown.status)
  /\ ~(error /\ lost)
  /\ IsTerminalStatus(shown.status) => ~error /\ ~lost
  /\ lost <=> streak >= MaxTransientFailures

\* The Result on the page belongs to the shown, succeeded Analysis, and while it
\* is loading exactly one request for it is out.
ResultBelongsToShown ==
  /\ result.state # "not_requested" =>
       shown = Shown(id, "succeeded") /\ result.id = id
  /\ result.state = "not_requested" => shown.status # "succeeded"
  /\ {f.id : f \in {g \in fetches : g.live}} =
       (IF result.state = "loading" THEN {id} ELSE {})

\* Status, Result and the id the page asks for are of one Analysis, whatever
\* answers of abandoned runs and requests are still to come.
PageIsOfOneAnalysis == ShownIsReal /\ ResultBelongsToShown

\* A page polls, with one next step in hand, until it has one verdict.
PollsUntilOneVerdict == ExactlyOneNextStep /\ OneVerdict

\* Polling ends, whatever requests are lost: the server finishes the Analysis
\* or the page gives up, unless it asks for something else.
PollingEnds == polling ~> ~polling

\* A succeeded Analysis on the page gets past "loading".
ResultArrives == (result.state = "loading") ~> (result.state # "loading")
=============================================================================
