--------------------------- MODULE AuditionPlayback ---------------------------
(***************************************************************************)
(* The playback owner of ResultPage: one audition at a time, of a cue or   *)
(* of an occurrence. A click runs startPlayback, which suspends twice, on  *)
(* the request for the audio and on audio.play(), while other clicks, a    *)
(* collapsed group, events of the audio element and the cleanup of the     *)
(* effect run disposePlayback. A call recognises by the version counter    *)
(* that it has been superseded.                                            *)
(*                                                                         *)
(* A call, its controller, its object URL and its audio element are named  *)
(* by the version it started with.                                         *)
(***************************************************************************)
EXTENDS Integers, FiniteSets

CONSTANTS
  Cues,          \* cues of the Result
  NoCue,         \* no cue: nothing is active, no error is shown
  MaxVersion     \* bound on playbackVersionRef

ASSUME PlaybackAssumption ==
  /\ NoCue \notin Cues
  /\ MaxVersion \in Nat \ {0}

Versions == 1..MaxVersion

None == 0                       \* no controller, element or URL

VARIABLES
  version,      \* playbackVersionRef.current
  target,       \* activeTarget: [request, status]
  error,        \* cue of playbackError
  controller,   \* playbackResourcesRef.current.controller
  audio,        \*   .audio
  url,          \*   .objectUrl
  calls,        \* where each call of startPlayback is
  request,      \* what each call was asked to play
  aborted,      \* controllers that were aborted
  urls,         \* object URLs created and not revoked
  sounding,     \* audio elements that are not paused
  handled,      \* audio elements with their handlers attached
  collapsed,    \* collapsedCueIds
  mounted       \* the card is on the page

resources == <<controller, audio, url>>
browserVars == <<aborted, urls, sounding, handled>>
shownVars == <<version, target, error>>
pageVars == <<collapsed, mounted>>
vars == <<shownVars, resources, calls, request, browserVars, pageVars>>

\* PlaybackRequest: the button of a cue, or that of one of its occurrences.
Request(cue, kind) == [cue |-> cue, kind |-> kind]

Requests == [cue : Cues, kind : {"cue", "occurrence"}]

NoRequest == Request(NoCue, "none")

Target(r, s) == [request |-> r, status |-> s]

NoTarget == Target(NoRequest, "none")

Stages == {"idle", "fetching", "starting", "over"}

-----------------------------------------------------------------------------
(* disposePlayback. `held` is the controller that it finds, `next` the one   *)
(* that the caller stores after it.                                          *)

\* Mutant of DisposeResources: the URL of the element is not revoked.
DisposeResourcesButUrl(held, next) ==
  /\ aborted' = aborted \cup ({held} \ {None})
  /\ sounding' = sounding \ {audio}
  /\ handled' = handled \ {audio}
  /\ UNCHANGED urls
  /\ controller' = next /\ audio' = None /\ url' = None

\* Mutant of DisposeResources: the element is dropped while it plays.
DisposeResourcesButSound(held, next) ==
  /\ aborted' = aborted \cup ({held} \ {None})
  /\ UNCHANGED sounding
  /\ handled' = handled \ {audio}
  /\ urls' = urls \ {url}
  /\ controller' = next /\ audio' = None /\ url' = None

DisposeResources(held, next) ==
  /\ aborted' = aborted \cup ({held} \ {None})
  /\ sounding' = sounding \ {audio}
  /\ handled' = handled \ {audio}
  /\ urls' = urls \ {url}
  /\ controller' = next /\ audio' = None /\ url' = None

\* A click that comes when the counter is at its bound is not modelled.
Dispose(held, message) ==
  /\ version < MaxVersion
  /\ version' = version + 1
  /\ DisposeResources(held, None)
  /\ target' = NoTarget
  /\ error' = message

-----------------------------------------------------------------------------
(* The user. *)

\* The buttons of the occurrences of a collapsed group are hidden.
Visible(r) == mounted /\ (r.kind = "occurrence" => r.cue \notin collapsed)

\* The button of the active target stops it.
Halt(r) ==
  /\ Visible(r)
  /\ target.request = r
  /\ Dispose(controller, NoCue)
  /\ UNCHANGED <<calls, request, pageVars>>

\* Any other button supersedes it: dispose, a new controller, the request.
Play(r) ==
  /\ Visible(r)
  /\ target.request # r
  /\ version < MaxVersion
  /\ version' = version + 1
  /\ DisposeResources(controller, version')
  /\ target' = Target(r, "loading")
  /\ error' = NoCue
  /\ calls' = [calls EXCEPT ![version'] = "fetching"]
  /\ request' = [request EXCEPT ![version'] = r]
  /\ UNCHANGED pageVars

Expand(cue) ==
  /\ mounted
  /\ cue \in collapsed
  /\ collapsed' = collapsed \ {cue}
  /\ UNCHANGED <<shownVars, resources, calls, request, browserVars, mounted>>

\* toggleCueGroup on an expanded group; an audition of the cue is stopped.
Collapse(cue) ==
  /\ mounted
  /\ cue \notin collapsed
  /\ collapsed' = collapsed \cup {cue}
  /\ IF target.request.cue = cue
     THEN Dispose(controller, NoCue)
     ELSE UNCHANGED <<shownVars, resources, browserVars>>
  /\ UNCHANGED <<calls, request, mounted>>

\* The cleanup of the effect: the card leaves, or shows another Analysis.
Cleanup ==
  /\ mounted
  /\ mounted' \in BOOLEAN
  /\ Dispose(controller, NoCue)
  /\ UNCHANGED <<calls, request, collapsed>>

-----------------------------------------------------------------------------
(* startPlayback after its first await. *)

\* Mutant of Superseded: only the abort is looked at, after a response that
\* had come before it.
NeverSuperseded(v) == v \in aborted /\ version = v

Superseded(v) == v \in aborted \/ version # v

Return(v) == calls' = [calls EXCEPT ![v] = "over"]

\* The response, or the rejection, of a request that was abandoned.
FetchAbandoned(v) ==
  /\ calls[v] = "fetching"
  /\ Superseded(v)
  /\ Return(v)
  /\ UNCHANGED <<shownVars, resources, request, browserVars, pageVars>>

\* The body is there: the URL, the element, its handlers, audio.play().
FetchSucceeds(v) ==
  /\ calls[v] = "fetching"
  /\ ~Superseded(v)
  /\ controller' = None /\ audio' = v /\ url' = v
  /\ urls' = urls \cup {v}
  /\ handled' = handled \cup {v}
  /\ sounding' = sounding \cup {v}
  /\ calls' = [calls EXCEPT ![v] = "starting"]
  /\ UNCHANGED <<shownVars, request, aborted, pageVars>>

\* An error envelope (the controller is dropped first) or a network error.
FetchFails(v) ==
  /\ calls[v] = "fetching"
  /\ ~Superseded(v)
  /\ \E held \in {controller, None} : Dispose(held, request[v].cue)
  /\ Return(v)
  /\ UNCHANGED <<request, pageVars>>

-----------------------------------------------------------------------------
(* startPlayback after audio.play(), and the events of the element. *)

\* The promise settles after the call was superseded: pause() rejects it.
StartAbandoned(v) ==
  /\ calls[v] = "starting"
  /\ Superseded(v)
  /\ Return(v)
  /\ UNCHANGED <<shownVars, resources, request, browserVars, pageVars>>

\* The promise is fulfilled in the task that fires `playing`: an element that
\* was paused by then leaves the button as that event set it.
StartSucceeds(v) ==
  /\ calls[v] = "starting"
  /\ ~Superseded(v)
  /\ v \in sounding \/ target.status = "playing"
  /\ target' = IF v \in sounding THEN Target(request[v], "playing") ELSE target
  /\ Return(v)
  /\ UNCHANGED <<version, error, resources, request, browserVars, pageVars>>

\* Mutant of StartFails: the message is shown and the element is kept.
StartFailsKeeping(v) ==
  /\ calls[v] = "starting"
  /\ ~Superseded(v)
  /\ error' = request[v].cue
  /\ Return(v)
  /\ UNCHANGED <<version, target, resources, request, browserVars, pageVars>>

StartFails(v) ==
  /\ calls[v] = "starting"
  /\ ~Superseded(v)
  /\ Dispose(controller, request[v].cue)
  /\ Return(v)
  /\ UNCHANGED <<request, pageVars>>

\* The browser pauses the element (a media key); no handler is told.
PausedOutside(v) ==
  /\ v \in sounding
  /\ sounding' = sounding \ {v}
  /\ UNCHANGED <<shownVars, resources, calls, request, aborted, urls, handled,
                 pageVars>>

OnPlaying(v) ==
  /\ v \in handled
  /\ version = v
  /\ target' = Target(request[v], "playing")
  /\ UNCHANGED <<version, error, resources, calls, request, browserVars,
                 pageVars>>

\* Mutant of OnEnded: the handler only shows that nothing plays.
OnEndedTargetOnly(v) ==
  /\ v \in handled
  /\ version = v
  /\ target' = NoTarget
  /\ sounding' = sounding \ {v}
  /\ UNCHANGED <<version, error, resources, calls, request, aborted, urls,
                 handled, pageVars>>

\* The only disposal that does not clear the message.
OnEnded(v) ==
  /\ v \in handled
  /\ version = v
  /\ Dispose(controller, error)
  /\ UNCHANGED <<calls, request, pageVars>>

OnError(v) ==
  /\ v \in handled
  /\ version = v
  /\ Dispose(controller, request[v].cue)
  /\ UNCHANGED <<calls, request, pageVars>>

-----------------------------------------------------------------------------
Init ==
  /\ version = 0
  /\ target = NoTarget
  /\ error = NoCue
  /\ controller = None /\ audio = None /\ url = None
  /\ calls = [v \in Versions |-> "idle"]
  /\ request = [v \in Versions |-> NoRequest]
  /\ aborted = {} /\ urls = {} /\ sounding = {} /\ handled = {}
  /\ collapsed = {}
  /\ mounted = TRUE

User ==
  \/ \E r \in Requests : Halt(r) \/ Play(r)
  \/ \E cue \in Cues : Expand(cue) \/ Collapse(cue)
  \/ Cleanup

FetchSettles(v) == FetchAbandoned(v) \/ FetchSucceeds(v) \/ FetchFails(v)

StartSettles(v) == StartAbandoned(v) \/ StartSucceeds(v) \/ StartFails(v)

ElementEvent(v) == PausedOutside(v) \/ OnPlaying(v) \/ OnEnded(v) \/ OnError(v)

Next ==
  \/ User
  \/ \E v \in Versions : FetchSettles(v) \/ StartSettles(v) \/ ElementEvent(v)

Spec == Init /\ [][Next]_vars

\* Requests and the promise of audio.play() settle; nothing else is promised:
\* the user may do nothing, and an audio may play for ever.
FairSpec ==
  /\ Spec
  /\ \A v \in Versions : WF_vars(FetchSettles(v)) /\ WF_vars(StartSettles(v))

-----------------------------------------------------------------------------
\* Every variable has its type.
TypeOK ==
  /\ version \in 0..MaxVersion
  /\ target \in [request : Requests, status : {"loading", "playing"}]
                \cup {NoTarget}
  /\ error \in Cues \cup {NoCue}
  /\ {controller, audio, url} \subseteq Versions \cup {None}
  /\ calls \in [Versions -> Stages]
  /\ request \in [Versions -> Requests \cup {NoRequest}]
  /\ aborted \subseteq Versions /\ urls \subseteq Versions
  /\ sounding \subseteq Versions /\ handled \subseteq Versions
  /\ collapsed \subseteq Cues
  /\ mounted \in BOOLEAN

\* Whatever startPlayback created and a later disposal took over is released:
\* the only object URL not revoked, the only element that can sound or call a
\* handler, and the only request not aborted are those the owner holds.
NothingLeaks ==
  /\ urls = {url} \ {None}
  /\ handled = {audio} \ {None}
  /\ {v \in Versions : calls[v] = "fetching"} \ aborted = {controller} \ {None}

\* What is hidden, or has left the page, cannot be heard or waited for.
HiddenIsSilent ==
  /\ target.request.kind = "occurrence" => target.request.cue \notin collapsed
  /\ ~mounted => target = NoTarget

\* One audition at a time, and one that can be stopped: an element that sounds
\* is the one the owner can pause, and its button, shown as active, is on the
\* page and not in a collapsed group.
OneVoice ==
  /\ \A v \in sounding : v = audio /\ v = version /\ target.request = request[v]
  /\ HiddenIsSilent

\* An error message is never shown beside an audition that goes on, so that
\* the disposal at the end of the audio, which keeps it, has none to keep.
ErrorOnlyWhenSilent == error # NoCue => target = NoTarget

\* The active button and the resources of the owner come and go together: a
\* target without them could never be left, resources without it never freed.
TargetIsBacked ==
  /\ target = NoTarget <=> controller = None /\ audio = None /\ url = None
  /\ target.status = "playing" => audio = version
  /\ target.status = "loading" => version \in {controller, audio}
  /\ audio = url
  /\ ErrorOnlyWhenSilent

\* The owner's resources are all there is, and they are there exactly as long as
\* a button is active: what no target stands for is released, and what a target
\* stands for can be released.
ResourcesFollowTheTarget == NothingLeaks /\ TargetIsBacked

\* A call that was superseded while it waited changes nothing but itself when
\* it resumes: a late audio does not replace, stop or relabel the current one.
LateAnswerIsInert ==
  [][\A v \in Versions :
       /\ calls[v] \in {"fetching", "starting"}
       /\ calls'[v] # calls[v]
       /\ version # v
       => UNCHANGED <<shownVars, resources, browserVars>>]_vars

\* A button at "loading" has a call that is still out, and that will not take
\* itself for superseded when it resumes: no abort, disposal or other call has
\* left a button that nothing turns again.
LoadingIsAwaited ==
  target.status = "loading" =>
    calls[version] \in {"fetching", "starting"} /\ ~Superseded(version)

\* What that call resumes with leads on: from the request to the start of the
\* element, and from there to the end of the loading.
LoadingLeadsOn ==
  [][target.status = "loading" /\ target'.status = "loading" /\ version' = version =>
       \/ calls'[version] = calls[version]
       \/ calls[version] = "fetching" /\ calls'[version] = "starting"]_vars

\* A button does not stay at "loading": the audition starts, fails or is
\* superseded. The bound on the versions must leave room for the failure.
LoadingEnds ==
  \A v \in Versions :
    version = v /\ target.status = "loading"
      ~> version # v \/ target.status # "loading" \/ version = MaxVersion
=============================================================================
