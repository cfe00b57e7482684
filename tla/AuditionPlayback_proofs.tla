----------------------- MODULE AuditionPlayback_proofs -----------------------
(***************************************************************************)
(* Proofs about AuditionPlayback, for every set of cues and every bound on *)
(* the versions. The argument: whatever the owner holds carries the        *)
(* current version, so that a call that still has the current version is   *)
(* the one whose controller, or element, the owner holds.                  *)
(***************************************************************************)
EXTENDS AuditionPlayback, TLAPS

\* What the owner holds is of the current version, a request or an element.
HeldIsCurrent ==
  /\ audio = url
  /\ audio \in {None, version}
  /\ controller \in {None, version}
  /\ controller = None \/ audio = None

\* Element by element, what exists in the browser is what the owner holds.
BrowserIsHeld ==
  \A v \in Versions :
    /\ v \in urls <=> v = audio
    /\ v \in handled <=> v = audio
    /\ v \in sounding => v = audio

\* Where a call is, told from what the owner holds.
CallsAreHeld ==
  \A v \in Versions :
    /\ calls[v] = "fetching" /\ v \notin aborted <=> v = controller
    /\ calls[v] = "starting" /\ v = version => v = audio
    /\ v > version => calls[v] = "idle" /\ v \notin aborted

\* The active target is the request of the current version.
TargetIsCurrent ==
  /\ target = NoTarget <=> controller = None /\ audio = None
  /\ target # NoTarget =>
       /\ version \in Versions
       /\ target.request = request[version]
  /\ target.status = "playing" => audio = version

IInv ==
  /\ TypeOK
  /\ HeldIsCurrent
  /\ BrowserIsHeld
  /\ CallsAreHeld
  /\ TargetIsCurrent
  /\ ErrorOnlyWhenSilent
  /\ HiddenIsSilent

-----------------------------------------------------------------------------
\* A page without an audition satisfies it.
LEMMA InitInv == Init => IInv
<1> SUFFICES ASSUME Init PROVE IInv
  OBVIOUS
<1> USE PlaybackAssumption
<1>1. TypeOK
  BY DEF Init, TypeOK, NoTarget, NoRequest, Versions, Stages, None
<1>2. HeldIsCurrent /\ BrowserIsHeld /\ CallsAreHeld
  BY DEF Init, HeldIsCurrent, BrowserIsHeld, CallsAreHeld, Versions, None
<1>3. TargetIsCurrent /\ ErrorOnlyWhenSilent /\ HiddenIsSilent
  BY DEF Init, TargetIsCurrent, ErrorOnlyWhenSilent, HiddenIsSilent, NoTarget,
         NoRequest, Target, Request, None
<1> QED BY <1>1, <1>2, <1>3 DEF IInv

\* An active target is the request the current version was started with, and
\* a held element has one.
LEMMA HeldHasRequest ==
  ASSUME IInv, audio # None \/ controller # None
  PROVE  /\ version \in Versions
         /\ target # NoTarget
         /\ target.request = request[version]
         /\ request[version] \in Requests
BY DEF IInv, TypeOK, TargetIsCurrent

\* disposePlayback, in any handler that ends the call it is in or none.
LEMMA DisposeStep ==
  ASSUME IInv, NEW held, NEW message \in Cues \cup {NoCue},
         Dispose(held, message),
         \/ held = controller /\ calls' = calls
         \/ /\ version \in Versions
            /\ held \in {controller, None}
            /\ calls' = [calls EXCEPT ![version] = "over"],
         request' = request, collapsed' \subseteq Cues, mounted' \in BOOLEAN
  PROVE  IInv'
<1> USE PlaybackAssumption
<1>1. /\ version \in 0..MaxVersion /\ version < MaxVersion
      /\ version' = version + 1 /\ MaxVersion \in Nat
      /\ target' = NoTarget /\ error' = message
      /\ controller' = None /\ audio' = None /\ url' = None
  BY DEF IInv, TypeOK, Dispose, DisposeResources
<1>2. /\ aborted' = aborted \cup ({held} \ {None})
      /\ sounding' = sounding \ {audio}
      /\ handled' = handled \ {audio}
      /\ urls' = urls \ {url}
  BY DEF Dispose, DisposeResources
<1>3. controller \in Versions \cup {None} /\ held \in {controller, None}
  BY DEF IInv, TypeOK
<1>4. TypeOK'
  <2>1. calls' \in [Versions -> Stages]
    BY DEF IInv, TypeOK, Stages
  <2>2. version' \in 0..MaxVersion
    BY <1>1
  <2>3. aborted' \subseteq Versions /\ urls' \subseteq Versions
        /\ sounding' \subseteq Versions /\ handled' \subseteq Versions
    BY <1>2, <1>3 DEF IInv, TypeOK
  <2> QED BY <1>1, <2>1, <2>2, <2>3 DEF IInv, TypeOK
<1>5. HeldIsCurrent'
  BY <1>1 DEF HeldIsCurrent
<1>6. BrowserIsHeld'
  BY <1>1, <1>2, None \notin Versions
     DEF IInv, BrowserIsHeld, HeldIsCurrent, Versions, None
<1>7. CallsAreHeld'
  <2> SUFFICES ASSUME NEW v \in Versions
               PROVE  /\ ~(calls'[v] = "fetching" /\ v \notin aborted')
                      /\ ~(calls'[v] = "starting" /\ v = version')
                      /\ v > version' => calls'[v] = "idle" /\ v \notin aborted'
    BY <1>1 DEF CallsAreHeld, Versions, None
  <2>1. /\ calls[v] = "fetching" /\ v \notin aborted <=> v = controller
        /\ v > version => calls[v] = "idle" /\ v \notin aborted
    BY DEF IInv, CallsAreHeld
  <2>2. calls'[v] = calls[v] \/ (v = version /\ calls'[v] = "over")
    BY DEF IInv, TypeOK
  <2>3. v \in Int /\ v # None
    BY DEF Versions, None
  <2>4. ~(calls'[v] = "fetching" /\ v \notin aborted')
    <3>1. CASE held = controller
      BY <1>2, <2>1, <2>2, <2>3, <3>1
    <3>2. CASE held # controller
      <4>1. calls' = [calls EXCEPT ![version] = "over"] /\ controller = version
        BY <1>3, <3>2 DEF IInv, HeldIsCurrent
      <4> QED BY <1>2, <2>1, <4>1 DEF IInv, TypeOK
    <3> QED BY <3>1, <3>2
  <2>5. v = version' => calls'[v] = "idle"
    BY <1>1, <2>1, <2>2, <2>3
  <2>6. v > version' => calls'[v] = "idle" /\ v \notin aborted'
    <3>1. version \in Int /\ version' \in Int /\ held \in {None, version}
      BY <1>1, <1>3 DEF IInv, HeldIsCurrent
    <3> QED BY <1>1, <1>2, <2>1, <2>2, <2>3, <3>1
  <2> QED BY <2>4, <2>5, <2>6
<1>8. TargetIsCurrent'
  BY <1>1 DEF TargetIsCurrent, NoTarget, Target
<1>9. ErrorOnlyWhenSilent' /\ HiddenIsSilent'
  BY <1>1
     DEF ErrorOnlyWhenSilent, HiddenIsSilent, NoTarget, NoRequest, Target,
         Request
<1> QED BY <1>4, <1>5, <1>6, <1>7, <1>8, <1>9 DEF IInv

\* A click on another button: disposePlayback with the new call's controller.
LEMMA PlayStep ==
  ASSUME IInv, NEW r \in Requests, Play(r)
  PROVE  IInv'
<1> USE PlaybackAssumption
<1>1. /\ version \in Nat /\ version < MaxVersion /\ MaxVersion \in Nat
      /\ version' = version + 1 /\ version' \in Versions
      /\ version' # None /\ None \notin Versions
      /\ controller' = version' /\ audio' = None /\ url' = None
      /\ error' = NoCue
  BY DEF IInv, TypeOK, Play, DisposeResources, Versions, None
<1>2. /\ aborted' = aborted \cup ({controller} \ {None})
      /\ sounding' = sounding \ {audio}
      /\ handled' = handled \ {audio}
      /\ urls' = urls \ {url}
      /\ target' = Target(r, "loading")
      /\ calls' = [calls EXCEPT ![version'] = "fetching"]
      /\ request' = [request EXCEPT ![version'] = r]
      /\ collapsed' = collapsed /\ mounted' = mounted
      /\ Visible(r)
  BY DEF Play, DisposeResources, pageVars
<1>3. target' \in [request : Requests, status : {"loading", "playing"}]
      /\ target'.request = r /\ target'.status = "loading"
      /\ request'[version'] = r
  BY <1>1, <1>2 DEF IInv, TypeOK, Target
<1>4. TypeOK'
  <2>1. calls' \in [Versions -> Stages]
        /\ request' \in [Versions -> Requests \cup {NoRequest}]
    BY <1>1, <1>2 DEF IInv, TypeOK, Stages
  <2>2. /\ version' \in 0..MaxVersion
        /\ {controller', audio', url'} \subseteq Versions \cup {None}
    BY <1>1
  <2>3. aborted' \subseteq Versions /\ urls' \subseteq Versions
        /\ sounding' \subseteq Versions /\ handled' \subseteq Versions
    BY <1>2 DEF IInv, TypeOK
  <2> QED BY <1>1, <1>2, <1>3, <2>1, <2>2, <2>3 DEF IInv, TypeOK
<1>5. HeldIsCurrent'
  BY <1>1 DEF HeldIsCurrent
<1>6. BrowserIsHeld'
  BY <1>1, <1>2 DEF IInv, BrowserIsHeld, HeldIsCurrent
<1>7. CallsAreHeld'
  <2> SUFFICES ASSUME NEW v \in Versions
               PROVE  /\ calls'[v] = "fetching" /\ v \notin aborted'
                           <=> v = version'
                      /\ ~(calls'[v] = "starting" /\ v = version')
                      /\ v > version' => calls'[v] = "idle" /\ v \notin aborted'
    BY <1>1 DEF CallsAreHeld
  <2>1. /\ calls[v] = "fetching" /\ v \notin aborted <=> v = controller
        /\ v > version => calls[v] = "idle" /\ v \notin aborted
        /\ controller \in {None, version}
    BY DEF IInv, CallsAreHeld, HeldIsCurrent
  <2>2. v \in Int /\ v # None
    BY DEF Versions, None
  <2>3. CASE v = version'
    <3>1. v \notin aborted
      BY <1>1, <2>1, <2>2, <2>3
    <3> QED BY <1>1, <1>2, <2>1, <2>2, <2>3, <3>1 DEF IInv, TypeOK
  <2>4. CASE v # version'
    BY <1>1, <1>2, <2>1, <2>2, <2>4 DEF IInv, TypeOK
  <2> QED BY <2>3, <2>4
<1>8. TargetIsCurrent'
  BY <1>1, <1>3 DEF TargetIsCurrent, NoTarget, Target
<1>9. ErrorOnlyWhenSilent' /\ HiddenIsSilent'
  BY <1>1, <1>2, <1>3
     DEF ErrorOnlyWhenSilent, HiddenIsSilent, IInv, Visible, NoTarget, Target
<1> QED BY <1>4, <1>5, <1>6, <1>7, <1>8, <1>9 DEF IInv

\* The audio arrives: the controller gives way to the element.
LEMMA FetchSucceedsStep ==
  ASSUME IInv, NEW v \in Versions, FetchSucceeds(v)
  PROVE  IInv'
<1> USE PlaybackAssumption
<1>1. /\ calls[v] = "fetching" /\ v \notin aborted /\ version = v
      /\ controller' = None /\ audio' = v /\ url' = v
      /\ urls' = urls \cup {v} /\ handled' = handled \cup {v}
      /\ sounding' = sounding \cup {v}
      /\ calls' = [calls EXCEPT ![v] = "starting"]
      /\ version' = version /\ target' = target /\ error' = error
      /\ request' = request /\ aborted' = aborted
      /\ collapsed' = collapsed /\ mounted' = mounted
  BY DEF FetchSucceeds, Superseded, shownVars, pageVars
<1>2. /\ v # None /\ v \in Int /\ controller = v /\ audio = None
      /\ None \notin Versions
  BY <1>1 DEF IInv, HeldIsCurrent, CallsAreHeld, Versions, None
<1>3. target # NoTarget
  BY <1>2, HeldHasRequest
<1>4. TypeOK'
  <2>1. calls' \in [Versions -> Stages]
    BY <1>1 DEF IInv, TypeOK, Stages
  <2> QED BY <1>1, <2>1 DEF IInv, TypeOK
<1>5. HeldIsCurrent'
  BY <1>1 DEF HeldIsCurrent
<1>6. BrowserIsHeld'
  BY <1>1, <1>2 DEF IInv, BrowserIsHeld
<1>7. CallsAreHeld'
  BY <1>1, <1>2 DEF IInv, TypeOK, CallsAreHeld, Versions
<1>8. TargetIsCurrent'
  BY <1>1, <1>2, <1>3 DEF IInv, TargetIsCurrent
<1>9. ErrorOnlyWhenSilent' /\ HiddenIsSilent'
  BY <1>1, <1>3 DEF IInv, ErrorOnlyWhenSilent, HiddenIsSilent
<1> QED BY <1>4, <1>5, <1>6, <1>7, <1>8, <1>9 DEF IInv

\* A call that ends, and may find the audition playing, with what it started
\* left in place.
LEMMA CallEndsStep ==
  ASSUME IInv, NEW v \in Versions, Return(v),
         \/ calls[v] = "starting"
         \/ calls[v] = "fetching" /\ Superseded(v),
         \/ target' = target
         \/ v = audio /\ target' = Target(request[v], "playing"),
         UNCHANGED <<version, error, resources, request, browserVars, pageVars>>
  PROVE  IInv'
<1> USE PlaybackAssumption
<1>1. /\ calls' = [calls EXCEPT ![v] = "over"]
      /\ version' = version /\ error' = error /\ request' = request
      /\ controller' = controller /\ audio' = audio /\ url' = url
      /\ aborted' = aborted /\ urls' = urls /\ sounding' = sounding
      /\ handled' = handled /\ collapsed' = collapsed /\ mounted' = mounted
  BY DEF Return, resources, browserVars, pageVars
<1>2. v # None /\ v \in Int /\ None \notin Versions
  BY DEF Versions, None
<1>3. calls' \in [Versions -> Stages]
  BY <1>1 DEF IInv, TypeOK, Stages
<1>4. calls[v] = "fetching" => v # controller
  BY <1>2 DEF IInv, Superseded, CallsAreHeld, HeldIsCurrent
<1>5. CallsAreHeld'
  BY <1>1, <1>2, <1>4 DEF IInv, TypeOK, CallsAreHeld
<1>6. HeldIsCurrent' /\ BrowserIsHeld'
  BY <1>1 DEF IInv, HeldIsCurrent, BrowserIsHeld
<1>7. CASE target' = target
  BY <1>1, <1>3, <1>5, <1>6, <1>7
     DEF IInv, TypeOK, TargetIsCurrent, ErrorOnlyWhenSilent, HiddenIsSilent
<1>8. CASE v = audio /\ target' = Target(request[v], "playing")
  <2>1. /\ version = v /\ target # NoTarget /\ target.request = request[v]
        /\ request[v] \in Requests
    BY <1>2, <1>8, HeldHasRequest DEF IInv, HeldIsCurrent
  <2>2. /\ target' \in [request : Requests, status : {"loading", "playing"}]
        /\ target'.request = target.request /\ target'.status = "playing"
        /\ target' # NoTarget
    BY <1>8, <2>1 DEF Target, NoTarget
  <2>3. TypeOK'
    BY <1>1, <1>3, <2>2 DEF IInv, TypeOK
  <2>4. TargetIsCurrent'
    BY <1>1, <1>2, <1>8, <2>1, <2>2 DEF TargetIsCurrent
  <2>5. ErrorOnlyWhenSilent' /\ HiddenIsSilent'
    BY <1>1, <2>1, <2>2 DEF IInv, ErrorOnlyWhenSilent, HiddenIsSilent
  <2> QED BY <1>5, <1>6, <2>3, <2>4, <2>5 DEF IInv
<1> QED BY <1>7, <1>8

\* `playing`, which names the element the owner holds.
LEMMA OnPlayingStep ==
  ASSUME IInv, NEW v \in Versions, OnPlaying(v)
  PROVE  IInv'
<1> USE PlaybackAssumption
<1>1. /\ target' = Target(request[v], "playing")
      /\ version' = version /\ error' = error /\ request' = request
      /\ calls' = calls
      /\ controller' = controller /\ audio' = audio /\ url' = url
      /\ aborted' = aborted /\ urls' = urls /\ sounding' = sounding
      /\ handled' = handled /\ collapsed' = collapsed /\ mounted' = mounted
  BY DEF OnPlaying, resources, browserVars, pageVars
<1>2. v # None /\ v = audio /\ v = version
  BY DEF OnPlaying, IInv, BrowserIsHeld, Versions, None
<1>3. /\ target # NoTarget /\ target.request = request[v]
      /\ request[v] \in Requests
  BY <1>2, HeldHasRequest
<1>4. /\ target' \in [request : Requests, status : {"loading", "playing"}]
      /\ target'.request = target.request /\ target'.status = "playing"
      /\ target' # NoTarget
  BY <1>1, <1>3 DEF Target, NoTarget
<1>5. TypeOK'
  BY <1>1, <1>4 DEF IInv, TypeOK
<1>6. HeldIsCurrent' /\ BrowserIsHeld' /\ CallsAreHeld'
  BY <1>1 DEF IInv, HeldIsCurrent, BrowserIsHeld, CallsAreHeld
<1>7. TargetIsCurrent'
  BY <1>1, <1>2, <1>3, <1>4 DEF TargetIsCurrent
<1>8. ErrorOnlyWhenSilent' /\ HiddenIsSilent'
  BY <1>1, <1>3, <1>4 DEF IInv, ErrorOnlyWhenSilent, HiddenIsSilent
<1> QED BY <1>5, <1>6, <1>7, <1>8 DEF IInv

-----------------------------------------------------------------------------
\* Every step of the page, the browser and the server preserves IInv.
LEMMA StepInv == IInv /\ [Next]_vars => IInv'
<1> SUFFICES ASSUME IInv, [Next]_vars PROVE IInv'
  OBVIOUS
<1> USE PlaybackAssumption
<1>0. /\ NoCue \in Cues \cup {NoCue} /\ error \in Cues \cup {NoCue}
      /\ collapsed \subseteq Cues /\ mounted \in BOOLEAN
      /\ \A v \in Versions : request[v].cue \in Cues \cup {NoCue}
  BY DEF IInv, TypeOK, Requests, NoRequest, Request
<1>1. ASSUME NEW r \in Requests, Halt(r) PROVE IInv'
  BY <1>0, <1>1, DisposeStep DEF Halt, pageVars
<1>2. ASSUME NEW r \in Requests, Play(r) PROVE IInv'
  BY <1>2, PlayStep
<1>3. ASSUME NEW cue \in Cues, Expand(cue) PROVE IInv'
  <2>1. /\ collapsed' = collapsed \ {cue} /\ mounted' = mounted
        /\ version' = version /\ target' = target /\ error' = error
        /\ controller' = controller /\ audio' = audio /\ url' = url
        /\ calls' = calls /\ request' = request /\ aborted' = aborted
        /\ urls' = urls /\ sounding' = sounding /\ handled' = handled
    BY <1>3 DEF Expand, shownVars, resources, browserVars
  <2> QED BY <2>1 DEF IInv, TypeOK, HeldIsCurrent, BrowserIsHeld, CallsAreHeld,
                      TargetIsCurrent, ErrorOnlyWhenSilent, HiddenIsSilent
<1>4. ASSUME NEW cue \in Cues, Collapse(cue) PROVE IInv'
  <2>1. /\ collapsed' = collapsed \cup {cue} /\ mounted' = mounted
        /\ calls' = calls /\ request' = request
    BY <1>4 DEF Collapse
  <2>2. CASE target.request.cue = cue
    BY <1>0, <1>4, <2>1, <2>2, DisposeStep DEF Collapse
  <2>3. CASE target.request.cue # cue
    <3>1. /\ version' = version /\ target' = target /\ error' = error
          /\ controller' = controller /\ audio' = audio /\ url' = url
          /\ aborted' = aborted /\ urls' = urls /\ sounding' = sounding
          /\ handled' = handled
      BY <1>4, <2>3 DEF Collapse, shownVars, resources, browserVars
    <3> QED BY <2>1, <2>3, <3>1
               DEF IInv, TypeOK, HeldIsCurrent, BrowserIsHeld, CallsAreHeld,
                   TargetIsCurrent, ErrorOnlyWhenSilent, HiddenIsSilent
  <2> QED BY <2>2, <2>3
<1>5. ASSUME Cleanup PROVE IInv'
  BY <1>0, <1>5, DisposeStep DEF Cleanup
<1>6. ASSUME NEW v \in Versions, FetchAbandoned(v) PROVE IInv'
  BY <1>6, CallEndsStep DEF FetchAbandoned, shownVars
<1>7. ASSUME NEW v \in Versions, FetchSucceeds(v) PROVE IInv'
  BY <1>7, FetchSucceedsStep
<1>8. ASSUME NEW v \in Versions, FetchFails(v) PROVE IInv'
  <2>1. PICK held \in {controller, None} : Dispose(held, request[v].cue)
    BY <1>8 DEF FetchFails
  <2>2. /\ v = version /\ calls' = [calls EXCEPT ![version] = "over"]
        /\ request' = request /\ collapsed' = collapsed /\ mounted' = mounted
    BY <1>8 DEF FetchFails, Superseded, Return, pageVars
  <2> QED BY <1>0, <2>1, <2>2, DisposeStep
<1>9. ASSUME NEW v \in Versions, StartAbandoned(v) PROVE IInv'
  BY <1>9, CallEndsStep DEF StartAbandoned, shownVars
<1>10. ASSUME NEW v \in Versions, StartSucceeds(v) PROVE IInv'
  <2>1. \/ target' = target
        \/ v = audio /\ target' = Target(request[v], "playing")
    BY <1>10 DEF StartSucceeds, IInv, BrowserIsHeld
  <2>2. /\ Return(v) /\ calls[v] = "starting"
        /\ UNCHANGED <<version, error, resources, request, browserVars, pageVars>>
    BY <1>10 DEF StartSucceeds
  <2> QED BY <2>1, <2>2, CallEndsStep
<1>11. ASSUME NEW v \in Versions, StartFails(v) PROVE IInv'
  <2>1. /\ Dispose(controller, request[v].cue)
        /\ v = version /\ calls' = [calls EXCEPT ![version] = "over"]
        /\ request' = request /\ collapsed' = collapsed /\ mounted' = mounted
    BY <1>11 DEF StartFails, Superseded, Return, pageVars
  <2> QED BY <1>0, <2>1, DisposeStep
<1>12. ASSUME NEW v \in Versions, PausedOutside(v) PROVE IInv'
  <2>1. /\ sounding' = sounding \ {v}
        /\ version' = version /\ target' = target /\ error' = error
        /\ controller' = controller /\ audio' = audio /\ url' = url
        /\ calls' = calls /\ request' = request /\ aborted' = aborted
        /\ urls' = urls /\ handled' = handled
        /\ collapsed' = collapsed /\ mounted' = mounted
    BY <1>12 DEF PausedOutside, shownVars, resources, pageVars
  <2> QED BY <2>1 DEF IInv, TypeOK, HeldIsCurrent, BrowserIsHeld, CallsAreHeld,
                      TargetIsCurrent, ErrorOnlyWhenSilent, HiddenIsSilent
<1>13. ASSUME NEW v \in Versions, OnPlaying(v) PROVE IInv'
  BY <1>13, OnPlayingStep
<1>14. ASSUME NEW v \in Versions, OnEnded(v) PROVE IInv'
  BY <1>0, <1>14, DisposeStep DEF OnEnded, pageVars
<1>15. ASSUME NEW v \in Versions, OnError(v) PROVE IInv'
  BY <1>0, <1>15, DisposeStep DEF OnError, pageVars
<1>16. ASSUME UNCHANGED vars PROVE IInv'
  BY <1>16 DEF vars, shownVars, resources, browserVars, pageVars, IInv, TypeOK,
               HeldIsCurrent, BrowserIsHeld, CallsAreHeld, TargetIsCurrent,
               ErrorOnlyWhenSilent, HiddenIsSilent
<1> QED BY <1>1, <1>2, <1>3, <1>4, <1>5, <1>6, <1>7, <1>8, <1>9, <1>10, <1>11,
           <1>12, <1>13, <1>14, <1>15, <1>16
        DEF Next, User, FetchSettles, StartSettles, ElementEvent

\* The invariant holds in every state.
LEMMA Invariance == Spec => []IInv
BY InitInv, StepInv, PTL DEF Spec

-----------------------------------------------------------------------------
\* Type correctness of the playback owner.
THEOREM TypeCorrect == Spec => []TypeOK
<1>1. IInv => TypeOK
  BY DEF IInv
<1> QED BY <1>1, Invariance, PTL

\* Whatever order clicks, answers and events come in, no object URL, request
\* or handler is left behind.
THEOREM Released == Spec => []NothingLeaks
<1>1. IInv => NothingLeaks
  <2> SUFFICES ASSUME IInv PROVE NothingLeaks
    OBVIOUS
  <2>1. /\ urls \subseteq Versions /\ handled \subseteq Versions
        /\ {controller, audio, url} \subseteq Versions \cup {None}
        /\ audio = url /\ None \notin Versions
    BY DEF IInv, TypeOK, HeldIsCurrent, Versions, None
  <2>2. urls = {url} \ {None} /\ handled = {audio} \ {None}
    BY <2>1 DEF IInv, BrowserIsHeld
  <2>3. {v \in Versions : calls[v] = "fetching"} \ aborted
          = {controller} \ {None}
    BY <2>1 DEF IInv, CallsAreHeld
  <2> QED BY <2>2, <2>3 DEF NothingLeaks
<1> QED BY <1>1, Invariance, PTL

\* At most one element sounds, the one the active button stops; and that
\* button is on the page.
THEOREM OneAtATime == Spec => []OneVoice
<1>1. IInv => OneVoice
  <2> SUFFICES ASSUME IInv, NEW v \in sounding
               PROVE  v = audio /\ v = version /\ target.request = request[v]
    BY DEF OneVoice, IInv
  <2>1. v \in Versions /\ v = audio /\ v # None
    BY DEF IInv, TypeOK, BrowserIsHeld, Versions, None
  <2> QED BY <2>1, HeldHasRequest DEF IInv, HeldIsCurrent
<1> QED BY <1>1, Invariance, PTL

\* The active button and the resources behind it come and go together, and an
\* error message excludes both.
THEOREM Backed == Spec => []TargetIsBacked
<1>1. IInv => TargetIsBacked
  <2> SUFFICES ASSUME IInv PROVE TargetIsBacked
    OBVIOUS
  <2>1. target.status = "loading" => version \in {controller, audio}
    BY DEF IInv, HeldIsCurrent, TargetIsCurrent, NoTarget, Target
  <2> QED BY <2>1 DEF IInv, HeldIsCurrent, TargetIsCurrent, TargetIsBacked
<1> QED BY <1>1, Invariance, PTL

\* The resources and the target come and go together, and nothing else is left.
THEOREM ResourcesFollow == Spec => []ResourcesFollowTheTarget
BY Released, Backed, PTL DEF ResourcesFollowTheTarget

\* An element that is loading is waited for.
LoadInv ==
  target.status = "loading" /\ audio = version =>
    calls[version] = "starting" /\ version \notin aborted

\* A call that resumes with an element leaves the loading behind, one that is
\* superseded is not that of the element held.
LEMMA LoadStep ==
  ASSUME IInv, LoadInv, [Next]_vars
  PROVE  LoadInv'
<1> USE DEF LoadInv
<1>0. /\ target' = NoTarget => LoadInv'
      /\ UNCHANGED <<target, audio, version, calls, aborted>> => LoadInv'
  BY DEF NoTarget, Target
<1>1. ASSUME NEW held, NEW message, Dispose(held, message) PROVE LoadInv'
  BY <1>0, <1>1 DEF Dispose
<1>2. ASSUME NEW r \in Requests, Play(r) PROVE LoadInv'
  <2>1. audio' = None /\ version' = version + 1 /\ version \in 0..MaxVersion /\ MaxVersion \in Nat
    BY <1>2, PlaybackAssumption DEF Play, DisposeResources, IInv, TypeOK
  <2> QED
    BY <2>1 DEF None
<1>3. ASSUME NEW r \in Requests, Halt(r) PROVE LoadInv'
  BY <1>1, <1>3 DEF Halt
<1>4. ASSUME NEW cue \in Cues, Expand(cue) \/ Collapse(cue) PROVE LoadInv'
  <2>1. \/ Dispose(controller, NoCue)
        \/ UNCHANGED <<target, audio, version, calls, aborted>>
    BY <1>4 DEF Expand, Collapse, shownVars, resources, browserVars
  <2> QED
    BY <1>0, <1>1, <2>1
<1>5. CASE Cleanup
  BY <1>1, <1>5 DEF Cleanup
<1>6. ASSUME NEW v \in Versions, FetchAbandoned(v) \/ StartAbandoned(v) PROVE LoadInv'
  <2>1. /\ UNCHANGED <<target, audio, version, aborted>>
        /\ calls' = [calls EXCEPT ![v] = "over"] /\ calls \in [Versions -> Stages]
        /\ calls[v] = "fetching" \/ (calls[v] = "starting" /\ (v \in aborted \/ version # v))
    BY <1>6 DEF FetchAbandoned, StartAbandoned, Return, Superseded, shownVars, resources,
                browserVars, IInv, TypeOK
  <2> QED
    BY <2>1
<1>7. ASSUME NEW v \in Versions, FetchSucceeds(v) PROVE LoadInv'
  BY <1>7 DEF FetchSucceeds, Superseded, shownVars, IInv, TypeOK
<1>8. ASSUME NEW v \in Versions, FetchFails(v) \/ StartFails(v) PROVE LoadInv'
  BY <1>1, <1>8 DEF FetchFails, StartFails
<1>9. ASSUME NEW v \in Versions, StartSucceeds(v) \/ OnPlaying(v) PROVE LoadInv'
  BY <1>9 DEF StartSucceeds, OnPlaying, Target
<1>10. ASSUME NEW v \in Versions, PausedOutside(v) PROVE LoadInv'
  BY <1>0, <1>10 DEF PausedOutside, shownVars, resources
<1>11. ASSUME NEW v \in Versions, OnEnded(v) \/ OnError(v) PROVE LoadInv'
  BY <1>1, <1>11 DEF OnEnded, OnError
<1>12. CASE UNCHANGED vars
  BY <1>0, <1>12 DEF vars, shownVars, resources, browserVars
<1> QED
  BY <1>2, <1>3, <1>4, <1>5, <1>6, <1>7, <1>8, <1>9, <1>10, <1>11, <1>12
  DEF Next, User, FetchSettles, StartSettles, ElementEvent

\* What loads is waited for, in every state.
LEMMA LoadInvariance == Spec => []LoadInv
<1>1. Init => LoadInv
  BY DEF Init, LoadInv, NoTarget, Target
<1>2. IInv /\ LoadInv /\ [Next]_vars => LoadInv'
  BY LoadStep
<1> QED
  BY <1>1, <1>2, Invariance, PTL DEF Spec

\* A button at "loading" is that of a call that is out and will be listened to.
THEOREM LoadingHasACall == Spec => []LoadingIsAwaited
<1>1. IInv /\ LoadInv => LoadingIsAwaited
  <2> SUFFICES ASSUME IInv, LoadInv, target.status = "loading"
               PROVE  calls[version] \in {"fetching", "starting"} /\ version \notin aborted
    BY DEF LoadingIsAwaited, Superseded
  <2>1. version \in Versions /\ version \in {controller, audio}
    BY DEF IInv, HeldIsCurrent, TargetIsCurrent, NoTarget, Target
  <2> QED
    BY <2>1 DEF IInv, CallsAreHeld, LoadInv
<1> QED
  BY <1>1, Invariance, LoadInvariance, PTL

\* When that call resumes it starts the element or ends the loading.
THEOREM LoadingGetsOn == Spec => LoadingLeadsOn
<1>1. ASSUME IInv, LoadInv, [Next]_vars, target.status = "loading",
             target'.status = "loading", version' = version
      PROVE  \/ calls'[version] = calls[version]
             \/ calls[version] = "fetching" /\ calls'[version] = "starting"
  <2>0. /\ version \in Versions /\ version \in 0..MaxVersion /\ version \in {controller, audio}
        /\ calls \in [Versions -> Stages] /\ NoTarget.status # "loading"
    BY <1>1 DEF IInv, TypeOK, HeldIsCurrent, TargetIsCurrent, NoTarget, Target
  <2>1. calls[version] \in {"fetching", "starting"} /\ version \notin aborted
    BY <1>1, <2>0 DEF IInv, CallsAreHeld, LoadInv
  <2>2. ~ \E held, message : Dispose(held, message)
    BY <1>1, <2>0 DEF Dispose
  <2>3. ~ \E r \in Requests : Halt(r) \/ Play(r)
    BY <1>1, <2>0, <2>2 DEF Halt, Play
  <2>4. ASSUME NEW v \in Versions, FetchAbandoned(v) \/ StartAbandoned(v)
        PROVE  calls'[version] = calls[version]
    BY <2>0, <2>1, <2>4 DEF FetchAbandoned, StartAbandoned, Superseded, Return
  <2>5. ASSUME NEW v \in Versions, FetchSucceeds(v)
        PROVE  calls[version] = "fetching" /\ calls'[version] = "starting"
    BY <2>0, <2>5 DEF FetchSucceeds, Superseded
  <2>6. ASSUME NEW v \in Versions PROVE ~ (FetchFails(v) \/ StartFails(v) \/ OnEnded(v) \/ OnError(v))
    BY <2>2 DEF FetchFails, StartFails, OnEnded, OnError
  <2>7. ASSUME NEW v \in Versions, StartSucceeds(v) PROVE FALSE
    BY <1>1, <2>7 DEF StartSucceeds, Target
  <2>8. ASSUME NEW v \in Versions, PausedOutside(v) \/ OnPlaying(v) PROVE calls' = calls
    BY <2>8 DEF PausedOutside, OnPlaying
  <2>9. ASSUME NEW cue \in Cues, Expand(cue) \/ Collapse(cue) PROVE calls' = calls
    BY <2>9 DEF Expand, Collapse
  <2>10. Cleanup \/ UNCHANGED vars => calls' = calls
    BY DEF Cleanup, vars
  <2> QED
    BY <1>1, <2>3, <2>4, <2>5, <2>6, <2>7, <2>8, <2>9, <2>10
    DEF Next, User, FetchSettles, StartSettles, ElementEvent
<1>2. IInv /\ LoadInv /\ [Next]_vars =>
        [target.status = "loading" /\ target'.status = "loading" /\ version' = version =>
           \/ calls'[version] = calls[version]
           \/ calls[version] = "fetching" /\ calls'[version] = "starting"]_vars
  BY <1>1
<1> QED
  BY <1>2, Invariance, LoadInvariance, PTL DEF Spec, LoadingLeadsOn

\* A superseded call changes nothing but itself when it resumes.
THEOREM LateAnswers == Spec => LateAnswerIsInert
<1>1. IInv /\ [Next]_vars =>
        [\A v \in Versions :
           /\ calls[v] \in {"fetching", "starting"}
           /\ calls'[v] # calls[v]
           /\ version # v
           => UNCHANGED <<shownVars, resources, browserVars>>]_vars
  <2> SUFFICES ASSUME IInv, Next, NEW v \in Versions,
                      calls[v] \in {"fetching", "starting"},
                      calls'[v] # calls[v], version # v
               PROVE  UNCHANGED <<shownVars, resources, browserVars>>
    OBVIOUS
  <2>1. ASSUME NEW r \in Requests, Play(r) PROVE FALSE
    <3>1. version \in Int /\ v \in Int /\ version' = version + 1
          /\ calls' = [calls EXCEPT ![version'] = "fetching"]
      BY <2>1 DEF Play, IInv, TypeOK, Versions
    <3>2. v = version'
      BY <3>1 DEF IInv, TypeOK
    <3> QED BY <3>1, <3>2 DEF IInv, CallsAreHeld
  <2>2. ASSUME NEW w \in Versions, FetchSettles(w) PROVE v = w
    BY <2>2 DEF FetchSettles, FetchAbandoned, FetchSucceeds, FetchFails, Return,
                IInv, TypeOK
  <2>3. ASSUME NEW w \in Versions, StartSettles(w) PROVE v = w
    BY <2>3 DEF StartSettles, StartAbandoned, StartSucceeds, StartFails, Return,
                IInv, TypeOK
  <2>4. ~FetchSucceeds(v) /\ ~FetchFails(v) /\ ~StartSucceeds(v) /\ ~StartFails(v)
    BY DEF FetchSucceeds, FetchFails, StartSucceeds, StartFails, Superseded
  <2>5. CASE FetchSettles(v) \/ StartSettles(v)
    BY <2>4, <2>5 DEF FetchSettles, StartSettles, FetchAbandoned, StartAbandoned
  <2>6. ASSUME User PROVE FALSE
    BY <2>1, <2>6 DEF User, Halt, Expand, Collapse, Cleanup
  <2>7. ASSUME NEW w \in Versions, ElementEvent(w) PROVE FALSE
    BY <2>7 DEF ElementEvent, PausedOutside, OnPlaying, OnEnded, OnError
  <2> QED BY <2>2, <2>3, <2>5, <2>6, <2>7 DEF Next
<1> QED BY <1>1, Invariance, PTL DEF Spec, LateAnswerIsInert
=============================================================================
