-------------------------- MODULE AnalysisRequests --------------------------
(***************************************************************************)
(* POST /analyses and the two audition endpoints, on the same Assets.      *)
(*                                                                         *)
(* A create request is validated, reserves its Assets, decodes the source  *)
(* and every cue, persists an Analysis and submits the arrays it decoded.  *)
(* Much later an audition reads the stored Assets again, without a         *)
(* reservation, and works out for itself how long a cue is.  What was      *)
(* accepted then has to be playable now.  In between the maintenance       *)
(* worker deletes what AssetRetention lets it delete, and the executor     *)
(* brings the Analysis to its end.                                         *)
(***************************************************************************)
EXTENDS SourceWindow, MediaCanonicalization, LifecycleRules, FiniteSets

CONSTANTS
  Assets,        \* identifiers of stored Assets
  Contents,      \* what they may hold: functions from Assets to Media
  Sources,       \* Assets a request names as its source
  CueRequests,   \* the cues a request is made of
  MaxCueCount,   \* most cues of one Analysis
  MaxAuditionDuration,  \* in seconds
  MaxResponse,   \* most bytes an audition may answer with
  WavHeader,     \* bytes ffmpeg writes before the samples of a WAV
  NoRecord       \* no Analysis, no request, no audition

Labels == {"none", "fine", "long"}

\* The rows of the repository: AnalysisRecord, without its timestamps.
Records == [state : LifecycleStates, source_asset_id : Assets, cues : Seq(CueRequests),
            threshold : {"default", "given", "bad"}]

ASSUME RequestAssumption ==
  /\ Contents \subseteq [Assets -> Media]
  /\ Sources \subseteq Assets
  /\ CueRequests \subseteq [cue_id : STRING, asset_id : Assets, label : Labels,
                            window : Window]
  /\ MaxCueCount \in Nat \ {0}
  /\ NoRecord \notin Records

\* The limits are independent of each other: those of a cue are the operator's
\* to set, those of an audition are not, and a file uploaded as source media
\* may be named as a cue.
ASSUME LimitAssumption ==
  /\ MaxCueDuration \in Nat /\ MaxAuditionDuration \in Nat
  /\ MaxResponse \in Nat /\ WavHeader \in Nat

\* The bytes of a rendered clip: one channel of 16-bit samples (-ac 1,
\* pcm_s16le).
RenderedSize(length) == WavHeader + 2 * length

\* The two limits of an audition, which no environment variable changes: the
\* longest clip fits the response (600 s at 48 kHz are 57.6 MB, of 64 MiB).
ASSUME RenderAssumption == RenderedSize(MaxAuditionDuration * CanonicalRate) <= MaxResponse

\* readframes(getnframes()) returns no more frames than the header announces.
ASSUME HeaderAssumption ==
  \A c \in Contents : \A x \in Assets :
    c[x].container = "wav" => c[x].present <= c[x].frames

VARIABLES
  content,     \* bytes of every Asset
  stored,      \* Assets not deleted yet
  request,     \* payload of the create request
  at,          \* where CreateAnalysisUseCase.create is
  source,      \* length of canonical_source
  arrays,      \* canonical_cues: cue_id to length
  references,  \* cue_references
  reserved,    \* Assets the request has reserved
  record,      \* the Analysis in the repository
  submitted,   \* what the executor was handed
  answer,      \* exception or NoError the create request ended with
  hits,        \* cues the Result has an occurrence of
  retained,    \* FALSE once the retention window of the Analysis is over
  audition,    \* the audition in progress
  heard        \* how the last audition ended

requestVars  == <<request, at, source, arrays, references, reserved, answer>>
analysisVars == <<record, submitted, hits, retained>>
auditionVars == <<audition, heard>>
vars == <<content, stored, requestVars, analysisVars, auditionVars>>

-----------------------------------------------------------------------------
(* Exceptions and statuses *)

\* Mutant of Translations: the route forgets the timeout of FFmpeg.
TranslationsWithoutTimeout ==
  [TooManyCuesError |-> 413, MediaDurationExceededError |-> 413,
   AssetContentIncompatibleError |-> 415, AssetCanonicalizationError |-> 415]

\* What _create_analysis turns into ResourceLimitExceededError and
\* UnsupportedMediaError.
Translations ==
  [TooManyCuesError |-> 413, MediaDurationExceededError |-> 413,
   AssetContentIncompatibleError |-> 415, AssetCanonicalizationError |-> 415,
   AssetProcessingTimeoutError |-> 415]

\* _EXCEPTION_STATUS_MAP, and the handler of every other exception.
ExceptionStatus ==
  [RequestValidationError |-> 422, InvalidCueRequestError |-> 400,
   InvalidAnalysisRecordError |-> 400, AssetNotFoundError |-> 404,
   AuditionTargetNotFoundError |-> 404, AnalysisNotFoundError |-> 404,
   AnalysisResultNotReadyError |-> 409, AnalysisFailedError |-> 409,
   AudioAuditionResourceLimitError |-> 413]

StatusOf(error) ==
  CASE error \in DOMAIN Translations -> Translations[error]
    [] error \in DOMAIN ExceptionStatus -> ExceptionStatus[error]
    [] OTHER -> 500

-----------------------------------------------------------------------------
(* Before any Asset is read *)

\* AnalysisCreateRequest: at least one cue, a score in [0, 1].
ShapeIsValid(r) == r.cues # <<>> /\ r.score # "bad"

\* CueRequest.__post_init__: the label, and start before end.
CueIsValid(cue) == cue.label # "long" /\ ~WindowRaises(cue.window)

\* The first exception a request raises before it has reserved anything.
RequestError(r) ==
  CASE ~ShapeIsValid(r) -> "RequestValidationError"
    [] ShapeIsValid(r) /\ \E i \in DOMAIN r.cues : ~CueIsValid(r.cues[i]) ->
         "InvalidCueRequestError"
    [] /\ ShapeIsValid(r) /\ \A i \in DOMAIN r.cues : CueIsValid(r.cues[i])
       /\ Len(r.cues) > MaxCueCount -> "TooManyCuesError"
    [] OTHER -> NoError

\* The source and the cues, without duplicates.
AssetsOf(r) == {r.source_asset_id} \cup {r.cues[i].asset_id : i \in DOMAIN r.cues}

Requests == [source_asset_id : Sources,
             cues : UNION {[1..n -> CueRequests] : n \in 0..MaxCueCount + 1},
             score : {"default", "given", "bad"}]

\* _create_analysis is called; the reservation is entered.
Receive(r) ==
  /\ at = "none"
  /\ request' = r
  /\ answer' = RequestError(r)
  /\ IF RequestError(r) = NoError
     THEN at' = "source" /\ reserved' = AssetsOf(r)
     ELSE at' = "done" /\ UNCHANGED reserved
  /\ UNCHANGED <<content, stored, source, arrays, references, analysisVars,
                 auditionVars>>

-----------------------------------------------------------------------------
(* CreateAnalysisUseCase.create, inside the reservation *)

\* Mutant of Fail: the exception leaves without the `with` block's exit.
FailAndKeep(error) ==
  /\ at' = "done"
  /\ answer' = error
  /\ UNCHANGED reserved

\* Any exception: the `with` block releases, nothing is persisted.
Fail(error) ==
  /\ at' = "done"
  /\ answer' = error
  /\ reserved' = {}

\* _resolve_and_canonicalize.
Resolve(asset_id, allowed, limit) ==
  IF asset_id \notin stored THEN Raised("AssetNotFoundError")
  ELSE Canonicalize(content[asset_id], allowed, limit)

ReadSource ==
  LET outcome == Resolve(request.source_asset_id, SourceContainers, MaxSourceDuration)
  IN /\ at = "source"
     /\ IF Succeeds(outcome)
        THEN /\ source' = outcome.length
             /\ at' = "cues"
             /\ UNCHANGED <<answer, reserved>>
        ELSE Fail(outcome.error) /\ UNCHANGED source
     /\ UNCHANGED <<content, stored, request, arrays, references, analysisVars,
                    auditionVars>>

NextCue == request.cues[Len(references) + 1]

\* _validate_source_search_window, then the cue's own Asset.
ResolveCue(cue) ==
  IF ~CreationAccepts(cue.window, source) THEN Raised("InvalidCueRequestError")
  ELSE Resolve(cue.asset_id, CueContainers, MaxCueDuration)

\* canonical_cues is a dict: a second cue of the same id takes the first's place.
ReadCue ==
  /\ at = "cues"
  /\ Len(references) < Len(request.cues)
  /\ LET outcome == ResolveCue(NextCue)
     IN IF Succeeds(outcome)
        THEN /\ arrays' = [c \in DOMAIN arrays \cup {NextCue.cue_id} |->
                             IF c = NextCue.cue_id THEN outcome.length ELSE arrays[c]]
             /\ references' = Append(references, NextCue)
             /\ UNCHANGED <<at, answer, reserved>>
        ELSE Fail(outcome.error) /\ UNCHANGED <<arrays, references>>
  /\ UNCHANGED <<content, stored, request, source, analysisVars, auditionVars>>

\* Mutant of RecordIsValid: duplicate cue ids pass.
RecordIsAny(cues) == cues # <<>>

\* AnalysisRecord.__post_init__ on the cues.
RecordIsValid(cues) ==
  /\ cues # <<>>
  /\ \A i, j \in DOMAIN cues : cues[i].cue_id = cues[j].cue_id => i = j

AllCuesRead == at = "cues" /\ Len(references) = Len(request.cues)

\* repository.create, then the exit of the `with` block.
Persist ==
  /\ AllCuesRead
  /\ IF RecordIsValid(references)
     THEN /\ record' = [state |-> QUEUED, source_asset_id |-> request.source_asset_id,
                        cues |-> references, threshold |-> request.score]
          /\ at' = "submit"
          /\ reserved' = {}
          /\ UNCHANGED answer
     ELSE Fail("InvalidAnalysisRecordError") /\ UNCHANGED record
  /\ UNCHANGED <<content, stored, request, source, arrays, references, submitted,
                 hits, retained, auditionVars>>

\* repository.create finds the database locked.
PersistRaises ==
  /\ AllCuesRead
  /\ RecordIsValid(references)
  /\ Fail("OperationalError")
  /\ UNCHANGED <<content, stored, request, source, arrays, references, analysisVars,
                 auditionVars>>

\* executor.submit, outside the reservation.
Submit ==
  /\ at = "submit"
  /\ submitted' = [source |-> source, cues |-> arrays]
  /\ at' = "done"
  /\ UNCHANGED <<content, stored, request, source, arrays, references, reserved, answer,
                 record, hits, retained, auditionVars>>

-----------------------------------------------------------------------------
(* What the executor and the maintenance worker do meanwhile *)

SliceLength(cue) ==
  SourceSlice(cue.window, submitted.source).last
    - SourceSlice(cue.window, submitted.source).first

\* Cues that can have an occurrence: not empty, no longer than their slice.
Findable ==
  {record.cues[i].cue_id : i \in {j \in DOMAIN record.cues :
     submitted.cues[record.cues[j].cue_id] \in 1..SliceLength(record.cues[j])}}

\* LocalAnalysisExecutor, as AnalysisExecution has it.
Execute ==
  /\ submitted # NoRecord
  /\ record.state \in {QUEUED, RUNNING}
  /\ \E to \in LifecycleStates :
       /\ IsValidTransition(record.state, to)
       /\ record' = [record EXCEPT !.state = to]
       /\ IF to = SUCCEEDED THEN hits' \in SUBSET Findable ELSE UNCHANGED hits
  /\ UNCHANGED <<content, stored, requestVars, submitted, retained, auditionVars>>

\* The retention window of a terminal Analysis passes.
Expire ==
  /\ record # NoRecord
  /\ IsTerminal(record.state)
  /\ retained
  /\ retained' = FALSE
  /\ UNCHANGED <<content, stored, requestVars, record, submitted, hits, auditionVars>>

\* A cleanup cycle deletes an Asset: what AssetRetention proves it may.
Delete(x) ==
  /\ x \in stored \ reserved
  /\ record # NoRecord /\ retained => x \notin AssetsOf(record)
  /\ stored' = stored \ {x}
  /\ UNCHANGED <<content, requestVars, analysisVars, auditionVars>>

-----------------------------------------------------------------------------
(* QueryAnalysisUseCase: auditions *)

Targets == [kind : {"cue"}, cue_id : {c.cue_id : c \in CueRequests}, index : {0}]
             \cup [kind : {"occurrence"}, cue_id : {c.cue_id : c \in CueRequests},
                   index : {0, 1}]

\* get_result: the states that have none.
ResultError ==
  CASE record = NoRecord -> "AnalysisNotFoundError"
    [] record # NoRecord /\ record.state \in {QUEUED, RUNNING} ->
         "AnalysisResultNotReadyError"
    [] record # NoRecord /\ record.state = FAILED -> "AnalysisFailedError"
    [] OTHER -> NoError

\* _find_cue_reference.
ReferencesTo(cue_id) == {i \in DOMAIN record.cues : record.cues[i].cue_id = cue_id}

\* _resolve_occurrence: one occurrence, at index 0, of the cues in hits.
OccurrenceExists(target) == target.cue_id \in hits /\ target.index = 0

\* Everything an audition checks before it reads an Asset.
TargetError(target) ==
  IF ResultError # NoError THEN ResultError
  ELSE IF \/ ReferencesTo(target.cue_id) = {}
          \/ target.kind = "occurrence" /\ ~OccurrenceExists(target)
  THEN "AuditionTargetNotFoundError"
  ELSE NoError

Silent == [target |-> NoRecord, length |-> 0]

\* The audition ends with a WAV of that length, or with an exception.
Answer(target, outcome) ==
  /\ audition' = Silent
  /\ heard' = [target |-> target, outcome |-> outcome]

Listen(target) ==
  /\ audition = Silent
  /\ IF TargetError(target) = NoError
     THEN audition' = [target |-> target, length |-> 0] /\ UNCHANGED heard
     ELSE Answer(target, Raised(TargetError(target)))
  /\ UNCHANGED <<content, stored, requestVars, analysisVars>>

\* Mutant of WithinLimits: exactly the limit is too much.
BelowLimits(outcome, size) ==
  IF outcome.length >= MaxAuditionDuration * CanonicalRate \/ size >= MaxResponse
  THEN Raised("AudioAuditionResourceLimitError")
  ELSE outcome

\* _enforce_audition_duration_limit and _enforce_audition_response_byte_limit.
WithinLimits(outcome, size) ==
  IF outcome.length > MaxAuditionDuration * CanonicalRate \/ size > MaxResponse
  THEN Raised("AudioAuditionResourceLimitError")
  ELSE outcome

CueAsset(cue_id) ==
  record.cues[CHOOSE i \in ReferencesTo(cue_id) :
                \A j \in ReferencesTo(cue_id) : i <= j].asset_id

\* read, _canonical_wav_duration_seconds and the limits, on the cue: the bytes
\* of the file count only if the answer is the file.
CueClip(target) ==
  LET asset_id == CueAsset(target.cue_id)
      timing == AuditionLength(content[asset_id])
  IN IF asset_id \notin stored THEN Raised("AssetNotFoundError")
     ELSE IF ~Succeeds(timing) THEN timing
     ELSE WithinLimits(timing, IF target.kind = "cue" THEN content[asset_id].size
                                                      ELSE 0)

\* get_cue_audition answers with the file; get_occurrence_audition goes on to
\* the source.
ReadClip ==
  LET target == audition.target
      clip == CueClip(target)
  IN /\ audition # Silent
     /\ audition.length = 0
     /\ IF target.kind = "occurrence" /\ Succeeds(clip)
        THEN audition' = [audition EXCEPT !.length = clip.length] /\ UNCHANGED heard
        ELSE Answer(target, clip)
     /\ UNCHANGED <<content, stored, requestVars, analysisVars>>

\* render_wav_segment: ffmpeg writes at most the duration asked for, or fails.
Rendered(length) ==
  {Raised("AudioAuditionRenderingError"), WithinLimits(Canonical(length), RenderedSize(length))}

Render ==
  /\ audition.length # 0
  /\ \E outcome \in IF record.source_asset_id \in stored
                    THEN Rendered(audition.length)
                    ELSE {Raised("AssetNotFoundError")} :
       Answer(audition.target, outcome)
  /\ UNCHANGED <<content, stored, requestVars, analysisVars>>

-----------------------------------------------------------------------------
(* The specification *)

Init ==
  /\ content \in Contents
  /\ stored = Assets
  /\ request = NoRecord
  /\ at = "none"
  /\ source = 0
  /\ arrays = [c \in {} |-> 0]
  /\ references = <<>>
  /\ reserved = {}
  /\ record = NoRecord
  /\ submitted = NoRecord
  /\ answer = NoError
  /\ hits = {}
  /\ retained = TRUE
  /\ audition = Silent
  /\ heard = NoRecord

Next ==
  \/ \E r \in Requests : Receive(r)
  \/ ReadSource
  \/ ReadCue
  \/ Persist
  \/ PersistRaises
  \/ Submit
  \/ Execute
  \/ Expire
  \/ \E x \in Assets : Delete(x)
  \/ \E t \in Targets : Listen(t)
  \/ ReadClip
  \/ Render

Spec == Init /\ [][Next]_vars

-----------------------------------------------------------------------------
(* Properties *)

\* Every variable holds a value of its kind.
TypeOK ==
  /\ content \in Contents
  /\ stored \subseteq Assets
  /\ request \in Requests \cup {NoRecord}
  /\ at \in {"none", "source", "cues", "submit", "done"}
  /\ source \in Nat
  /\ DOMAIN arrays \subseteq {c.cue_id : c \in CueRequests}
  /\ references \in Seq(CueRequests)
  /\ reserved \subseteq Assets
  /\ hits \subseteq {c.cue_id : c \in CueRequests}
  /\ retained \in BOOLEAN
  /\ audition.length \in Nat

\* A create request that ends with an error has persisted nothing, has handed
\* nothing to the executor, and protects no Asset from cleanup any more; one
\* that has not ended protects everything it is going to refer to.
RejectionLeavesNothing ==
  /\ at = "done" /\ answer # NoError =>
       record = NoRecord /\ submitted = NoRecord /\ reserved = {}
  /\ at \in {"source", "cues"} => reserved = AssetsOf(request)
  /\ at \in {"none", "submit", "done"} => reserved = {}

\* What the executor is handed is what the record describes: an array for each
\* cue, decoded from that cue's own Asset, and a source in which none of the
\* windows is refused a second time.
SubmittedMatchesRecord ==
  submitted # NoRecord =>
    /\ DOMAIN submitted.cues = {record.cues[i].cue_id : i \in DOMAIN record.cues}
    /\ \A i \in DOMAIN record.cues :
         LET cue == record.cues[i]
         IN /\ Canonicalize(content[cue.asset_id], CueContainers, MaxCueDuration)
                 = Canonical(submitted.cues[cue.cue_id])
            /\ ~SliceRaises(cue.window, submitted.source)

\* The cue lasts longer than an audition may; or the answer is its file, and
\* that is larger than an answer may be.
IsTooLarge(target) ==
  LET cue == content[CueAsset(target.cue_id)]
  IN \/ cue.frames > MaxAuditionDuration * cue.rate
     \/ target.kind = "cue" /\ cue.size > MaxResponse

\* A cue an Analysis was created with can be played while the Analysis is
\* retained, at least as long as it was matched, unless its header announces no
\* frames or the audition's own limits are exceeded.  They are, for the cue, by
\* a duration above the audition's (never for a cue that lasts exactly as long,
\* whatever the resampling rounds to) or by a file larger than the answer may
\* be; for an occurrence by that duration only.  Such a cue was fit for upload
\* and matching all the same, as docs/supported-media-and-limits.md:176-182
\* says.  Otherwise an occurrence fails only if the rendering does.
AcceptedCuesCanBePlayed ==
  heard # NoRecord /\ ResultError = NoError =>
    LET error == heard.outcome.error
        cue_id == heard.target.cue_id
    IN /\ StatusOf(error) = 413 => IsTooLarge(heard.target)
       /\ error = "AssetNotFoundError" => ~retained
       /\ error = NoError => heard.outcome.length >= submitted.cues[cue_id]
       /\ error = "AudioAuditionRenderingError" /\ heard.target.kind = "cue" =>
            content[CueAsset(cue_id)].frames = 0

\* The service blames itself for a create request only if the repository
\* raised or the data of an Asset ends inside a sample; every other Asset that
\* cannot be used is the client's error.
ServerErrorsHaveACause ==
  StatusOf(answer) = 500 /\ answer # NoError =>
    \/ answer = "OperationalError"
    \/ \E x \in AssetsOf(request) : content[x].ragged

\* A rejected create request has a cause the client can be told of, and no
\* effect.
RejectionsHaveACauseAndNoEffect == RejectionLeavesNothing /\ ServerErrorsHaveACause

=============================================================================
