------------------------ MODULE AnalysisRequests_proofs ------------------------
(***************************************************************************)
(* Proofs about AnalysisRequests, for any contents of the Assets, requests *)
(* and limits.                                                             *)
(***************************************************************************)
EXTENDS AnalysisRequests, SequenceTheorems, TLAPS

-----------------------------------------------------------------------------
(* Lengths *)

\* What \div and % are.
LEMMA DivisionHasRemainder ==
  ASSUME NEW n \in Nat, NEW d \in Nat \ {0}
  PROVE  /\ n \div d \in Nat /\ n % d \in 0..d - 1
         /\ n = d * (n \div d) + (n % d)
OBVIOUS

\* A rounded quotient is at most half away.
LEMMA QuotientIsNear ==
  ASSUME NEW n \in Nat, NEW d \in Nat \ {0}
  PROVE  /\ RoundedQuotient(n, d) \in Nat
         /\ 2 * (d * RoundedQuotient(n, d)) <= 2 * n + d
         /\ 2 * (d * RoundedQuotient(n, d)) >= 2 * n - d
<1> DEFINE q == n \div d
           r == n % d
<1>1. q \in Nat /\ r \in 0..d - 1 /\ n = d * q + r
  BY DivisionHasRemainder
<1>2. \/ RoundedQuotient(n, d) = q /\ 2 * r <= d
      \/ RoundedQuotient(n, d) = q + 1 /\ 2 * r >= d
  BY <1>1 DEF RoundedQuotient
<1> HIDE DEF q, r
<1>3. d * (q + 1) = d * q + d /\ d * q \in Nat
  BY <1>1
<1> QED
  BY <1>1, <1>2, <1>3

\* Multiples of d that are less than d apart.
LEMMA LessThanOneApart ==
  ASSUME NEW d \in Nat \ {0}, NEW x \in Int, NEW y \in Int, d * x < d * y + d
  PROVE  x <= y
<1> SUFFICES ASSUME x >= y + 1 PROVE FALSE
  OBVIOUS
<1>1. d * (y + 1) = d * y + d
  OBVIOUS
<1>2. d * x >= d * (y + 1)
  OBVIOUS
<1> QED
  BY <1>1, <1>2

\* Rounding respects order, ...
LEMMA QuotientIsMonotone ==
  ASSUME NEW m \in Nat, NEW n \in Nat, NEW d \in Nat \ {0}, m <= n
  PROVE  RoundedQuotient(m, d) <= RoundedQuotient(n, d)
<1> DEFINE x == RoundedQuotient(m, d)
           y == RoundedQuotient(n, d)
<1>1. CASE m = n
  <2>1. x \in Nat /\ x = y
    BY <1>1, QuotientIsNear
  <2> QED
    BY <2>1
<1>2. CASE m < n
  <2>1. /\ x \in Nat /\ y \in Nat
        /\ 2 * (d * x) <= 2 * m + d /\ 2 * (d * y) >= 2 * n - d
    BY QuotientIsNear
  <2> HIDE DEF x, y
  <2>2. d * x \in Int /\ d * y \in Int
    BY <2>1
  <2>3. d * x < d * y + d
    BY <1>2, <2>1, <2>2
  <2>4. x <= y
    BY <2>1, <2>3, LessThanOneApart
  <2> QED
    BY <2>4 DEF x, y
<1> QED
  BY <1>1, <1>2

\* ... and does not pass an integer.
LEMMA QuotientStaysBelow ==
  ASSUME NEW n \in Nat, NEW d \in Nat \ {0}, NEW k \in Nat, n <= k * d
  PROVE  RoundedQuotient(n, d) <= k
<1> DEFINE x == RoundedQuotient(n, d)
<1>1. x \in Nat /\ 2 * (d * x) <= 2 * n + d
  BY QuotientIsNear
<1> HIDE DEF x
<1>2. d * x \in Int /\ d * k \in Int /\ d * k = k * d
  BY <1>1
<1>3. d * x < d * k + d
  BY <1>1, <1>2
<1>4. x <= k
  BY <1>1, <1>3, LessThanOneApart
<1> QED
  BY <1>4 DEF x

\* A cue is played for at least as long as it is matched, and for no longer
\* than its duration is allowed to be.
LEMMA PlayedAsLongAsMatched ==
  ASSUME NEW wav \in Media, NEW limit \in Nat, wav.rate # 0, wav.frames # 0,
         wav.present <= wav.frames, wav.frames <= limit * wav.rate
  PROVE  /\ PlayableLength(wav) \in Nat \ {0}
         /\ ResampledLength(wav.present, wav.rate) <= PlayableLength(wav)
         /\ PlayableLength(wav) <= limit * CanonicalRate
<1> DEFINE f == wav.frames  p == wav.present  d == wav.rate  c == CanonicalRate
<1>1. f \in Nat \ {0} /\ p \in Nat /\ d \in Nat \ {0} /\ c \in Nat \ {0}
  BY CanonicalAssumption DEF Media
<1>2. PlayableLength(wav) = AtLeastOne(RoundedQuotient(f * c, d))
  BY DEF PlayableLength
<1>3. ResampledLength(p, d) =
        IF d = c \/ p = 0 THEN p ELSE AtLeastOne(RoundedQuotient(p * c, d))
  BY DEF ResampledLength
<1>4. p <= f /\ f <= limit * d
  OBVIOUS
<1> HIDE DEF f, p, d, c
<1>5. f * c \in Nat /\ p * c \in Nat /\ p * c <= f * c
  BY <1>1, <1>4
<1>6. /\ RoundedQuotient(f * c, d) \in Nat /\ RoundedQuotient(p * c, d) \in Nat
      /\ RoundedQuotient(p * c, d) <= RoundedQuotient(f * c, d)
  BY <1>1, <1>5, QuotientIsNear, QuotientIsMonotone
<1>7. RoundedQuotient(f * c, d) <= limit * c
  <2>1. f * c <= (limit * d) * c
    BY <1>1, <1>4
  <2>2. (limit * d) * c = (limit * c) * d
    BY <1>1
  <2>3. limit * c \in Nat
    BY <1>1
  <2> QED
    BY <1>1, <1>5, <2>1, <2>2, <2>3, QuotientStaysBelow
<1>8. limit * c >= 1
  <2>1. limit # 0
    BY <1>1, <1>4
  <2> QED
    BY <1>1, <2>1
<1>9. d = c => p <= RoundedQuotient(f * c, d)
  <2>1. ASSUME d = c PROVE 2 * (d * RoundedQuotient(f * c, d)) >= 2 * (f * c) - d
    BY <1>1, <1>5, QuotientIsNear
  <2> DEFINE x == RoundedQuotient(f * c, d)
  <2>2. x \in Nat
    BY <1>6
  <2> HIDE DEF x
  <2>3. ASSUME d = c PROVE d * f < d * x + d
    <3>1. 2 * (d * x) >= 2 * (f * d) - d
      BY <2>1, <2>3 DEF x
    <3>2. f * d = d * f /\ d * f \in Nat /\ d * x \in Nat
      BY <1>1, <2>2
    <3> QED
      BY <1>1, <3>1, <3>2
  <2>4. d = c => f <= x
    BY <1>1, <2>2, <2>3, LessThanOneApart
  <2> QED
    BY <1>1, <1>4, <2>2, <2>4 DEF x
<1>10. /\ PlayableLength(wav) \in Nat \ {0}
       /\ RoundedQuotient(f * c, d) <= PlayableLength(wav)
       /\ PlayableLength(wav) <= limit * c
  BY <1>1, <1>2, <1>6, <1>7, <1>8 DEF AtLeastOne
<1>11. ResampledLength(p, d) <= PlayableLength(wav)
  <2>1. CASE p = 0
    BY <1>3, <1>10, <2>1
  <2>2. CASE d = c
    BY <1>1, <1>3, <1>6, <1>9, <1>10, <2>2
  <2>3. CASE p # 0 /\ d # c
    BY <1>3, <1>6, <1>10, <2>3 DEF AtLeastOne
  <2> QED
    BY <2>1, <2>2, <2>3
<1> QED
  BY <1>10, <1>11 DEF p, d, c

-----------------------------------------------------------------------------
(* What can become of an Asset and of a request *)

\* The errors a client is told of when an Asset cannot be used.
MediaErrors ==
  {"AssetContentIncompatibleError", "AssetCanonicalizationError",
   "AssetProcessingTimeoutError", "MediaDurationExceededError"}

\* Those it is told of before an Asset has been read, or without reading one.
ClientErrors ==
  MediaErrors \cup {"RequestValidationError", "InvalidCueRequestError", "TooManyCuesError",
                    "AssetNotFoundError", "InvalidAnalysisRecordError"}

\* Those of an audition that has read no Asset.
Refusals ==
  {"AnalysisNotFoundError", "AnalysisResultNotReadyError", "AnalysisFailedError",
   "AuditionTargetNotFoundError"}

\* The statuses of the errors above.
LEMMA StatusesOfErrors ==
  /\ \A error \in ClientErrors : StatusOf(error) # 500 /\ error # NoError
  /\ \A error \in Refusals : StatusOf(error) # 413
  /\ StatusOf("AssetNotFoundError") # 413
  /\ StatusOf("AudioAuditionRenderingError") # 413
  /\ StatusOf(NoError) # 413
BY DEF ClientErrors, MediaErrors, Refusals, StatusOf, Translations, ExceptionStatus, NoError

\* Decoding a WAV gives an array, one of those errors, or the bare ValueError.
LEMMA WavOutcomes ==
  ASSUME NEW wav \in Media, NEW limit
  PROVE  LET outcome == DecodeWav(wav, limit)
         IN /\ \/ /\ outcome = Canonical(ResampledLength(wav.present, wav.rate))
                  /\ wav.rate # 0
               \/ outcome = Raised(outcome.error) /\ outcome.error \in MediaErrors
               \/ outcome = Raised("ValueError") /\ wav.ragged
            /\ Succeeds(outcome) =>
                 /\ outcome = Canonical(ResampledLength(wav.present, wav.rate))
                 /\ wav.parses /\ wav.rate # 0 /\ ~ExceedsDuration(wav.frames, wav.rate, limit)
<1> DEFINE outcome == DecodeWav(wav, limit)
<1>1. \/ outcome = Raised("AssetCanonicalizationError")
      \/ outcome = Raised("MediaDurationExceededError")
      \/ outcome = Raised("ValueError") /\ wav.ragged
      \/ /\ outcome = Canonical(ResampledLength(wav.present, wav.rate))
         /\ wav.parses /\ wav.rate # 0 /\ ~ExceedsDuration(wav.frames, wav.rate, limit)
  BY DEF DecodeWav, PcmError, NoError
<1> QED
  BY <1>1 DEF Succeeds, Raised, Canonical, NoError, MediaErrors

\* So does canonicalization, whose ValueError comes from the Asset itself.
LEMMA CanonicalOutcomes ==
  ASSUME NEW media \in Media, NEW allowed, NEW limit
  PROVE  LET outcome == Canonicalize(media, allowed, limit)
         IN \/ /\ outcome = Canonical(ResampledLength(media.present, media.rate))
               /\ media.rate # 0
            \/ outcome = Raised(outcome.error) /\ outcome.error \in MediaErrors
            \/ outcome = Raised("ValueError") /\ media.ragged
<1> DEFINE outcome == Canonicalize(media, allowed, limit)
<1>1. \/ outcome = Raised("AssetContentIncompatibleError")
      \/ outcome = DecodeWav(media, limit)
      \/ outcome = DecodeVideo(media, limit)
  BY DEF Canonicalize
<1>2. CASE outcome = DecodeVideo(media, limit)
  <2>1. /\ Extracted(media) \in Media /\ ~Extracted(media).ragged
        /\ Extracted(media).present = media.present /\ Extracted(media).rate = media.rate
    BY DEF Extracted, Media, Containers
  <2>2. \/ outcome = DecodeWav(Extracted(media), limit)
        \/ outcome \in {Raised("AssetProcessingTimeoutError"),
                        Raised("AssetCanonicalizationError"),
                        Raised("MediaDurationExceededError")}
    BY <1>2 DEF DecodeVideo, Translated
  <2> QED
    BY <2>1, <2>2, WavOutcomes DEF Raised, MediaErrors
<1> QED
  BY <1>1, <1>2, WavOutcomes DEF Raised, MediaErrors

\* A cue that was decoded is a WAV with a readable header, within the limit.
LEMMA DecodedCues ==
  ASSUME NEW media \in Media, NEW length,
         Canonicalize(media, CueContainers, MaxCueDuration) = Canonical(length)
  PROVE  /\ media.container = "wav" /\ media.parses /\ media.rate # 0
         /\ media.frames <= MaxCueDuration * media.rate
         /\ length = ResampledLength(media.present, media.rate)
<1> DEFINE outcome == Canonicalize(media, CueContainers, MaxCueDuration)
<1>1. outcome.error = NoError /\ outcome.length = length
  BY DEF Canonical
<1>2. media.container = "wav" /\ outcome = DecodeWav(media, MaxCueDuration)
  BY <1>1 DEF Canonicalize, CueContainers, Raised, NoError
<1>3. Succeeds(DecodeWav(media, MaxCueDuration))
  BY <1>1, <1>2 DEF Succeeds
<1>4. /\ outcome = Canonical(ResampledLength(media.present, media.rate))
      /\ media.parses /\ media.rate # 0
      /\ ~ExceedsDuration(media.frames, media.rate, MaxCueDuration)
  BY <1>2, <1>3, WavOutcomes
<1>5. length = ResampledLength(media.present, media.rate)
  BY <1>1, <1>4 DEF Canonical
<1>6. media.rate \in Nat /\ media.frames \in Nat /\ MaxCueDuration \in Nat
  BY LimitAssumption DEF Media
<1>7. media.frames <= MaxCueDuration * media.rate
  BY <1>4, <1>6 DEF ExceedsDuration
<1> QED
  BY <1>2, <1>4, <1>5, <1>7

\* A window that the creation accepts is not refused by the slice.
LEMMA AcceptedIsNotRefused ==
  ASSUME NEW window \in Window, NEW samples \in Nat, CreationAccepts(window, samples)
  PROVE  ~SliceRaises(window, samples)
<1>1. \A time \in Nat : Round(time) \in Nat
  BY DEF Round, UnitsPerSample
<1>2. window.start \in Nat \cup {NoBound} /\ window.end \in Nat \cup {NoBound}
  BY DEF Window, Times
<1>3. StartIndex(window) \in Nat /\ EndIndex(window, samples) \in Nat
  BY <1>1, <1>2 DEF StartIndex, StartTime, EndIndex, NoBound
<1> QED
  BY <1>2, <1>3
  DEF CreationAccepts, SliceRaises, StartTime, EndTime, Duration, UnitsPerSample, NoBound

-----------------------------------------------------------------------------
(* The invariant *)

\* The variables a request goes by.
DataInv ==
  /\ content \in Contents
  /\ at \in {"none", "source", "cues", "submit", "done"}
  /\ at # "none" => request \in Requests
  /\ source \in Nat
  /\ references \in Seq(CueRequests)
  /\ record # NoRecord => record \in Records

\* The array of a cue was decoded from the cue's own Asset.
Decoded(cue) ==
  Canonicalize(content[cue.asset_id], CueContainers, MaxCueDuration)
    = Canonical(arrays[cue.cue_id])

\* What has been read so far: an array for each id, the last cue's of that id.
ReadInv ==
  /\ at \in {"none", "source"} => references = <<>>
  /\ DOMAIN arrays = {references[i].cue_id : i \in DOMAIN references}
  /\ \A i \in DOMAIN references : CreationAccepts(references[i].window, source)
  /\ \A i \in DOMAIN references :
       (\A j \in DOMAIN references : references[j].cue_id = references[i].cue_id => j <= i)
         => Decoded(references[i])

\* What has been read is reserved until a record refers to it, and then kept
\* for as long as the record is retained.
KeepInv ==
  /\ at \in {"source", "cues"} => reserved = AssetsOf(request)
  /\ at \notin {"source", "cues"} => reserved = {}
  /\ at = "cues" => request.source_asset_id \in stored
  /\ at = "cues" => \A i \in DOMAIN references : references[i].asset_id \in stored
  /\ at = "cues" => \A i \in DOMAIN references : references[i].asset_id \in AssetsOf(request)
  /\ record # NoRecord /\ retained => AssetsOf(record) \subseteq stored

\* Record and arrays are those of the request, and nothing is there too early.
RecordInv ==
  /\ at = "submit" \/ submitted # NoRecord => record # NoRecord
  /\ record # NoRecord => record.cues = references /\ RecordIsValid(references)
  /\ at \in {"none", "source", "cues"} => record = NoRecord
  /\ at # "done" => submitted = NoRecord
  /\ submitted # NoRecord => submitted = [source |-> source, cues |-> arrays]
  /\ record # NoRecord /\ record.state # QUEUED => submitted # NoRecord

\* How a request ended.
AnswerInv ==
  /\ at \notin {"done"} => answer = NoError
  /\ answer # NoError => record = NoRecord /\ submitted = NoRecord
  /\ \/ answer \in ClientErrors \cup {NoError, "OperationalError"}
     \/ answer = "ValueError" /\ \E x \in AssetsOf(request) : content[x].ragged

RequestInv == DataInv /\ ReadInv /\ KeepInv /\ RecordInv /\ AnswerInv

\* The contents of an Asset are Media.
LEMMA ContentsAreMedia ==
  ASSUME DataInv, NEW x \in Assets
  PROVE  content[x] \in Media
BY RequestAssumption DEF DataInv

\* A request names Assets, and its cues are a sequence.
LEMMA RequestsNameAssets ==
  ASSUME NEW r \in Requests
  PROVE  /\ r.cues \in Seq(CueRequests) /\ Len(r.cues) \in Nat
         /\ r.source_asset_id \in Assets
         /\ AssetsOf(r) \subseteq Assets
         /\ \A i \in DOMAIN r.cues : /\ r.cues[i] \in CueRequests
                                     /\ r.cues[i].asset_id \in AssetsOf(r)
<1>1. PICK n \in 0..MaxCueCount + 1 : r.cues \in [1..n -> CueRequests]
  BY DEF Requests
<1>2. n \in Nat
  BY RequestAssumption
<1>3. r.cues \in Seq(CueRequests) /\ Len(r.cues) = n
  BY <1>1, <1>2
<1>4. r.source_asset_id \in Assets
  BY RequestAssumption DEF Requests
<1>5. \A c \in CueRequests : c.asset_id \in Assets
  BY RequestAssumption
<1> QED
  BY <1>1, <1>2, <1>3, <1>4, <1>5 DEF AssetsOf

\* The outcome of reading an Asset: an error that has a cause, or its array.
LEMMA ResolveOutcomes ==
  ASSUME DataInv, NEW x \in Assets, NEW allowed, NEW limit
  PROVE  LET outcome == Resolve(x, allowed, limit)
         IN /\ \/ outcome.error \in ClientErrors
               \/ outcome.error = "ValueError" /\ content[x].ragged
               \/ Succeeds(outcome)
            /\ Succeeds(outcome) =>
                 /\ x \in stored /\ outcome.length \in Nat
                 /\ outcome = Canonicalize(content[x], allowed, limit)
                 /\ outcome = Canonical(outcome.length)
<1> DEFINE outcome == Resolve(x, allowed, limit)
<1>1. content[x] \in Media
  BY ContentsAreMedia
<1>2. \A frames \in Nat, rate \in Nat \ {0} : ResampledLength(frames, rate) \in Nat
  <2> SUFFICES ASSUME NEW frames \in Nat, NEW rate \in Nat \ {0}
               PROVE  ResampledLength(frames, rate) \in Nat
    OBVIOUS
  <2>1. frames * CanonicalRate \in Nat
    BY CanonicalAssumption
  <2>2. RoundedQuotient(frames * CanonicalRate, rate) \in Nat
    BY <2>1, QuotientIsNear
  <2> QED
    BY <2>2 DEF ResampledLength, AtLeastOne
<1>3. CASE x \notin stored
  BY <1>3 DEF Resolve, Raised, Succeeds, NoError, ClientErrors
<1>4. CASE x \in stored
  BY <1>1, <1>2, <1>4, CanonicalOutcomes
  DEF Resolve, Raised, Canonical, Succeeds, NoError, ClientErrors, Media, MediaErrors
<1> QED
  BY <1>3, <1>4

-----------------------------------------------------------------------------
(* The steps of a request *)

\* The payload is received and checked.
LEMMA ReceiveStep ==
  ASSUME RequestInv, NEW r \in Requests, Receive(r)
  PROVE  RequestInv'
<1> USE DEF RequestInv, auditionVars, analysisVars
<1>1. /\ at = "none" /\ request' = r /\ answer' = RequestError(r)
      /\ UNCHANGED <<content, stored, source, arrays, references, record, submitted, hits,
                     retained>>
      /\ references = <<>> /\ record = NoRecord /\ submitted = NoRecord /\ reserved = {}
  BY DEF Receive, ReadInv, KeepInv, RecordInv
<1>2. \/ answer' = NoError /\ at' = "source" /\ reserved' = AssetsOf(r)
      \/ answer' # NoError /\ at' = "done" /\ reserved' = reserved
  BY <1>1 DEF Receive
<1>3. answer' \in ClientErrors \cup {NoError}
  BY <1>1 DEF RequestError, ClientErrors
<1>4. DataInv'
  BY <1>1, <1>2 DEF DataInv
<1>5. ReadInv'
  BY <1>1, <1>2 DEF ReadInv, Decoded
<1>6. KeepInv'
  BY <1>1, <1>2 DEF KeepInv
<1>7. RecordInv' /\ AnswerInv'
  BY <1>1, <1>2, <1>3 DEF RecordInv, AnswerInv
<1> QED
  BY <1>4, <1>5, <1>6, <1>7

\* A request that fails in the use case, with any error that has a cause.
LEMMA FailureStep ==
  ASSUME RequestInv, at \in {"source", "cues"}, NEW error, Fail(error),
         \/ error \in ClientErrors \cup {"OperationalError"}
         \/ error = "ValueError" /\ \E x \in AssetsOf(request) : content[x].ragged,
         UNCHANGED <<content, stored, request, source, arrays, references, analysisVars>>
  PROVE  RequestInv'
<1> USE DEF RequestInv, analysisVars, Fail
<1>1. DataInv' /\ ReadInv' /\ KeepInv' /\ RecordInv'
  BY DEF DataInv, ReadInv, Decoded, KeepInv, RecordInv
<1>2. AnswerInv'
  BY DEF AnswerInv, RecordInv
<1> QED
  BY <1>1, <1>2

\* The source is read and decoded.
LEMMA ReadSourceStep ==
  ASSUME RequestInv, ReadSource
  PROVE  RequestInv'
<1> USE DEF RequestInv, auditionVars, analysisVars
<1> DEFINE x == request.source_asset_id
           outcome == Resolve(x, SourceContainers, MaxSourceDuration)
<1>1. /\ at = "source" /\ request \in Requests /\ references = <<>>
      /\ record = NoRecord /\ submitted = NoRecord /\ reserved = AssetsOf(request)
      /\ UNCHANGED <<content, stored, request, arrays, references, analysisVars>>
  BY DEF ReadSource, DataInv, ReadInv, RecordInv, KeepInv
<1>2. x \in Assets /\ x \in AssetsOf(request)
  BY <1>1, RequestsNameAssets DEF AssetsOf
<1>3. /\ \/ outcome.error \in ClientErrors
         \/ outcome.error = "ValueError" /\ content[x].ragged
         \/ Succeeds(outcome)
      /\ Succeeds(outcome) => x \in stored /\ outcome.length \in Nat
  BY <1>2, ResolveOutcomes
<1>4. CASE Succeeds(outcome)
  <2>1. /\ source' = outcome.length /\ at' = "cues" /\ UNCHANGED <<answer, reserved>>
    BY <1>4 DEF ReadSource
  <2> HIDE DEF outcome
  <2>2. DataInv' /\ ReadInv' /\ RecordInv' /\ AnswerInv'
    BY <1>1, <1>3, <1>4, <2>1 DEF DataInv, ReadInv, Decoded, RecordInv, AnswerInv
  <2>3. KeepInv'
    BY <1>1, <1>3, <1>4, <2>1 DEF KeepInv
  <2> QED
    BY <2>2, <2>3
<1>5. CASE ~Succeeds(outcome)
  <2>1. Fail(outcome.error) /\ source' = source
    BY <1>5 DEF ReadSource
  <2> HIDE DEF outcome
  <2> QED
    BY <1>1, <1>2, <1>3, <1>5, <2>1, FailureStep
<1> QED
  BY <1>4, <1>5

\* The next cue is checked, read and decoded.
LEMMA ReadCueStep ==
  ASSUME RequestInv, ReadCue
  PROVE  RequestInv'
<1> USE DEF RequestInv, auditionVars, analysisVars
<1> DEFINE cue == NextCue
           outcome == ResolveCue(cue)
<1>1. /\ at = "cues" /\ request \in Requests /\ references \in Seq(CueRequests)
      /\ record = NoRecord /\ submitted = NoRecord /\ reserved = AssetsOf(request)
      /\ Len(references) < Len(request.cues)
      /\ UNCHANGED <<content, stored, request, source, analysisVars>>
  BY DEF ReadCue, DataInv, ReadInv, RecordInv, KeepInv
<1>2. Len(references) + 1 \in DOMAIN request.cues
  BY <1>1, RequestsNameAssets
<1>3. /\ cue \in CueRequests /\ cue.asset_id \in AssetsOf(request) /\ cue.asset_id \in Assets
      /\ cue.window \in Window
  <2>1. cue \in CueRequests /\ cue.asset_id \in AssetsOf(request)
    BY <1>1, <1>2, RequestsNameAssets DEF NextCue
  <2> QED
    BY <1>1, <2>1, RequestAssumption, RequestsNameAssets
<1>4. /\ \/ outcome.error \in ClientErrors
         \/ outcome.error = "ValueError" /\ content[cue.asset_id].ragged
         \/ Succeeds(outcome)
      /\ Succeeds(outcome) =>
           /\ CreationAccepts(cue.window, source)
           /\ cue.asset_id \in stored
           /\ Canonicalize(content[cue.asset_id], CueContainers, MaxCueDuration)
                = Canonical(outcome.length)
  <2>1. CASE ~CreationAccepts(cue.window, source)
    BY <2>1 DEF ResolveCue, Raised, Succeeds, NoError, ClientErrors
  <2>2. CASE CreationAccepts(cue.window, source)
    <3>1. outcome = Resolve(cue.asset_id, CueContainers, MaxCueDuration)
      BY <2>2 DEF ResolveCue
    <3> HIDE DEF outcome, cue
    <3> QED
      BY <1>3, <2>2, <3>1, ResolveOutcomes
  <2> QED
    BY <2>1, <2>2
<1>5. CASE ~Succeeds(outcome)
  <2>1. Fail(outcome.error) /\ UNCHANGED <<arrays, references>>
    BY <1>5 DEF ReadCue
  <2> HIDE DEF outcome, cue
  <2> QED
    BY <1>1, <1>3, <1>4, <1>5, <2>1, FailureStep
<1>6. CASE Succeeds(outcome)
  <2>1. /\ arrays' = [c \in DOMAIN arrays \cup {cue.cue_id} |->
                        IF c = cue.cue_id THEN outcome.length ELSE arrays[c]]
        /\ references' = Append(references, cue)
        /\ UNCHANGED <<at, answer, reserved>>
    BY <1>6 DEF ReadCue
  <2> HIDE DEF outcome, cue
  <2> DEFINE n == Len(references)
  <2>2. /\ n \in Nat /\ DOMAIN references = 1..n /\ DOMAIN references' = 1..(n + 1)
        /\ references' \in Seq(CueRequests) /\ references'[n + 1] = cue
        /\ \A i \in 1..n : references'[i] = references[i]
    BY <1>1, <1>3, <2>1
  <2> HIDE DEF n
  <2>3. DataInv' /\ RecordInv' /\ AnswerInv'
    BY <1>1, <2>1, <2>2 DEF DataInv, RecordInv, AnswerInv
  <2>4. KeepInv'
    BY <1>1, <1>3, <1>4, <1>6, <2>1, <2>2 DEF KeepInv
  <2>5. DOMAIN arrays' = {references'[i].cue_id : i \in DOMAIN references'}
    BY <2>1, <2>2 DEF ReadInv
  <2>6. \A i \in DOMAIN references' : CreationAccepts(references'[i].window, source')
    BY <1>1, <1>4, <1>6, <2>2 DEF ReadInv
  <2>7. ASSUME NEW i \in DOMAIN references',
               \A j \in DOMAIN references' :
                 references'[j].cue_id = references'[i].cue_id => j <= i
        PROVE  Decoded(references[i])'
    <3>1. CASE i = n + 1
      BY <1>1, <1>4, <1>6, <2>1, <2>2, <3>1 DEF Decoded
    <3>2. CASE i # n + 1
      <4>1. i \in 1..n /\ references'[i] = references[i]
        BY <2>2, <3>2
      <4>2. references[i].cue_id # cue.cue_id
        BY <2>2, <2>7, <4>1
      <4>3. \A j \in DOMAIN references : references[j].cue_id = references[i].cue_id => j <= i
        BY <2>2, <2>7, <4>1
      <4>4. Decoded(references[i])
        BY <2>2, <4>1, <4>3 DEF ReadInv
      <4>5. references[i].cue_id \in DOMAIN arrays
        BY <2>2, <4>1 DEF ReadInv
      <4>6. arrays'[references[i].cue_id] = arrays[references[i].cue_id]
        BY <2>1, <4>2, <4>5
      <4> QED
        BY <1>1, <4>1, <4>4, <4>6 DEF Decoded
    <3> QED
      BY <3>1, <3>2
  <2>8. ReadInv'
    BY <1>1, <2>1, <2>5, <2>6, <2>7 DEF ReadInv
  <2> QED
    BY <2>3, <2>4, <2>8
<1> QED
  BY <1>5, <1>6

\* The Analysis is persisted, or the repository raises.
LEMMA PersistStep ==
  ASSUME RequestInv, Persist \/ PersistRaises
  PROVE  RequestInv'
<1> USE DEF RequestInv
<1>1. /\ at = "cues" /\ request \in Requests /\ references \in Seq(CueRequests)
      /\ record = NoRecord /\ submitted = NoRecord /\ reserved = AssetsOf(request)
      /\ request.source_asset_id \in stored
      /\ \A i \in DOMAIN references : references[i].asset_id \in stored
      /\ UNCHANGED <<content, stored, request, source, arrays, references, submitted, hits,
                     retained, auditionVars>>
  BY DEF Persist, PersistRaises, AllCuesRead, DataInv, RecordInv, KeepInv, analysisVars
<1>2. ASSUME NEW error \in {"InvalidAnalysisRecordError", "OperationalError"},
             Fail(error), record' = record
      PROVE  RequestInv'
  BY <1>1, <1>2, FailureStep DEF ClientErrors, analysisVars
<1>3. CASE Persist /\ RecordIsValid(references)
  <2> DEFINE row == [state |-> QUEUED, source_asset_id |-> request.source_asset_id,
                     cues |-> references, threshold |-> request.score]
  <2>1. record' = row /\ at' = "submit" /\ reserved' = {} /\ answer' = answer
    BY <1>3 DEF Persist
  <2>2. row \in Records /\ row.cues = references /\ row.state = QUEUED
    BY <1>1, RequestsNameAssets DEF Records, LifecycleStates, Requests
  <2>3. row # NoRecord
    BY <2>2, RequestAssumption
  <2>4. AssetsOf(row) \subseteq stored
    BY <1>1 DEF AssetsOf
  <2> HIDE DEF row
  <2>5. DataInv' /\ ReadInv'
    BY <1>1, <2>1, <2>2 DEF DataInv, ReadInv, Decoded
  <2>6. KeepInv'
    BY <1>1, <2>1, <2>4 DEF KeepInv
  <2>7. RecordInv' /\ AnswerInv'
    BY <1>1, <1>3, <2>1, <2>2, <2>3 DEF RecordInv, AnswerInv
  <2> QED
    BY <2>5, <2>6, <2>7
<1>4. CASE Persist /\ ~RecordIsValid(references)
  BY <1>2, <1>4 DEF Persist
<1>5. CASE PersistRaises
  BY <1>2, <1>5 DEF PersistRaises, analysisVars
<1> QED
  BY <1>3, <1>4, <1>5

\* The executor gets the arrays.
LEMMA SubmitStep ==
  ASSUME RequestInv, Submit
  PROVE  RequestInv'
<1> USE DEF RequestInv
<1>1. /\ at = "submit" /\ at' = "done"
      /\ submitted' = [source |-> source, cues |-> arrays]
      /\ answer = NoError
      /\ UNCHANGED <<content, stored, request, source, arrays, references, reserved, answer,
                     record, hits, retained>>
  BY DEF Submit, AnswerInv
<1>2. DataInv' /\ ReadInv' /\ KeepInv'
  BY <1>1 DEF DataInv, ReadInv, Decoded, KeepInv
<1>3. RecordInv' /\ AnswerInv'
  BY <1>1 DEF RecordInv, AnswerInv
<1> QED
  BY <1>2, <1>3

\* The executor moves the record, which keeps its references.
LEMMA ExecuteStep ==
  ASSUME RequestInv, Execute
  PROVE  /\ RequestInv'
         /\ record # NoRecord /\ record.state \in {QUEUED, RUNNING}
<1> USE DEF RequestInv
<1>1. /\ submitted # NoRecord /\ record.state \in {QUEUED, RUNNING}
      /\ UNCHANGED <<content, stored, requestVars, submitted, retained>>
  BY DEF Execute
<1>2. PICK to \in LifecycleStates : record' = [record EXCEPT !.state = to]
  BY DEF Execute
<1>3. answer = NoError /\ at = "done"
  BY <1>1 DEF AnswerInv, RecordInv
<1>4. record # NoRecord /\ record \in Records
  BY <1>1 DEF RecordInv, DataInv
<1>5. /\ record' \in Records /\ record'.cues = record.cues
      /\ record'.source_asset_id = record.source_asset_id
  BY <1>2, <1>4 DEF Records
<1>6. DataInv' /\ ReadInv'
  BY <1>1, <1>5 DEF requestVars, DataInv, ReadInv, Decoded
<1>7. KeepInv'
  BY <1>1, <1>3, <1>4, <1>5 DEF requestVars, KeepInv, AssetsOf
<1>8. RecordInv' /\ AnswerInv'
  BY <1>1, <1>3, <1>4, <1>5, RequestAssumption DEF requestVars, RecordInv, AnswerInv
<1> QED
  BY <1>1, <1>4, <1>5, <1>6, <1>7, <1>8

\* What the maintenance worker deletes is neither reserved nor retained.
LEMMA CleanupStep ==
  ASSUME RequestInv, Expire \/ \E x \in Assets : Delete(x)
  PROVE  RequestInv'
<1> USE DEF RequestInv
<1>1. UNCHANGED <<content, requestVars, record, submitted, hits>>
  BY DEF Expire, Delete, analysisVars
<1>2. DataInv' /\ ReadInv' /\ RecordInv' /\ AnswerInv'
  BY <1>1 DEF requestVars, DataInv, ReadInv, Decoded, RecordInv, AnswerInv
<1>3. CASE Expire
  <2>1. retained' = FALSE /\ stored' = stored
    BY <1>3 DEF Expire
  <2>2. KeepInv'
    BY <1>1, <2>1 DEF requestVars, KeepInv
  <2> QED
    BY <1>2, <2>2
<1>4. ASSUME NEW x \in Assets, Delete(x) PROVE RequestInv'
  <2>1. /\ x \notin reserved /\ stored' = stored \ {x} /\ retained' = retained
        /\ record # NoRecord /\ retained => x \notin AssetsOf(record)
    BY <1>4 DEF Delete, analysisVars
  <2>2. at = "cues" => request.source_asset_id \in AssetsOf(request)
    BY DEF AssetsOf
  <2>3. KeepInv'
    BY <1>1, <2>1, <2>2 DEF requestVars, KeepInv
  <2> QED
    BY <1>2, <2>3
<1> QED
  BY <1>3, <1>4

\* An audition changes nothing of all that.
LEMMA AuditionKeeps ==
  ASSUME RequestInv, UNCHANGED <<content, stored, requestVars, analysisVars>>
  PROVE  RequestInv'
<1> USE DEF RequestInv, requestVars, analysisVars
<1>1. DataInv' /\ ReadInv' /\ KeepInv' /\ RecordInv' /\ AnswerInv'
  BY DEF DataInv, ReadInv, Decoded, KeepInv, RecordInv, AnswerInv
<1> QED
  BY <1>1

\* The invariant of requests holds from the start on.
LEMMA RequestsAreSafe == Spec => []RequestInv
<1>1. Init => RequestInv
  <2> SUFFICES ASSUME Init PROVE RequestInv
    OBVIOUS
  <2>1. references = <<>> /\ DOMAIN references = {} /\ DOMAIN arrays = {}
    BY DEF Init
  <2>2. DataInv /\ ReadInv /\ KeepInv
    BY <2>1 DEF Init, DataInv, ReadInv, KeepInv
  <2>3. RecordInv /\ AnswerInv
    BY DEF Init, RecordInv, AnswerInv
  <2> QED
    BY <2>2, <2>3 DEF RequestInv
<1>2. RequestInv /\ [Next]_vars => RequestInv'
  <2> SUFFICES ASSUME RequestInv, [Next]_vars PROVE RequestInv'
    OBVIOUS
  <2>1. CASE UNCHANGED vars
    BY <2>1, AuditionKeeps DEF vars
  <2>2. CASE Next
    <3>1. CASE ReadClip \/ Render \/ \E t \in Targets : Listen(t)
      BY <3>1, AuditionKeeps DEF Listen, ReadClip, Render
    <3> QED
      BY <2>2, <3>1, ReceiveStep, ReadSourceStep, ReadCueStep, PersistStep, SubmitStep,
         ExecuteStep, CleanupStep DEF Next
  <2> QED
    BY <2>1, <2>2
<1> QED
  BY <1>1, <1>2, PTL DEF Spec

\* A rejected request has a cause and leaves no record, no arrays and no
\* reservation.
THEOREM RejectionsAreClean == Spec => []RejectionsHaveACauseAndNoEffect
<1>1. RequestInv => RejectionLeavesNothing
  BY DEF RequestInv, KeepInv, AnswerInv, RejectionLeavesNothing
<1>2. RequestInv => ServerErrorsHaveACause
  BY StatusesOfErrors DEF RequestInv, AnswerInv, ServerErrorsHaveACause
<1>3. RequestInv => RejectionsHaveACauseAndNoEffect
  BY <1>1, <1>2 DEF RejectionsHaveACauseAndNoEffect
<1> QED
  BY <1>3, RequestsAreSafe, PTL

\* The executor is handed the decoded array of every cue of the record, and no
\* window its slice would refuse.
THEOREM HandedOverAsRecorded == Spec => []SubmittedMatchesRecord
<1>1. ASSUME RequestInv, submitted # NoRecord
      PROVE  SubmittedMatchesRecord
  <2>1. /\ record.cues = references /\ RecordIsValid(references)
        /\ submitted = [source |-> source, cues |-> arrays]
        /\ references \in Seq(CueRequests) /\ source \in Nat
    BY <1>1 DEF RequestInv, RecordInv, DataInv
  <2>2. submitted.source = source /\ submitted.cues = arrays
    BY <2>1
  <2>3. DOMAIN arrays = {references[i].cue_id : i \in DOMAIN references}
    BY <1>1 DEF RequestInv, ReadInv
  <2>4. ASSUME NEW i \in DOMAIN references
        PROVE  Decoded(references[i]) /\ ~SliceRaises(references[i].window, source)
    <3>1. \A j \in DOMAIN references : references[j].cue_id = references[i].cue_id => j <= i
      BY <2>1 DEF RecordIsValid
    <3>2. references[i].window \in Window
      BY <2>1, RequestAssumption
    <3>3. CreationAccepts(references[i].window, source)
      BY <1>1 DEF RequestInv, ReadInv
    <3> QED
      BY <1>1, <2>1, <3>1, <3>2, <3>3, AcceptedIsNotRefused DEF RequestInv, ReadInv
  <2> QED
    BY <2>1, <2>2, <2>3, <2>4 DEF SubmittedMatchesRecord, Decoded
<1>2. RequestInv => SubmittedMatchesRecord
  BY <1>1 DEF SubmittedMatchesRecord
<1> QED
  BY <1>2, RequestsAreSafe, PTL

-----------------------------------------------------------------------------
(* Auditions *)

\* The Analysis has a Result.
Ready == record # NoRecord /\ record.state = SUCCEEDED

\* The cue of a target is one of the record's.
IsTarget(target) == \E i \in DOMAIN record.cues : record.cues[i].cue_id = target.cue_id

\* How an audition may end: the clauses of AcceptedCuesCanBePlayed.
Ending(target, outcome) ==
  /\ StatusOf(outcome.error) = 413 => IsTooLarge(target)
  /\ outcome.error = "AssetNotFoundError" => ~retained
  /\ outcome.error = NoError => outcome.length >= submitted.cues[target.cue_id]
  /\ outcome.error = "AudioAuditionRenderingError" /\ target.kind = "cue" =>
       content[CueAsset(target.cue_id)].frames = 0

\* The audition in progress has found its cue; once that is read, the clip is
\* as long as it was matched, and within the limits.
AuditionInv ==
  /\ audition = [target |-> audition.target, length |-> audition.length]
  /\ audition # Silent => Ready /\ IsTarget(audition.target)
  /\ audition.length # 0 =>
       /\ audition # Silent /\ audition.target.kind # "cue"
       /\ audition.length \in Nat
       /\ submitted.cues[audition.target.cue_id] <= audition.length
       /\ audition.length <= MaxAuditionDuration * CanonicalRate

\* The last audition was refused before it read anything, or ended well.
HeardInv ==
  heard # NoRecord =>
    \E target, outcome :
      /\ heard = [target |-> target, outcome |-> outcome]
      /\ outcome.error \in Refusals \/ (Ready /\ Ending(target, outcome))

PlayInv == AuditionInv /\ HeardInv

\* A request without an error finds the Result of a SUCCEEDED Analysis.
LEMMA ReadyForResult ==
  ASSUME RequestInv
  PROVE  /\ ResultError = NoError => Ready
         /\ ResultError \in Refusals \cup {NoError}
BY DEF RequestInv, DataInv, Records, ResultError, NoError, Ready, LifecycleStates, QUEUED, RUNNING,
       SUCCEEDED, FAILED, Refusals

\* What is known of the cue of an audition.
LEMMA CueOfTarget ==
  ASSUME RequestInv, Ready, NEW target, IsTarget(target)
  PROVE  LET x == CueAsset(target.cue_id)
             media == content[x]
         IN /\ x \in AssetsOf(record)
            /\ media \in Media
            /\ media.parses /\ media.rate # 0 /\ media.present <= media.frames
            /\ media.frames <= MaxCueDuration * media.rate
            /\ submitted.cues[target.cue_id] = ResampledLength(media.present, media.rate)
<1>1. PICK i \in DOMAIN record.cues : record.cues[i].cue_id = target.cue_id
  BY DEF IsTarget
<1>2. /\ record.cues = references /\ RecordIsValid(references)
      /\ submitted # NoRecord /\ submitted = [source |-> source, cues |-> arrays]
      /\ references \in Seq(CueRequests) /\ content \in Contents
  BY DEF RequestInv, RecordInv, DataInv, Ready, QUEUED, SUCCEEDED
<1>3. ReferencesTo(target.cue_id) = {i}
  BY <1>1, <1>2 DEF ReferencesTo, RecordIsValid
<1>4. i \in Nat
  BY <1>1, <1>2
<1> DEFINE x == CueAsset(target.cue_id)
<1>5. x = references[i].asset_id
  BY <1>2, <1>3, <1>4 DEF CueAsset
<1>6. x \in Assets /\ x \in AssetsOf(record)
  BY <1>1, <1>2, <1>5, RequestAssumption DEF AssetsOf
<1>7. \A j \in DOMAIN references : references[j].cue_id = references[i].cue_id => j <= i
  BY <1>1, <1>2, <1>4 DEF RecordIsValid
<1>8. Decoded(references[i])
  BY <1>1, <1>2, <1>7 DEF RequestInv, ReadInv
<1> DEFINE media == content[x]
<1>9. media \in Media /\ (media.container = "wav" => media.present <= media.frames)
  BY <1>2, <1>6, RequestAssumption, HeaderAssumption
<1>10. Canonicalize(media, CueContainers, MaxCueDuration) = Canonical(arrays[target.cue_id])
  BY <1>1, <1>2, <1>5, <1>8 DEF Decoded
<1> HIDE DEF media, x
<1>11. /\ media.container = "wav" /\ media.parses /\ media.rate # 0
       /\ media.frames <= MaxCueDuration * media.rate
       /\ arrays[target.cue_id] = ResampledLength(media.present, media.rate)
  BY <1>9, <1>10, DecodedCues
<1>12. submitted.cues = arrays
  BY <1>2
<1> QED
  BY <1>6, <1>9, <1>11, <1>12 DEF media, x

\* The clip of a cue is missing, has no frames, is too large or has the length
\* it should.
LEMMA ClipOutcomes ==
  ASSUME RequestInv, Ready, NEW target, IsTarget(target)
  PROVE  LET clip == CueClip(target)
         IN \/ clip = Raised("AssetNotFoundError") /\ ~retained
            \/ /\ clip = Raised("AudioAuditionRenderingError")
               /\ content[CueAsset(target.cue_id)].frames = 0
            \/ clip = Raised("AudioAuditionResourceLimitError") /\ IsTooLarge(target)
            \/ /\ clip = Canonical(clip.length) /\ clip.length \in Nat \ {0}
               /\ submitted.cues[target.cue_id] <= clip.length
               /\ clip.length <= MaxAuditionDuration * CanonicalRate
<1> DEFINE x == CueAsset(target.cue_id)
           media == content[x]
           clip == CueClip(target)
           size == IF target.kind = "cue" THEN media.size ELSE 0
<1>1. /\ x \in AssetsOf(record)
      /\ media \in Media
      /\ media.parses /\ media.rate # 0 /\ media.present <= media.frames
      /\ media.frames <= MaxCueDuration * media.rate
      /\ submitted.cues[target.cue_id] = ResampledLength(media.present, media.rate)
  BY CueOfTarget
<1>2. CASE x \notin stored
  <2>1. ~retained
    BY <1>1, <1>2 DEF RequestInv, KeepInv, Ready
  <2> QED
    BY <1>2, <2>1 DEF CueClip
<1>3. CASE x \in stored /\ media.frames = 0
  BY <1>3 DEF CueClip, AuditionLength, Raised, Succeeds, NoError
<1>4. CASE x \in stored /\ media.frames # 0
  <2> DEFINE length == PlayableLength(media)
           longest == MaxAuditionDuration * CanonicalRate
  <2>1. /\ MaxCueDuration \in Nat /\ MaxAuditionDuration \in Nat
        /\ longest \in Nat /\ MaxResponse \in Nat
    BY LimitAssumption, CanonicalAssumption
  <2> HIDE DEF x, media
  <2>2. length \in Nat \ {0} /\ submitted.cues[target.cue_id] <= length
    BY <1>1, <1>4, <2>1, PlayedAsLongAsMatched
  <2>3. AuditionLength(media) = Canonical(length) /\ Succeeds(AuditionLength(media))
    BY <1>1, <1>4 DEF AuditionLength, Succeeds, Canonical
  <2>4. clip = WithinLimits(Canonical(length), size)
    BY <1>4, <2>3 DEF CueClip, x, media
  <2>5. length > longest => media.frames > MaxAuditionDuration * media.rate
    <3>1. media.frames <= MaxAuditionDuration * media.rate => length <= longest
      BY <1>1, <1>4, <2>1, PlayedAsLongAsMatched
    <3>2. media.frames \in Nat /\ MaxAuditionDuration * media.rate \in Nat
      BY <1>1, <2>1 DEF Media
    <3> QED
      BY <2>1, <2>2, <3>1, <3>2
  <2>6. size > MaxResponse => target.kind = "cue" /\ media.size > MaxResponse
    BY <2>1
  <2>7. length > longest \/ size > MaxResponse => IsTooLarge(target)
    BY <2>5, <2>6 DEF IsTooLarge, x, media
  <2> HIDE DEF length, size, clip, longest
  <2>8. Canonical(length).length = length
    BY DEF Canonical
  <2>9. CASE length > longest \/ size > MaxResponse
    <3>1. clip = Raised("AudioAuditionResourceLimitError")
      BY <2>4, <2>8, <2>9 DEF WithinLimits, longest
    <3> QED
      BY <2>7, <2>9, <3>1 DEF clip
  <2>10. CASE ~(length > longest \/ size > MaxResponse)
    <3>1. clip = Canonical(length) /\ length <= longest
      BY <2>1, <2>2, <2>4, <2>8, <2>10 DEF WithinLimits, longest
    <3> QED
      BY <2>2, <2>8, <3>1 DEF clip, longest
  <2> QED
    BY <2>9, <2>10
<1> QED
  BY <1>2, <1>3, <1>4

\* A finished Analysis is not changed any more.
LEMMA FinishedIsFinal ==
  ASSUME RequestInv, Ready, [Next]_vars
  PROVE  /\ UNCHANGED <<content, record, submitted>>
         /\ retained' => retained
<1>1. submitted # NoRecord /\ at = "done" /\ record.state \notin {QUEUED, RUNNING}
  BY DEF RequestInv, RecordInv, DataInv, Ready, QUEUED, RUNNING, SUCCEEDED
<1>2. CASE UNCHANGED vars
  BY <1>2 DEF vars, analysisVars
<1>3. CASE Next
  <2>1. ~ReadSource /\ ~ReadCue /\ ~Persist /\ ~PersistRaises /\ ~Submit /\ ~Execute
    BY <1>1 DEF ReadSource, ReadCue, Persist, PersistRaises, AllCuesRead, Submit, Execute
  <2>2. CASE Expire \/ \E x \in Assets : Delete(x)
    BY <2>2 DEF Expire, Delete, analysisVars
  <2>3. CASE ReadClip \/ Render \/ \E t \in Targets : Listen(t)
    BY <2>3 DEF ReadClip, Render, Listen, analysisVars
  <2>4. CASE \E r \in Requests : Receive(r)
    BY <1>1, <2>4 DEF Receive
  <2> QED
    BY <1>3, <2>1, <2>2, <2>3, <2>4 DEF Next
<1> QED
  BY <1>2, <1>3

\* How an audition ended remains as good as it was.
LEMMA EndingsLast ==
  ASSUME UNCHANGED <<content, record, submitted>>, retained' => retained,
         NEW target, NEW outcome, Ending(target, outcome)
  PROVE  Ending(target, outcome)'
BY DEF Ending, IsTooLarge, CueAsset, ReferencesTo

\* So does what is known of the last one.
LEMMA HeardLasts ==
  ASSUME HeardInv, heard' = heard,
         Ready => UNCHANGED <<content, record, submitted>> /\ (retained' => retained)
  PROVE  HeardInv'
<1> SUFFICES ASSUME heard # NoRecord
             PROVE  HeardInv'
  BY DEF HeardInv
<1>1. PICK target, outcome :
        /\ heard = [target |-> target, outcome |-> outcome]
        /\ outcome.error \in Refusals \/ (Ready /\ Ending(target, outcome))
  BY DEF HeardInv
<1>2. CASE outcome.error \in Refusals
  BY <1>1, <1>2 DEF HeardInv
<1>3. CASE Ready /\ Ending(target, outcome)
  <2>1. Ready' /\ Ending(target, outcome)'
    BY <1>3, EndingsLast DEF Ready
  <2> QED
    BY <1>1, <2>1 DEF HeardInv
<1> QED
  BY <1>1, <1>2, <1>3

\* Steps that are none of an audition's.
LEMMA OthersKeepPlays ==
  ASSUME RequestInv, PlayInv, [Next]_vars, UNCHANGED auditionVars
  PROVE  PlayInv'
<1>1. audition' = audition /\ heard' = heard
  BY DEF auditionVars
<1>2. CASE Ready
  <2>1. UNCHANGED <<content, record, submitted>> /\ Ready'
    BY <1>2, FinishedIsFinal DEF Ready
  <2>2. AuditionInv'
    BY <1>1, <2>1 DEF PlayInv, AuditionInv, IsTarget, Silent
  <2>3. HeardInv'
    BY <1>1, FinishedIsFinal, HeardLasts DEF PlayInv
  <2> QED
    BY <2>2, <2>3 DEF PlayInv
<1>3. CASE ~Ready
  BY <1>1, <1>3 DEF PlayInv, AuditionInv, HeardInv, Silent
<1> QED
  BY <1>2, <1>3

\* An audition that ends well leaves nothing in progress.
LEMMA AnswerStep ==
  ASSUME RequestInv, PlayInv, NEW target, NEW outcome, Answer(target, outcome),
         UNCHANGED <<content, stored, requestVars, analysisVars>>,
         outcome.error \in Refusals \/ (Ready /\ Ending(target, outcome))
  PROVE  PlayInv'
<1>1. audition' = Silent /\ heard' = [target |-> target, outcome |-> outcome]
  BY DEF Answer
<1>2. UNCHANGED <<content, record, submitted, retained>>
  BY DEF analysisVars
<1>3. AuditionInv'
  BY <1>1 DEF AuditionInv, Silent
<1>4. outcome.error \in Refusals \/ (Ready' /\ Ending(target, outcome)')
  BY <1>2 DEF Ready, Ending, IsTooLarge, CueAsset, ReferencesTo
<1>5. HeardInv'
  BY <1>1, <1>4 DEF HeardInv
<1> QED
  BY <1>3, <1>5 DEF PlayInv

\* Nothing is read for a target that does not exist.
LEMMA ListenStep ==
  ASSUME RequestInv, PlayInv, NEW target \in Targets, Listen(target)
  PROVE  PlayInv'
<1>1. UNCHANGED <<content, stored, requestVars, analysisVars>>
  BY DEF Listen
<1>2. CASE TargetError(target) = NoError
  <2>1. audition' = [target |-> target, length |-> 0] /\ heard' = heard
    BY <1>2 DEF Listen
  <2>2. ResultError = NoError /\ ReferencesTo(target.cue_id) # {}
    BY <1>2 DEF TargetError, NoError
  <2>3. Ready /\ IsTarget(target)
    BY <2>2, ReadyForResult DEF ReferencesTo, IsTarget
  <2>4. AuditionInv'
    BY <1>1, <2>1, <2>3 DEF AuditionInv, Ready, IsTarget, analysisVars
  <2>5. HeardInv'
    BY <1>1, <2>1, HeardLasts DEF PlayInv, analysisVars
  <2> QED
    BY <2>4, <2>5 DEF PlayInv
<1>3. CASE TargetError(target) # NoError
  <2>1. Answer(target, Raised(TargetError(target)))
    BY <1>3 DEF Listen
  <2>2. TargetError(target) \in Refusals
    BY <1>3, ReadyForResult DEF TargetError, Refusals
  <2>3. Raised(TargetError(target)).error \in Refusals
    BY <2>2 DEF Raised
  <2> QED
    BY <1>1, <2>1, <2>3, AnswerStep
<1> QED
  BY <1>2, <1>3

\* The clip of a cue is the answer, or the beginning of an occurrence.
LEMMA ReadClipStep ==
  ASSUME RequestInv, PlayInv, ReadClip
  PROVE  PlayInv'
<1> DEFINE target == audition.target
           clip == CueClip(target)
<1>1. /\ audition # Silent /\ Ready /\ IsTarget(target)
      /\ UNCHANGED <<content, stored, requestVars, analysisVars>>
  BY DEF ReadClip, PlayInv, AuditionInv
<1>2. \/ clip = Raised("AssetNotFoundError") /\ ~retained
      \/ /\ clip = Raised("AudioAuditionRenderingError")
         /\ content[CueAsset(target.cue_id)].frames = 0
      \/ clip = Raised("AudioAuditionResourceLimitError") /\ IsTooLarge(target)
      \/ /\ clip = Canonical(clip.length) /\ clip.length \in Nat \ {0}
         /\ submitted.cues[target.cue_id] <= clip.length
         /\ clip.length <= MaxAuditionDuration * CanonicalRate
  BY <1>1, ClipOutcomes
<1>3. submitted.cues[target.cue_id] \in Int
  <2> DEFINE media == content[CueAsset(target.cue_id)]
  <2>1. /\ media \in Media /\ media.rate # 0 /\ media.present <= media.frames
        /\ submitted.cues[target.cue_id] = ResampledLength(media.present, media.rate)
    BY <1>1, CueOfTarget
  <2> HIDE DEF media
  <2>2. media.present \in Nat /\ media.rate \in Nat \ {0} /\ media.present * CanonicalRate \in Nat
    BY <2>1, CanonicalAssumption DEF Media
  <2>3. RoundedQuotient(media.present * CanonicalRate, media.rate) \in Nat
    BY <2>2, QuotientIsNear
  <2> QED
    BY <2>1, <2>2, <2>3 DEF ResampledLength, AtLeastOne
<1>4. CASE target.kind = "occurrence" /\ Succeeds(clip)
  <2>1. audition' = [audition EXCEPT !.length = clip.length] /\ heard' = heard
    BY <1>4 DEF ReadClip
  <2>2. audition' = [target |-> target, length |-> clip.length]
    BY <2>1 DEF AuditionInv, PlayInv
  <2>3. /\ clip.length \in Nat \ {0}
        /\ submitted.cues[target.cue_id] <= clip.length
        /\ clip.length <= MaxAuditionDuration * CanonicalRate
    BY <1>2, <1>4 DEF Succeeds, Raised, NoError
  <2> HIDE DEF clip
  <2>4. audition'.target = target /\ audition'.length = clip.length
    BY <2>2
  <2>5. Ready' /\ IsTarget(target)
    BY <1>1 DEF Ready, analysisVars
  <2>6. UNCHANGED <<record, submitted>>
    BY <1>1 DEF analysisVars
  <2>7. AuditionInv'
    BY <1>4, <2>2, <2>3, <2>4, <2>5, <2>6 DEF AuditionInv, IsTarget, Silent
  <2>8. HeardInv'
    BY <1>1, <2>1, HeardLasts DEF PlayInv, analysisVars
  <2> QED
    BY <2>7, <2>8 DEF PlayInv
<1>5. CASE ~(target.kind = "occurrence" /\ Succeeds(clip))
  <2>1. Answer(target, clip)
    BY <1>5 DEF ReadClip
  <2> HIDE DEF target, clip
  <2>2. Ending(target, clip)
    BY <1>2, <1>3, StatusesOfErrors DEF Ending, Raised, Canonical, NoError
  <2> QED
    BY <1>1, <2>1, <2>2, AnswerStep
<1> QED
  BY <1>4, <1>5

\* An occurrence is rendered, or fails.
LEMMA RenderStep ==
  ASSUME RequestInv, PlayInv, Render
  PROVE  PlayInv'
<1> DEFINE target == audition.target
           length == audition.length
<1>1. /\ Ready /\ target.kind # "cue" /\ length \in Nat
      /\ submitted.cues[target.cue_id] <= length
      /\ length <= MaxAuditionDuration * CanonicalRate
      /\ UNCHANGED <<content, stored, requestVars, analysisVars>>
  BY DEF Render, PlayInv, AuditionInv
<1>2. PICK outcome : /\ \/ outcome \in Rendered(length)
                        \/ /\ outcome = Raised("AssetNotFoundError")
                           /\ record.source_asset_id \notin stored
                     /\ Answer(target, outcome)
  BY DEF Render
<1> HIDE DEF target, length
<1>3. WithinLimits(Canonical(length), RenderedSize(length)) = Canonical(length)
  <2> DEFINE longest == MaxAuditionDuration * CanonicalRate
  <2>1. longest \in Nat /\ MaxResponse \in Nat /\ WavHeader \in Nat
    BY LimitAssumption, CanonicalAssumption
  <2>2. WavHeader + 2 * longest <= MaxResponse
    BY RenderAssumption DEF RenderedSize
  <2>3. Canonical(length).length = length
    BY DEF Canonical
  <2>4. length \in Nat /\ length <= longest
    BY <1>1
  <2> HIDE DEF longest
  <2>5. RenderedSize(length) <= MaxResponse /\ RenderedSize(length) \in Nat
    BY <2>1, <2>2, <2>4 DEF RenderedSize
  <2> QED
    BY <2>1, <2>3, <2>4, <2>5 DEF WithinLimits, longest
<1>4. record.source_asset_id \notin stored => ~retained
  BY <1>1 DEF RequestInv, KeepInv, Ready, AssetsOf
<1>5. \/ outcome = Raised("AudioAuditionRenderingError")
      \/ outcome = Canonical(length)
      \/ outcome = Raised("AssetNotFoundError") /\ ~retained
  BY <1>2, <1>3, <1>4 DEF Rendered
<1>6. Ending(target, outcome)
  <2>1. CASE outcome = Canonical(length)
    <3>1. outcome.error = NoError /\ outcome.length = length
      BY <2>1 DEF Canonical
    <3> QED
      BY <1>1, <3>1, StatusesOfErrors DEF Ending, NoError
  <2>2. CASE outcome = Raised("AudioAuditionRenderingError")
    BY <1>1, <2>2, StatusesOfErrors DEF Ending, Raised, NoError
  <2>3. CASE outcome = Raised("AssetNotFoundError") /\ ~retained
    BY <1>1, <2>3, StatusesOfErrors DEF Ending, Raised, NoError
  <2> QED
    BY <1>5, <2>1, <2>2, <2>3
<1> QED
  BY <1>1, <1>2, <1>6, AnswerStep

\* The invariant of auditions holds from the start on.
LEMMA PlaysAreSafe == Spec => []PlayInv
<1>1. Init => PlayInv
  BY DEF Init, PlayInv, AuditionInv, HeardInv, Silent
<1>2. RequestInv /\ PlayInv /\ [Next]_vars => PlayInv'
  <2> SUFFICES ASSUME RequestInv, PlayInv, [Next]_vars PROVE PlayInv'
    OBVIOUS
  <2>1. CASE UNCHANGED auditionVars
    BY <2>1, OthersKeepPlays
  <2>2. CASE ReadClip \/ Render \/ \E t \in Targets : Listen(t)
    BY <2>2, ReadClipStep, RenderStep, ListenStep
  <2>3. UNCHANGED auditionVars \/ ReadClip \/ Render \/ \E t \in Targets : Listen(t)
    BY DEF Next, vars, Receive, ReadSource, ReadCue, Persist, PersistRaises, Submit, Execute,
           Expire, Delete
  <2> QED
    BY <2>1, <2>2, <2>3
<1> QED
  BY <1>1, <1>2, RequestsAreSafe, PTL DEF Spec

\* A cue an Analysis was created with can be played while it is retained, for at
\* least as long as it was matched, unless it has no frames, lasts longer than
\* an audition may, or is itself a larger file than the answer may be, whatever
\* the limits of a cue and of an upload are.
THEOREM AcceptedCuesPlay == Spec => []AcceptedCuesCanBePlayed
<1>1. RequestInv /\ PlayInv => AcceptedCuesCanBePlayed
  <2> SUFFICES ASSUME RequestInv, PlayInv, heard # NoRecord, ResultError = NoError
               PROVE  AcceptedCuesCanBePlayed
    BY DEF AcceptedCuesCanBePlayed
  <2>1. PICK target, outcome :
          /\ heard = [target |-> target, outcome |-> outcome]
          /\ outcome.error \in Refusals \/ (Ready /\ Ending(target, outcome))
    BY DEF PlayInv, HeardInv
  <2>2. heard.target = target /\ heard.outcome = outcome
    BY <2>1
  <2>3. CASE outcome.error \in Refusals
    BY <2>2, <2>3, StatusesOfErrors DEF AcceptedCuesCanBePlayed, Refusals, NoError
  <2>4. CASE Ending(target, outcome)
    BY <2>2, <2>4 DEF Ending, AcceptedCuesCanBePlayed
  <2> QED
    BY <2>1, <2>3, <2>4
<1> QED
  BY <1>1, PlaysAreSafe, RequestsAreSafe, PTL

\* The rest of the types.
RestInv ==
  /\ stored \subseteq Assets
  /\ request \in Requests \cup {NoRecord}
  /\ hits \subseteq {c.cue_id : c \in CueRequests}
  /\ retained \in BOOLEAN

\* Each variable has its type.
THEOREM TypeCorrect == Spec => []TypeOK
<1>1. Init => RestInv
  BY DEF Init, RestInv
<1>2. RequestInv /\ RestInv /\ [Next]_vars => RestInv'
  <2> SUFFICES ASSUME RequestInv, RestInv, [Next]_vars PROVE RestInv'
    OBVIOUS
  <2> USE DEF RestInv
  <2>1. CASE Execute
    <3>1. /\ UNCHANGED <<stored, request, retained>>
          /\ hits' \in SUBSET Findable \/ hits' = hits
      BY <2>1 DEF Execute, requestVars
    <3>2. /\ record # NoRecord /\ record \in Records
      BY <2>1 DEF Execute, RequestInv, RecordInv, DataInv
    <3>3. \A i \in DOMAIN record.cues : record.cues[i] \in CueRequests
      BY <3>2 DEF Records
    <3>4. Findable \subseteq {c.cue_id : c \in CueRequests}
      BY <3>3 DEF Findable
    <3> QED
      BY <3>1, <3>4
  <2>2. CASE Expire \/ \E x \in Assets : Delete(x)
    BY <2>2 DEF Expire, Delete, requestVars, analysisVars
  <2>3. CASE \E r \in Requests : Receive(r)
    BY <2>3 DEF Receive, analysisVars
  <2>4. CASE ReadSource \/ ReadCue \/ Persist \/ PersistRaises \/ Submit
    BY <2>4 DEF ReadSource, ReadCue, Persist, PersistRaises, Submit, analysisVars
  <2>5. CASE ReadClip \/ Render \/ \E t \in Targets : Listen(t)
    BY <2>5 DEF ReadClip, Render, Listen, requestVars, analysisVars
  <2>6. CASE UNCHANGED vars
    BY <2>6 DEF vars, requestVars, analysisVars
  <2> QED
    BY <2>1, <2>2, <2>3, <2>4, <2>5, <2>6 DEF Next
<1>3. RequestInv /\ PlayInv /\ RestInv => TypeOK
  <2> SUFFICES ASSUME RequestInv, PlayInv, RestInv PROVE TypeOK
    OBVIOUS
  <2>1. reserved \subseteq Assets
    BY RequestsNameAssets DEF RequestInv, KeepInv, DataInv
  <2>2. DOMAIN arrays \subseteq {c.cue_id : c \in CueRequests}
    BY DEF RequestInv, ReadInv, DataInv
  <2>3. audition.length \in Nat
    BY DEF PlayInv, AuditionInv
  <2> QED
    BY <2>1, <2>2, <2>3 DEF RequestInv, DataInv, RestInv, TypeOK
<1> QED
  BY <1>1, <1>2, <1>3, PlaysAreSafe, RequestsAreSafe, PTL DEF Spec

=============================================================================
