----------------------- MODULE MediaCanonicalization -----------------------
(***************************************************************************)
(* From the bytes of a stored Asset to a canonical array: the checks and   *)
(* conversions of create_analysis.py and the FFmpeg adapter, and the       *)
(* second reading of the same WAV header that an audition makes, by code   *)
(* in query_analysis.py that never calls the first.                        *)
(*                                                                         *)
(* An array is its length.  A WAV is what its header says and what its     *)
(* data chunk holds, which a file cut short does not bring together; the   *)
(* results of ffprobe and ffmpeg are properties of the file.               *)
(***************************************************************************)
EXTENDS Integers

CONSTANTS
  CanonicalRate,    \* CANONICAL_AUDIO_SPEC.sample_rate_hz
  MaxSourceDuration, MaxCueDuration   \* limits of an Analysis, in seconds

ASSUME CanonicalAssumption == CanonicalRate \in Nat \ {0}

Containers == {"wav", "video", "other"}
Verdicts == {"ok", "invalid", "timeout"}

\* What decides the fate of a file.  `frames` and `rate` are those of the
\* header; `present` frames are there, and `ragged` says that the data ends
\* inside a sample.  `width` tells whether the sample width has a dtype.  `size`
\* is the file's length in bytes: channels and sample width make files of the
\* same frames differ in it.
Media == [container : Containers, parses : BOOLEAN, width : BOOLEAN,
          rate : Nat, frames : Nat, present : Nat, ragged : BOOLEAN, size : Nat,
          probe : Verdicts, decode : Verdicts, audio : BOOLEAN, timed : BOOLEAN]

NoError == "none"
Canonical(length) == [error |-> NoError, length |-> length]
Raised(error) == [error |-> error, length |-> 0]
Succeeds(outcome) == outcome.error = NoError

-----------------------------------------------------------------------------
(* WAV *)

\* Python's round() of n/d: to the nearest integer, a half to the even one.
RoundedQuotient(n, d) ==
  LET whole == n \div d
      twice == 2 * (n % d)
  IN IF twice > d \/ (twice = d /\ whole % 2 = 1) THEN whole + 1 ELSE whole

AtLeastOne(n) == IF n = 0 THEN 1 ELSE n

\* _resample, for a positive rate.
ResampledLength(frames, rate) ==
  IF rate = CanonicalRate \/ frames = 0
  THEN frames
  ELSE AtLeastOne(RoundedQuotient(frames * CanonicalRate, rate))

\* _enforce_duration_limit: a duration nobody knows is not enforced.
ExceedsDuration(frames, rate, limit) == rate # 0 /\ frames > limit * rate

\* _pcm_bytes_to_float32: np.frombuffer raises a bare ValueError when the
\* bytes are no whole number of samples.
PcmError(wav) ==
  CASE ~wav.width -> "AssetCanonicalizationError"
    [] wav.width /\ wav.ragged -> "ValueError"
    [] OTHER -> NoError

\* _decode_and_resample_wav, then _normalize_canonical_segment, which leaves
\* the length alone.
DecodeWav(wav, limit) ==
  CASE ~wav.parses -> Raised("AssetCanonicalizationError")
    [] wav.parses /\ ExceedsDuration(wav.frames, wav.rate, limit) ->
         Raised("MediaDurationExceededError")
    [] wav.parses /\ ~ExceedsDuration(wav.frames, wav.rate, limit) ->
         IF PcmError(wav) # NoError THEN Raised(PcmError(wav))
         ELSE IF wav.rate = 0 THEN Raised("AssetCanonicalizationError")
         ELSE Canonical(ResampledLength(wav.present, wav.rate))

-----------------------------------------------------------------------------
(* Video, through FFmpegMediaAdapter *)

\* The exception a MediaProcessingError or FFmpegTimeoutError becomes.
Translated(verdict) ==
  Raised(IF verdict = "timeout" THEN "AssetProcessingTimeoutError"
                                ELSE "AssetCanonicalizationError")

\* extract_audio: a video without an audio stream cannot be decoded.
ExtractAudio(video) ==
  IF video.audio THEN video.decode ELSE "invalid"

\* The WAV that ffmpeg writes is whole.
Extracted(video) ==
  [video EXCEPT !.container = "wav", !.parses = TRUE, !.width = TRUE,
                !.ragged = FALSE, !.frames = video.present]

\* _video_bytes_to_canonical_array.
DecodeVideo(video, limit) ==
  CASE video.probe # "ok" -> Translated(video.probe)
    [] /\ video.probe = "ok" /\ video.timed
       /\ ExceedsDuration(video.frames, video.rate, limit) ->
         Raised("MediaDurationExceededError")
    [] OTHER ->
         IF ExtractAudio(video) # "ok" THEN Translated(ExtractAudio(video))
         ELSE DecodeWav(Extracted(video), limit)

-----------------------------------------------------------------------------
(* Roles, and the audition's own reading of a cue *)

SourceContainers == {"wav", "video"}   \* SOURCE_MEDIA_SUPPORTED_MEDIA_TYPES
CueContainers == {"wav"}               \* CUE_SUPPORTED_MEDIA_TYPES

\* _resolve_and_canonicalize, once the Asset has been read.
Canonicalize(media, allowed, limit) ==
  CASE media.container \notin allowed -> Raised("AssetContentIncompatibleError")
    [] media.container \in allowed /\ media.container = "wav" -> DecodeWav(media, limit)
    [] media.container \in allowed /\ media.container # "wav" -> DecodeVideo(media, limit)

\* Mutant of PlayableLength: the fraction of a sample is cut off.
PlayableLengthFloored(wav) == (wav.frames * CanonicalRate) \div wav.rate

\* The samples an audition plays for a cue, recomputed from the header.
PlayableLength(wav) ==
  AtLeastOne(RoundedQuotient(wav.frames * CanonicalRate, wav.rate))

\* _canonical_wav_duration_seconds.
AuditionLength(wav) ==
  IF ~wav.parses \/ wav.rate = 0 \/ wav.frames = 0
  THEN Raised("AudioAuditionRenderingError")
  ELSE Canonical(PlayableLength(wav))

=============================================================================
