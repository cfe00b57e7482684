---------------------------- MODULE AssetUpload ----------------------------
(***************************************************************************)
(* From the bytes of an upload to a file that a client may refer to.       *)
(*                                                                         *)
(* The two upload routes are coroutines on the one event loop: they give   *)
(* way while they wait for a chunk of the body or for the spooled part,    *)
(* and not at all from `use_case.ingest` on.  `_write_new` creates the     *)
(* file before its bytes are there, and a thread that lists the directory  *)
(* -- the orphan pass and the storage-usage observation of a maintenance   *)
(* cycle -- runs between any two of these steps.                           *)
(*                                                                         *)
(* No Analysis refers to an upload here, so that every file whose grace    *)
(* window is over is an orphan; who keeps which Asset is the subject of    *)
(* AssetRetention.  Sizes count units of bytes; an answer stands for what  *)
(* `install_error_handlers` makes of an exception.                         *)
(***************************************************************************)
EXTENDS AssetName

CONSTANTS
  Uploads,      \* requests to the two routes
  Ids,          \* identifiers uuid4() can hand out
  Names,        \* file names of the parts
  MaxSize,      \* max_size_bytes of each logical type
  MaxChunk,     \* longest chunk the server delivers at once
  MaxAttempts,  \* _MAX_IDENTIFIER_ALLOCATION_ATTEMPTS
  MaxFaults,    \* bound on failing writes and unlinks
  NoId

ASSUME UploadAssumption ==
  /\ MaxSize \in [{"source_media", "cue"} -> Nat \ {0}]
  /\ MaxChunk \in Nat \ {0}
  /\ MaxAttempts \in Nat \ {0}
  /\ MaxFaults \in Nat
  /\ NoId \notin Ids

ASSUME NamesAssumption == Names \subseteq Seq(Characters)

VARIABLES
  upload,    \* control point of each handler
  kind,      \* logical_type of its route
  total,     \* _bounded_stream: bytes counted and handed to the parser
  label,     \* sanitized_name of the ingest in progress
  attempts,  \* identifiers tried by it
  place,     \* identifier of the file a handler created
  file,      \* what the directory holds under each identifier
  aged,      \* identifiers of files whose grace window is over
  excused,   \* files left behind by a crash or by a failing unlink
  listing,   \* control point of list_entries and of the deletions after it
  pass,      \* what the entries are for
  horizon,   \* aged, as of the pass's effective_now
  children,  \* names iterdir() has still to yield
  probed,    \* the child is_file() was true for
  entries,   \* what list_entries has collected
  faults

localVars == <<kind, total, label, attempts>>
handlerVars == <<upload, localVars, place>>
fileVars == <<file, aged, excused>>
listVars == <<listing, pass, horizon, children, probed, entries>>
uploadVars == <<handlerVars, fileVars, listVars, faults>>

Kinds == {"source_media", "cue"}

\* What sniff_media_type can find in the leading bytes of an upload.
Signatures == {"audio/wav", "video", "unknown"}

\* supported_media_types of each logical type; the five video containers are
\* one value, since nothing here tells them apart.
SupportedMediaTypes(k) ==
  IF k = "cue" THEN {"audio/wav"} ELSE {"audio/wav", "video"}

\* How a handler ends: 201; 400, 413, 415 or 422; 409 or 500.
Answers == {"created", "rejected", "failed"}

InProgress(u) == upload[u] \in {"receiving", "parsed", "allocating", "writing", "undoing"}

\* ingest is called without awaiting anything: no other coroutine runs.
LoopIsFree ==
  \A u \in Uploads : upload[u] \notin {"allocating", "writing", "undoing"}

\* The handler of u ends with an answer, and its locals are gone.
Answer(u, answer) ==
  /\ upload' = [upload EXCEPT ![u] = answer]
  /\ kind' = [kind EXCEPT ![u] = "cue"]
  /\ total' = [total EXCEPT ![u] = 0]
  /\ label' = [label EXCEPT ![u] = <<>>]
  /\ attempts' = [attempts EXCEPT ![u] = 0]

Continue(u, to) == upload' = [upload EXCEPT ![u] = to]

-----------------------------------------------------------------------------
(* Receiving the body *)

\* Mutant of FitsTheLimit: each chunk is compared by itself.
ChunkFits(u, n) == n <= MaxSize[kind[u]]

\* _bounded_stream: the total, this chunk included, is within the limit.
FitsTheLimit(u, n) == total[u] + n <= MaxSize[kind[u]]

\* A declared Content-Length over the limit (413): no byte is read.
RejectDeclaredLength(u) ==
  /\ upload[u] = "idle" /\ LoopIsFree
  /\ Answer(u, "rejected")
  /\ UNCHANGED <<place, fileVars, listVars, faults>>

\* A body that is not multipart (422): no byte is read either.
RejectContentType(u) ==
  /\ upload[u] = "idle" /\ LoopIsFree
  /\ Answer(u, "rejected")
  /\ UNCHANGED <<place, fileVars, listVars, faults>>

\* No Content-Length, one that is no number, or one within the limit: it
\* promises nothing, and the bytes are counted.
Accept(u, k) ==
  /\ upload[u] = "idle" /\ LoopIsFree
  /\ kind' = [kind EXCEPT ![u] = k]
  /\ Continue(u, "receiving")
  /\ UNCHANGED <<total, label, attempts, place, fileVars, listVars, faults>>

\* A chunk is handed to the parser.
Receive(u, n) ==
  /\ upload[u] = "receiving" /\ LoopIsFree
  /\ FitsTheLimit(u, n)
  /\ total' = [total EXCEPT ![u] = @ + n]
  /\ UNCHANGED <<upload, kind, label, attempts, place, fileVars, listVars, faults>>

\* A chunk takes the total over the limit (413): nobody sees it.
Overflow(u, n) ==
  /\ upload[u] = "receiving" /\ LoopIsFree
  /\ ~FitsTheLimit(u, n)
  /\ Answer(u, "rejected")
  /\ UNCHANGED <<place, fileVars, listVars, faults>>

\* A malformed body, or not exactly one file part (422); the form is closed.
RejectForm(u) ==
  /\ upload[u] = "receiving" /\ LoopIsFree
  /\ Answer(u, "rejected")
  /\ UNCHANGED <<place, fileVars, listVars, faults>>

\* The client hangs up: the stream raises ClientDisconnect.
Disconnect(u) ==
  /\ upload[u] = "receiving" /\ LoopIsFree
  /\ Answer(u, "failed")
  /\ UNCHANGED <<place, fileVars, listVars, faults>>

EndOfBody(u) ==
  /\ upload[u] = "receiving" /\ LoopIsFree
  /\ Continue(u, "parsed")
  /\ UNCHANGED <<localVars, place, fileVars, listVars, faults>>

-----------------------------------------------------------------------------
(* AssetIngestionUseCase.ingest and LocalFilesystemAssetStorage.ingest *)

\* The signature (415) and then the name (400) are checked before the
\* directory is touched; the size was checked by _bounded_stream.
RejectContent(u, signature, name) ==
  /\ upload[u] = "parsed" /\ LoopIsFree
  /\ signature \notin SupportedMediaTypes(kind[u]) \/ NameIsRejected(name)
  /\ Answer(u, "rejected")
  /\ UNCHANGED <<place, fileVars, listVars, faults>>

StartIngest(u, signature, name) ==
  /\ upload[u] = "parsed" /\ LoopIsFree
  /\ signature \in SupportedMediaTypes(kind[u])
  /\ ~NameIsRejected(name)
  /\ label' = [label EXCEPT ![u] = SanitizeAssetName(name)]
  /\ Continue(u, "allocating")
  /\ UNCHANGED <<kind, total, attempts, place, fileVars, listVars, faults>>

\* Mutant of Collide: the file of the other upload is opened for writing.
CollideAndTruncate(u, i) ==
  /\ upload[u] = "allocating"
  /\ file[i] # "absent"
  /\ file' = [file EXCEPT ![i] = "partial"]
  /\ place' = [place EXCEPT ![u] = i]
  /\ Continue(u, "writing")
  /\ UNCHANGED <<localVars, aged, excused, listVars, faults>>

\* open("xb") raises FileExistsError: the file is another upload's, and is
\* neither written nor unlinked; the last attempt gives up (409).
Collide(u, i) ==
  /\ upload[u] = "allocating"
  /\ file[i] # "absent"
  /\ IF attempts[u] + 1 = MaxAttempts
       THEN Answer(u, "failed")
       ELSE /\ attempts' = [attempts EXCEPT ![u] = @ + 1]
            /\ UNCHANGED <<upload, kind, total, label>>
  /\ UNCHANGED <<place, fileVars, listVars, faults>>

\* open("xb") creates an empty file, and the listing can see it.  (uuid4 may
\* repeat an identifier that is in use, as far as this module goes, but not
\* one whose file has been deleted: `place` is what a client remembers.)
Create(u, i) ==
  /\ upload[u] = "allocating"
  /\ \A v \in Uploads : place[v] # i
  /\ file' = [file EXCEPT ![i] = "partial"]
  /\ place' = [place EXCEPT ![u] = i]
  /\ Continue(u, "writing")
  /\ UNCHANGED <<localVars, aged, excused, listVars, faults>>

\* The payload is written and the Asset is constructed, which checks the name
\* once more: a rejection here (400) would come too late for the file.
Write(u) ==
  /\ upload[u] = "writing"
  /\ file' = [file EXCEPT ![place[u]] = "whole"]
  /\ Answer(u, IF SanitizeAssetName(label[u]) = label[u] THEN "created" ELSE "rejected")
  /\ UNCHANGED <<place, aged, excused, listVars, faults>>

\* A write that raises, or is short, gets to the handler that unlinks.
WriteFails(u) ==
  /\ upload[u] = "writing"
  /\ faults < MaxFaults
  /\ faults' = faults + 1
  /\ Continue(u, "undoing")
  /\ UNCHANGED <<localVars, place, fileVars, listVars>>

\* Mutant of Undo: the exception is passed on and the file is left.
UndoNothing(u) ==
  /\ upload[u] = "undoing"
  /\ Answer(u, "failed")
  /\ UNCHANGED <<place, fileVars, listVars, faults>>

\* unlink(missing_ok=True) of its own path, and the exception goes on (500).
Undo(u) ==
  /\ upload[u] = "undoing"
  /\ file' = [file EXCEPT ![place[u]] = "absent"]
  /\ Answer(u, "failed")
  /\ UNCHANGED <<place, aged, excused, listVars, faults>>

\* The unlink raises too.
UndoFails(u) ==
  /\ upload[u] = "undoing"
  /\ faults < MaxFaults
  /\ faults' = faults + 1
  /\ excused' = excused \cup {place[u]}
  /\ Answer(u, "failed")
  /\ UNCHANGED <<place, file, aged, listVars>>

-----------------------------------------------------------------------------
(* Listing the directory *)

\* The grace window of a file is over.  It is a day long, and no file is
\* still being written after a day.
GraceEnds(i) ==
  /\ file[i] # "absent"
  /\ i \notin aged
  /\ \A u \in Uploads : place[u] = i => ~InProgress(u)
  /\ aged' = aged \cup {i}
  /\ UNCHANGED <<handlerVars, file, excused, listVars, faults>>

\* list_entries reads the names in the directory.
StartListing(purpose) ==
  /\ listing' = "children"
  /\ pass' = purpose
  /\ children' = {i \in Ids : file[i] # "absent"}
  /\ entries' = {}
  /\ probed' = NoId

\* The orphan pass takes effective_now and lists.
BeginPass ==
  /\ listing = "idle"
  /\ horizon' = aged
  /\ StartListing("orphans")
  /\ UNCHANGED <<handlerVars, fileVars, faults>>

\* is_file() is false for a child that has gone, which is then passed over.
Probe(i) ==
  /\ listing = "children" /\ probed = NoId
  /\ i \in children
  /\ children' = children \ {i}
  /\ probed' = IF file[i] = "absent" THEN NoId ELSE i
  /\ UNCHANGED <<handlerVars, fileVars, listing, pass, horizon, entries, faults>>

\* stat() of a child that is still there.
Stat ==
  /\ listing = "children" /\ probed # NoId
  /\ file[probed] # "absent"
  /\ entries' = entries \cup {probed}
  /\ probed' = NoId
  /\ UNCHANGED <<handlerVars, fileVars, listing, pass, horizon, children, faults>>

\* Mutant of StatRaises: the listing stops at the child that has gone.
StatStopsListing ==
  /\ listing = "children" /\ probed # NoId
  /\ file[probed] = "absent"
  /\ children' = {} /\ probed' = NoId
  /\ UNCHANGED <<handlerVars, fileVars, listing, pass, horizon, entries, faults>>

\* stat() of a child that was unlinked since is_file(): FileNotFoundError
\* leaves list_entries, the pass and the cycle.
StatRaises ==
  /\ listing = "children" /\ probed # NoId
  /\ file[probed] = "absent"
  /\ listing' = "idle"
  /\ children' = {} /\ probed' = NoId /\ entries' = {}
  /\ UNCHANGED <<handlerVars, fileVars, pass, horizon, faults>>

IsListed == listing = "children" /\ children = {} /\ probed = NoId

\* The entries of the orphan pass are its candidates, those old enough.
SelectCandidates ==
  /\ IsListed /\ pass = "orphans"
  /\ listing' = "delete"
  /\ entries' = entries \cap horizon
  /\ UNCHANGED <<handlerVars, fileVars, pass, horizon, children, probed, faults>>

\* storage.delete, which an absent file does not disturb.
Delete(i) ==
  /\ listing = "delete" /\ i \in entries
  /\ entries' = entries \ {i}
  /\ file' = [file EXCEPT ![i] = "absent"]
  /\ UNCHANGED <<handlerVars, aged, excused, listing, pass, horizon, children, probed, faults>>

\* _emit_storage_usage_observed lists the directory once more.
ObserveUsage ==
  /\ listing = "delete" /\ entries = {}
  /\ StartListing("usage")
  /\ UNCHANGED <<handlerVars, fileVars, horizon, faults>>

EndPass ==
  /\ IsListed /\ pass = "usage"
  /\ listing' = "idle"
  /\ entries' = {}
  /\ UNCHANGED <<handlerVars, fileVars, pass, horizon, children, probed, faults>>

-----------------------------------------------------------------------------
(* The process ends: handlers and listing are gone, the files stay. *)

LoseHandlers ==
  /\ upload' = [u \in Uploads |-> IF InProgress(u) THEN "failed" ELSE upload[u]]
  /\ excused' = excused \cup
       {place[u] : u \in {v \in Uploads : upload[v] \in {"writing", "undoing"}}}
  /\ kind' = [u \in Uploads |-> "cue"]
  /\ total' = [u \in Uploads |-> 0]
  /\ label' = [u \in Uploads |-> <<>>]
  /\ attempts' = [u \in Uploads |-> 0]
  /\ listing' = "idle"
  /\ children' = {} /\ probed' = NoId /\ entries' = {}
  /\ UNCHANGED <<place, file, aged, pass, horizon, faults>>

UploadInit ==
  /\ upload = [u \in Uploads |-> "idle"]
  /\ kind = [u \in Uploads |-> "cue"]
  /\ total = [u \in Uploads |-> 0]
  /\ label = [u \in Uploads |-> <<>>]
  /\ attempts = [u \in Uploads |-> 0]
  /\ place = [u \in Uploads |-> NoId]
  /\ file = [i \in Ids |-> "absent"]
  /\ aged = {}
  /\ excused = {}
  /\ listing = "idle"
  /\ pass = "orphans"
  /\ horizon = {}
  /\ children = {}
  /\ probed = NoId
  /\ entries = {}
  /\ faults = 0

Handle(u) ==
  \/ RejectDeclaredLength(u)
  \/ RejectContentType(u)
  \/ \E k \in Kinds : Accept(u, k)
  \/ \E n \in 1..MaxChunk : Receive(u, n)
  \/ \E n \in 1..MaxChunk : Overflow(u, n)
  \/ RejectForm(u)
  \/ Disconnect(u)
  \/ EndOfBody(u)
  \/ \E signature \in Signatures, name \in Names : RejectContent(u, signature, name)
  \/ \E signature \in Signatures, name \in Names : StartIngest(u, signature, name)
  \/ \E i \in Ids : Collide(u, i)
  \/ \E i \in Ids : Create(u, i)
  \/ Write(u)
  \/ WriteFails(u)
  \/ Undo(u)
  \/ UndoFails(u)

ListStep ==
  \/ \E i \in children : Probe(i)
  \/ Stat
  \/ StatRaises
  \/ SelectCandidates
  \/ \E i \in entries : Delete(i)
  \/ ObserveUsage
  \/ EndPass
=============================================================================
