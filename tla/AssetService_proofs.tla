------------------------- MODULE AssetService_proofs -------------------------
(***************************************************************************)
(* Proofs about AssetService, for any sets of uploads, identifiers, names  *)
(* and maintenance threads, any limits and any number of faults and        *)
(* crashes.                                                                *)
(***************************************************************************)
EXTENDS AssetService, FiniteSetTheorems, SequenceTheorems, WellFoundedInduction, TLAPS

\* Control points of a handler.
Points == Answers \cup {"idle", "receiving", "parsed", "allocating", "writing", "undoing"}

\* What TypeOK says of the variables the handlers and the listing change.
UploadTypes ==
  /\ upload \in [Uploads -> Points]
  /\ kind \in [Uploads -> Kinds]
  /\ total \in [Uploads -> Nat]
  /\ attempts \in [Uploads -> Nat]
  /\ place \in [Uploads -> Ids \cup {NoId}]
  /\ file \in [Ids -> {"absent", "partial", "whole"}]
  /\ aged \in SUBSET Ids /\ excused \in SUBSET Ids
  /\ listing \in {"idle", "children", "delete"} /\ pass \in {"orphans", "usage"}
  /\ horizon \in SUBSET aged
  /\ children \in SUBSET Ids /\ entries \in SUBSET Ids /\ probed \in Ids \cup {NoId}
  /\ faults \in Nat

\* What it says of those of the process.
LifespanTypes ==
  /\ app \in {"down", "cleaning", "built", "serving", "leaving"}
  /\ stopEvent \in BOOLEAN /\ runner \in Threads \cup {NoThread}
  /\ thread \in [Threads -> {"unborn", "waiting", "cycle", "ended"}]

\* A handler that has created a file knows where it is.
PlaceInv ==
  \A u \in Uploads : upload[u] \in {"writing", "undoing", "created"} => place[u] \in Ids

\* The two parts, and the count of crashes, are TypeOK.
LEMMA TypesInParts == TypeOK <=> UploadTypes /\ LifespanTypes /\ crashes \in Nat
BY DEF TypeOK, UploadTypes, LifespanTypes, Points

\* The answers are control points, and none of them has a file in the making.
LEMMA AnswersArePoints ==
  /\ Answers \subseteq Points
  /\ {"receiving", "parsed", "allocating", "writing", "undoing"} \subseteq Points
  /\ Answers \cap {"idle", "receiving", "parsed", "allocating", "writing", "undoing"} = {}
BY DEF Answers, Points

\* An answer resets the locals of its handler.
LEMMA AnswerResets ==
  ASSUME UploadTypes, NEW u \in Uploads, NEW answer \in Answers, Answer(u, answer)
  PROVE  /\ upload' \in [Uploads -> Points]
         /\ kind' \in [Uploads -> Kinds]
         /\ total' \in [Uploads -> Nat]
         /\ attempts' \in [Uploads -> Nat]
         /\ upload'[u] = answer /\ total'[u] = 0
         /\ \A v \in Uploads \ {u} : /\ upload'[v] = upload[v] /\ total'[v] = total[v]
                                     /\ kind'[v] = kind[v]
<1>1. answer \in Points /\ "cue" \in Kinds
  BY AnswersArePoints DEF Kinds
<1> QED
  BY <1>1 DEF UploadTypes, Answer

\* A handler that goes on keeps its count.
LEMMA ContinueMoves ==
  ASSUME UploadTypes, NEW u \in Uploads, NEW to \in Points, Continue(u, to)
  PROVE  /\ upload' \in [Uploads -> Points]
         /\ upload'[u] = to
         /\ \A v \in Uploads \ {u} : upload'[v] = upload[v]
BY DEF UploadTypes, Continue

-----------------------------------------------------------------------------
(* The handlers *)

\* The count of a handler is within its limit, and zero before the body.
CountInv ==
  /\ BodiesAreBounded
  /\ \A u \in Uploads : upload[u] = "idle" => total[u] = 0

\* Files have one maker each.
OwnPlaces ==
  \A u, v \in Uploads : place[u] = place[v] /\ place[u] # NoId => u = v

\* Only files whose grace window is over are deleted.
ListInv == listing = "delete" => entries \subseteq aged

\* What an answered client was told of is whole, or was deleted in time.
WholeInv ==
  \A u \in Answered :
    file[place[u]] = "whole" \/ (file[place[u]] = "absent" /\ place[u] \in aged)

UploadInv == UploadTypes /\ PlaceInv /\ CountInv /\ OwnPlaces /\ ListInv /\ WholeInv

\* Steps of a handler that leave the directory alone.
Quiet(u) ==
  \/ RejectDeclaredLength(u)
  \/ RejectContentType(u)
  \/ \E k \in Kinds : Accept(u, k)
  \/ \E n \in 1..MaxChunk : Receive(u, n)
  \/ \E n \in 1..MaxChunk : Overflow(u, n)
  \/ RejectForm(u)
  \/ Disconnect(u)
  \/ EndOfBody(u)
  \/ \E signature \in Signatures, name \in Names : RejectContent(u, signature, name)
  \/ \E signature \in Signatures, name \in Names : StartIngest(u, signature, name)
  \/ \E i \in Ids : Collide(u, i)

\* A quiet step keeps the types and the bound, and leaves its handler without a
\* file.
LEMMA QuietStep ==
  ASSUME UploadTypes, CountInv, NEW u \in Uploads, Quiet(u)
  PROVE  /\ UNCHANGED <<place, fileVars, listVars, faults>>
         /\ upload' \in [Uploads -> Points]
         /\ kind' \in [Uploads -> Kinds]
         /\ total' \in [Uploads -> Nat]
         /\ attempts' \in [Uploads -> Nat]
         /\ upload'[u] \notin {"writing", "undoing", "created"}
         /\ \A v \in Uploads \ {u} : upload'[v] = upload[v]
         /\ CountInv'
<1> DEFINE Good == /\ upload' \in [Uploads -> Points]
                   /\ kind' \in [Uploads -> Kinds]
                   /\ total' \in [Uploads -> Nat]
                   /\ attempts' \in [Uploads -> Nat]
                   /\ upload'[u] \notin {"writing", "undoing", "created"}
                   /\ \A v \in Uploads \ {u} : upload'[v] = upload[v]
                   /\ CountInv'
<1>0. MaxSize \in [Kinds -> Nat \ {0}] /\ MaxChunk \in Nat
  BY UploadAssumption DEF Kinds
<1>1. ASSUME NEW answer \in {"rejected", "failed"}, Answer(u, answer)
      PROVE  Good
  <2>1. answer \in Answers
    BY DEF Answers
  <2>2. /\ upload' \in [Uploads -> Points]
        /\ kind' \in [Uploads -> Kinds]
        /\ total' \in [Uploads -> Nat]
        /\ attempts' \in [Uploads -> Nat]
        /\ upload'[u] = answer /\ total'[u] = 0
        /\ \A v \in Uploads \ {u} : /\ upload'[v] = upload[v] /\ total'[v] = total[v]
                                    /\ kind'[v] = kind[v]
    BY <1>1, <2>1, AnswerResets
  <2>3. \A v \in Uploads : total'[v] <= MaxSize[kind'[v]]
    <3>1. total'[u] <= MaxSize[kind'[u]]
      BY <1>0, <2>2
    <3>2. \A v \in Uploads \ {u} : total'[v] <= MaxSize[kind'[v]]
      BY <2>2 DEF CountInv, BodiesAreBounded
    <3> QED
      BY <3>1, <3>2
  <2> QED
    BY <2>2, <2>3 DEF CountInv, BodiesAreBounded
<1>2. ASSUME NEW to \in {"receiving", "parsed", "allocating"}, Continue(u, to),
             UNCHANGED <<kind, total, attempts>>
      PROVE  Good
  <2>1. to \in Points
    BY AnswersArePoints
  <2> QED
    BY <1>2, <2>1, ContinueMoves DEF UploadTypes, CountInv, BodiesAreBounded
<1>3. ASSUME NEW k \in Kinds, Accept(u, k) PROVE Good
  <2>1. /\ kind' \in [Uploads -> Kinds] /\ kind'[u] = k
        /\ \A v \in Uploads \ {u} : kind'[v] = kind[v]
        /\ total' = total /\ total[u] = 0 /\ attempts' = attempts
    BY <1>3 DEF Accept, UploadTypes, CountInv
  <2>2. \A v \in Uploads : total[v] <= MaxSize[kind'[v]]
    BY <1>0, <2>1 DEF CountInv, BodiesAreBounded
  <2>3. /\ upload' \in [Uploads -> Points] /\ upload'[u] = "receiving"
        /\ \A v \in Uploads \ {u} : upload'[v] = upload[v]
    BY <1>3, AnswersArePoints, ContinueMoves DEF Accept
  <2> QED
    BY <2>1, <2>2, <2>3 DEF UploadTypes, CountInv, BodiesAreBounded
<1>4. ASSUME NEW n \in 1..MaxChunk, Receive(u, n) PROVE Good
  <2>1. n \in Nat
    BY <1>0
  <2>2. /\ total' \in [Uploads -> Nat] /\ total'[u] = total[u] + n
        /\ \A v \in Uploads \ {u} : total'[v] = total[v]
        /\ UNCHANGED <<upload, kind, attempts>> /\ upload[u] = "receiving"
        /\ total[u] + n <= MaxSize[kind[u]]
    BY <1>4, <2>1 DEF Receive, FitsTheLimit, UploadTypes
  <2> QED
    BY <2>2 DEF UploadTypes, CountInv, BodiesAreBounded
<1>5. ASSUME NEW i \in Ids, Collide(u, i) PROVE Good
  <2>1. CASE attempts[u] + 1 = MaxAttempts
    BY <1>1, <1>5, <2>1 DEF Collide
  <2>2. CASE attempts[u] + 1 # MaxAttempts
    <3>1. /\ attempts' = [attempts EXCEPT ![u] = @ + 1]
          /\ UNCHANGED <<upload, kind, total>> /\ upload[u] = "allocating"
      BY <1>5, <2>2 DEF Collide
    <3> QED
      BY <3>1 DEF UploadTypes, CountInv, BodiesAreBounded
  <2> QED
    BY <2>1, <2>2
<1>6. ASSUME \/ RejectDeclaredLength(u) \/ RejectContentType(u) \/ RejectForm(u)
             \/ Disconnect(u)
             \/ \E n \in 1..MaxChunk : Overflow(u, n)
             \/ \E signature \in Signatures, name \in Names : RejectContent(u, signature, name)
      PROVE  Good
  <2>1. Answer(u, "rejected") \/ Answer(u, "failed")
    BY <1>6 DEF RejectDeclaredLength, RejectContentType, RejectForm, Disconnect, Overflow,
                RejectContent
  <2> QED
    BY <1>1, <2>1
<1>7. ASSUME \/ EndOfBody(u)
             \/ \E signature \in Signatures, name \in Names : StartIngest(u, signature, name)
      PROVE  Good
  <2>1. /\ Continue(u, "parsed") \/ Continue(u, "allocating")
        /\ UNCHANGED <<kind, total, attempts>>
    BY <1>7 DEF EndOfBody, StartIngest, localVars
  <2> QED
    BY <1>2, <2>1
<1>8. Good
  BY <1>3, <1>4, <1>5, <1>6, <1>7 DEF Quiet
<1>9. UNCHANGED <<place, fileVars, listVars, faults>>
  BY DEF Quiet, RejectDeclaredLength, RejectContentType, Accept, Receive, Overflow,
         RejectForm, Disconnect, EndOfBody, RejectContent, StartIngest, Collide
<1> QED
  BY <1>8, <1>9

\* A step of a handler keeps the invariant.
LEMMA HandleStep ==
  ASSUME UploadInv, NEW u \in Uploads, Handle(u)
  PROVE  UploadInv'
<1> USE UploadAssumption
    DEF UploadInv, fileVars, listVars, localVars, Answered, PlaceInv, OwnPlaces, ListInv,
        WholeInv
<1>1. CASE Quiet(u)
  <2>1. /\ UNCHANGED <<place, fileVars, listVars, faults>>
        /\ upload' \in [Uploads -> Points]
        /\ kind' \in [Uploads -> Kinds]
        /\ total' \in [Uploads -> Nat]
        /\ attempts' \in [Uploads -> Nat]
        /\ upload'[u] \notin {"writing", "undoing", "created"}
        /\ \A v \in Uploads \ {u} : upload'[v] = upload[v]
        /\ CountInv'
    BY <1>1, QuietStep
  <2>2. UploadTypes'
    BY <2>1 DEF UploadTypes
  <2> QED
    BY <2>1, <2>2
<1>2. ASSUME NEW to \in {"writing", "undoing"}, Continue(u, to), UNCHANGED localVars
      PROVE  /\ upload' \in [Uploads -> Points] /\ upload'[u] = to
             /\ \A v \in Uploads \ {u} : upload'[v] = upload[v]
             /\ CountInv'
  <2>1. to \in Points
    BY AnswersArePoints
  <2> QED
    BY <1>2, <2>1, ContinueMoves DEF CountInv, BodiesAreBounded
<1>3. ASSUME NEW answer \in Answers, Answer(u, answer)
      PROVE  /\ upload' \in [Uploads -> Points] /\ upload'[u] = answer
             /\ \A v \in Uploads \ {u} : upload'[v] = upload[v]
             /\ kind' \in [Uploads -> Kinds]
             /\ total' \in [Uploads -> Nat]
             /\ attempts' \in [Uploads -> Nat]
             /\ CountInv'
  <2>1. /\ upload' \in [Uploads -> Points]
        /\ kind' \in [Uploads -> Kinds]
        /\ total' \in [Uploads -> Nat]
        /\ attempts' \in [Uploads -> Nat]
        /\ upload'[u] = answer /\ total'[u] = 0
        /\ \A v \in Uploads \ {u} : /\ upload'[v] = upload[v] /\ total'[v] = total[v]
                                    /\ kind'[v] = kind[v]
    BY <1>3, AnswerResets
  <2>2. MaxSize[kind'[u]] \in Nat
    BY <2>1 DEF Kinds
  <2>3. answer # "idle"
    BY AnswersArePoints
  <2> QED
    BY <2>1, <2>2, <2>3 DEF CountInv, BodiesAreBounded
<1>4. ASSUME NEW i \in Ids, Create(u, i) PROVE UploadInv'
  <2>1. /\ upload' \in [Uploads -> Points] /\ upload'[u] = "writing"
        /\ \A v \in Uploads \ {u} : upload'[v] = upload[v]
        /\ CountInv'
    BY <1>2, <1>4 DEF Create
  <2>2. /\ place' \in [Uploads -> Ids \cup {NoId}] /\ place'[u] = i
        /\ \A v \in Uploads \ {u} : place'[v] = place[v] /\ place[v] # i
        /\ file' \in [Ids -> {"absent", "partial", "whole"}]
        /\ \A j \in Ids \ {i} : file'[j] = file[j]
        /\ UNCHANGED <<localVars, aged, excused, listVars, faults>>
    BY <1>4 DEF Create, UploadTypes
  <2>3. UploadTypes'
    BY <2>1, <2>2 DEF UploadTypes
  <2>4. PlaceInv' /\ OwnPlaces' /\ ListInv'
    BY <2>1, <2>2
  <2>5. WholeInv'
    BY <2>1, <2>2
  <2> QED
    BY <2>1, <2>3, <2>4, <2>5
<1>5. ASSUME Write(u) \/ Undo(u) \/ UndoFails(u) PROVE UploadInv'
  <2>1. /\ upload[u] \in {"writing", "undoing"} /\ place[u] \in Ids
        /\ place' = place
    BY <1>5 DEF Write, Undo, UndoFails
  <2>2. PICK a \in Answers : Answer(u, a) /\ (a = "created" => Write(u))
    BY <1>5 DEF Write, Undo, UndoFails, Answers
  <2>3. /\ upload' \in [Uploads -> Points] /\ upload'[u] = a
        /\ \A v \in Uploads \ {u} : upload'[v] = upload[v]
        /\ kind' \in [Uploads -> Kinds]
        /\ total' \in [Uploads -> Nat]
        /\ attempts' \in [Uploads -> Nat]
        /\ CountInv'
    BY <1>3, <2>2
  <2>4. /\ file' \in [Ids -> {"absent", "partial", "whole"}]
        /\ \A j \in Ids \ {place[u]} : file'[j] = file[j]
        /\ Write(u) => file'[place[u]] = "whole"
        /\ UNCHANGED <<aged, listVars>>
        /\ excused' \in SUBSET Ids /\ faults' \in Nat
    BY <1>5, <2>1 DEF Write, Undo, UndoFails, UploadTypes
  <2>5. UploadTypes'
    BY <2>1, <2>3, <2>4 DEF UploadTypes
  <2>6. a # "writing" /\ a # "undoing"
    BY AnswersArePoints
  <2>7. PlaceInv' /\ OwnPlaces' /\ ListInv'
    BY <2>1, <2>3, <2>4, <2>6
  <2>8. WholeInv'
    <3> SUFFICES ASSUME NEW v \in Uploads, upload'[v] = "created"
                 PROVE  \/ file'[place[v]] = "whole"
                        \/ file'[place[v]] = "absent" /\ place[v] \in aged
      BY <2>1, <2>4
    <3>1. CASE v = u
      BY <2>1, <2>2, <2>3, <2>4, <3>1
    <3>2. CASE v # u
      <4>1. upload[v] = "created" /\ place[v] \in Ids /\ place[v] # place[u]
        BY <2>1, <2>3, <3>2
      <4> QED
        BY <2>4, <4>1
    <3> QED
      BY <3>1, <3>2
  <2> QED
    BY <2>3, <2>5, <2>7, <2>8
<1>6. ASSUME WriteFails(u) PROVE UploadInv'
  <2>1. /\ upload' \in [Uploads -> Points] /\ upload'[u] = "undoing"
        /\ \A v \in Uploads \ {u} : upload'[v] = upload[v]
        /\ CountInv'
    BY <1>2, <1>6 DEF WriteFails
  <2>2. /\ upload[u] = "writing"
        /\ UNCHANGED <<localVars, place, fileVars, listVars>> /\ faults' \in Nat
    BY <1>6 DEF WriteFails, UploadTypes
  <2>3. UploadTypes'
    BY <2>1, <2>2 DEF UploadTypes
  <2> QED
    BY <2>1, <2>2, <2>3
<1> QED
  BY <1>1, <1>4, <1>5, <1>6 DEF Handle, Quiet

-----------------------------------------------------------------------------
(* The directory, the listing and a crash *)

\* Listing and deleting keep the invariant: what is deleted is old enough.
LEMMA ListKeeps ==
  ASSUME UploadInv, ListStep \/ BeginPass \/ \E i \in Ids : GraceEnds(i)
  PROVE  UploadInv'
<1> USE DEF UploadInv, handlerVars, localVars, fileVars, listVars, Answered
<1>0. UNCHANGED <<handlerVars, faults>>
  BY DEF ListStep, BeginPass, GraceEnds, Probe, Stat, StatRaises, SelectCandidates, Delete,
         ObserveUsage, EndPass
<1>1. PlaceInv' /\ CountInv' /\ OwnPlaces'
  BY <1>0 DEF PlaceInv, CountInv, BodiesAreBounded, OwnPlaces
<1>2. ASSUME NEW purpose \in {"orphans", "usage"}, StartListing(purpose),
             UNCHANGED fileVars, horizon' = aged \/ horizon' = horizon
      PROVE  UploadInv'
  <2>1. UploadTypes'
    BY <1>0, <1>2, UploadAssumption DEF UploadTypes, StartListing
  <2>2. ListInv' /\ WholeInv'
    BY <1>0, <1>2 DEF ListInv, WholeInv, StartListing
  <2> QED
    BY <1>1, <2>1, <2>2
<1>3. CASE BeginPass \/ ObserveUsage
  BY <1>2, <1>3 DEF BeginPass, ObserveUsage
<1>4. CASE Stat \/ StatRaises \/ SelectCandidates \/ EndPass \/ \E i \in children : Probe(i)
  <2>1. UNCHANGED <<file, aged, excused, horizon, pass>> /\ children' \in SUBSET Ids
    BY <1>4 DEF Stat, StatRaises, SelectCandidates, EndPass, Probe, UploadTypes
  <2>2. /\ listing' \in {"idle", "children", "delete"}
        /\ entries' \in SUBSET Ids /\ probed' \in Ids \cup {NoId}
        /\ listing' = "delete" => entries' \subseteq horizon
    BY <1>4 DEF Stat, StatRaises, SelectCandidates, EndPass, Probe, UploadTypes
  <2>3. UploadTypes' /\ ListInv' /\ WholeInv'
    BY <1>0, <2>1, <2>2 DEF UploadTypes, ListInv, WholeInv
  <2> QED
    BY <1>1, <2>3
<1>5. ASSUME NEW i \in entries, Delete(i) PROVE UploadInv'
  <2>1. /\ i \in aged /\ i \in Ids
        /\ file' = [file EXCEPT ![i] = "absent"]
        /\ listing = "delete" /\ entries' = entries \ {i}
        /\ UNCHANGED <<aged, excused, listing, pass, horizon, children, probed>>
    BY <1>5 DEF Delete, ListInv, UploadTypes
  <2>2. UploadTypes' /\ ListInv'
    BY <1>0, <2>1 DEF UploadTypes, ListInv
  <2>3. WholeInv'
    BY <1>0, <2>1 DEF UploadTypes, WholeInv, PlaceInv
  <2> QED
    BY <1>1, <2>2, <2>3
<1>6. ASSUME NEW i \in Ids, GraceEnds(i) PROVE UploadInv'
  <2>1. aged' = aged \cup {i} /\ UNCHANGED <<file, excused, listVars>>
    BY <1>6 DEF GraceEnds
  <2> QED
    BY <1>0, <1>1, <2>1 DEF UploadTypes, ListInv, WholeInv
<1> QED
  BY <1>3, <1>4, <1>5, <1>6 DEF ListStep

\* A crash loses handlers and the listing, and no answered file.
LEMMA CrashKeeps ==
  ASSUME UploadInv, LoseHandlers
  PROVE  UploadInv'
<1> USE DEF UploadInv, LoseHandlers, InProgress
<1>1. /\ upload' \in [Uploads -> Points]
      /\ \A u \in Uploads : upload'[u] \in {"writing", "undoing", "created", "idle"} =>
           upload[u] = upload'[u] /\ upload'[u] \notin {"writing", "undoing"}
  <2>1. "failed" \in Points
    BY DEF Points, Answers
  <2> QED
    BY <2>1 DEF UploadTypes
<1>2. /\ kind' \in [Uploads -> Kinds] /\ total' \in [Uploads -> Nat]
      /\ attempts' \in [Uploads -> Nat]
      /\ \A u \in Uploads : kind'[u] = "cue" /\ total'[u] = 0
  BY DEF Kinds
<1>3. excused' \in SUBSET Ids
  BY DEF UploadTypes, PlaceInv
<1>4. UploadTypes'
  BY <1>1, <1>2, <1>3, UploadAssumption DEF UploadTypes
<1>5. CountInv'
  BY <1>1, <1>2, UploadAssumption DEF CountInv, BodiesAreBounded
<1>6. PlaceInv' /\ OwnPlaces' /\ ListInv'
  BY <1>1 DEF PlaceInv, OwnPlaces, ListInv
<1>7. WholeInv'
  BY <1>1 DEF WholeInv, Answered
<1> QED
  BY <1>4, <1>5, <1>6, <1>7

\* The lifespan changes nothing of it.
LEMMA OthersKeep ==
  ASSUME UploadInv, UNCHANGED uploadVars
  PROVE  UploadInv'
BY DEF UploadInv, uploadVars, handlerVars, localVars, fileVars, listVars, UploadTypes,
       PlaceInv, CountInv, BodiesAreBounded, OwnPlaces, ListInv, WholeInv, Answered

\* The invariant of uploads holds from the start on.
LEMMA UploadsAreSafe == Spec => []UploadInv
<1>1. Init => UploadInv
  <2> SUFFICES ASSUME Init PROVE UploadInv
    OBVIOUS
  <2>1. /\ upload \in [Uploads -> Points] /\ \A u \in Uploads : upload[u] = "idle"
        /\ kind \in [Uploads -> Kinds] /\ \A u \in Uploads : kind[u] = "cue"
        /\ total \in [Uploads -> Nat] /\ \A u \in Uploads : total[u] = 0
        /\ attempts \in [Uploads -> Nat]
        /\ place \in [Uploads -> Ids \cup {NoId}]
        /\ file \in [Ids -> {"absent", "partial", "whole"}]
        /\ \A u \in Uploads : place[u] = NoId
    BY DEF Init, UploadInit, Points, Kinds
  <2>2. UploadTypes
    BY <2>1 DEF Init, UploadInit, UploadTypes
  <2>3. CountInv
    BY <2>1, UploadAssumption DEF CountInv, BodiesAreBounded
  <2>4. PlaceInv /\ OwnPlaces /\ ListInv /\ WholeInv
    BY <2>1 DEF Init, UploadInit, PlaceInv, OwnPlaces, ListInv, WholeInv, Answered
  <2> QED
    BY <2>2, <2>3, <2>4 DEF UploadInv
<1>2. UploadInv /\ [Next]_vars => UploadInv'
  <2> SUFFICES ASSUME UploadInv, [Next]_vars PROVE UploadInv'
    OBVIOUS
  <2>1. ASSUME NEW u \in Uploads, Serve(u) PROVE UploadInv'
    BY <2>1, HandleStep DEF Serve
  <2>2. CASE Maintain \/ Boot \/ (\E i \in Ids : TimePasses(i)) \/ \E t \in Threads : BeginCycle(t)
    BY <2>2, ListKeeps DEF Maintain, Boot, TimePasses, BeginCycle
  <2>3. CASE Crash
    BY <2>3, CrashKeeps DEF Crash
  <2>4. CASE \/ BootEnds \/ Leave \/ Join \/ Quit \/ UNCHANGED vars
             \/ \E t \in Threads : Enter(t) \/ EndCycle(t) \/ Stop(t)
    BY <2>4, OthersKeep DEF BootEnds, Leave, Join, Quit, vars, Enter, EndCycle, Stop
  <2> QED
    BY <2>1, <2>2, <2>3, <2>4 DEF Next
<1> QED
  BY <1>1, <1>2, PTL DEF Spec

\* The parser never gets more than the limit, however a body is cut up.
THEOREM BodiesStayBounded == Spec => []BodiesAreBounded
<1>1. UploadInv => BodiesAreBounded
  BY DEF UploadInv, CountInv
<1> QED
  BY <1>1, UploadsAreSafe, PTL

\* An identifier that was answered names a whole file of that upload alone,
\* until its grace window is over.
THEOREM AnsweredAreWhole == Spec => []AnsweredAssetsAreWhole
<1>1. UploadInv => AnsweredAssetsAreWhole
  <2> SUFFICES ASSUME UploadInv, NEW u \in Answered
               PROVE  /\ \/ file[place[u]] = "whole"
                         \/ file[place[u]] = "absent" /\ place[u] \in aged
                      /\ \A v \in Answered \ {u} : place[v] # place[u]
    BY DEF AnsweredAssetsAreWhole
  <2>1. place[u] # NoId
    BY UploadAssumption DEF UploadInv, PlaceInv, Answered
  <2> QED
    BY <2>1 DEF UploadInv, WholeInv, OwnPlaces, Answered
<1> QED
  BY <1>1, UploadsAreSafe, PTL

-----------------------------------------------------------------------------
(* The name of an Asset *)

\* A set of natural numbers has a least element.
LEMMA LeastElement ==
  ASSUME NEW S \in SUBSET Nat, S # {}
  PROVE  \E m \in S : \A n \in S : m <= n
<1>1. \E m \in S : \A n \in S : ~ (<<n, m>> \in OpToRel(<, Nat))
  BY NatLessThanWellFounded, WFMin
<1>2. PICK m \in S : \A n \in S : ~ (<<n, m>> \in OpToRel(<, Nat))
  BY <1>1
<1>3. \A n \in S : ~ (n < m)
  BY <1>2 DEF OpToRel
<1> QED
  BY <1>3

\* One that is bounded has a greatest.
LEMMA GreatestElement ==
  ASSUME NEW S \in SUBSET Nat, S # {}, NEW b \in Nat, \A n \in S : n <= b
  PROVE  \E m \in S : \A n \in S : n <= m
<1> DEFINE T == {n \in Nat : \A k \in S : k <= n}
<1>1. PICK m \in T : \A n \in T : m <= n
  <2>1. T \in SUBSET Nat /\ b \in T
    OBVIOUS
  <2> HIDE DEF T
  <2> QED
    BY <2>1, LeastElement
<1>2. m \in S
  <2> SUFFICES ASSUME m \notin S PROVE FALSE
    OBVIOUS
  <2>1. \A k \in S : k <= m - 1
    BY <1>1
  <2>2. m - 1 \in Nat
    <3>1. PICK k \in S : k <= m - 1
      BY <2>1
    <3>2. k \in Nat /\ m \in Nat
      OBVIOUS
    <3> QED
      BY <3>1, <3>2
  <2>3. m - 1 \in T
    BY <2>1, <2>2
  <2> QED
    BY <1>1, <2>3
<1> QED
  BY <1>1, <1>2

\* A set of positions has a last one and a first one.
LEMMA EndsOfPositions ==
  ASSUME NEW n \in Nat, NEW S \in SUBSET (1..n), S # {}
  PROVE  /\ \E last \in S : /\ \A q \in S : q <= last
                            /\ (CHOOSE p \in S : \A q \in S : q <= p) = last
         /\ \E first \in S : /\ \A q \in S : first <= q
                             /\ (CHOOSE p \in S : \A q \in S : p <= q) = first
<1>1. S \in SUBSET Nat /\ \A q \in S : q <= n
  OBVIOUS
<1>2. PICK last \in S : \A q \in S : q <= last
  BY <1>1, GreatestElement
<1>3. PICK first \in S : \A q \in S : first <= q
  BY <1>1, LeastElement
<1>4. \A p \in S : (\A q \in S : q <= p) => p = last
  BY <1>2
<1>5. \A p \in S : (\A q \in S : p <= q) => p = first
  BY <1>3
<1> QED
  BY <1>2, <1>3, <1>4, <1>5

\* The solid positions, one by one.
LEMMA SolidPositions ==
  ASSUME NEW t, NEW n \in Nat, Len(t) = n
  PROVE  /\ Solid(t) \in SUBSET (1..n)
         /\ \A p \in Solid(t) : t[p] # "_"
         /\ \A p \in 1..n : t[p] # "_" => p \in Solid(t)
<1>1. Solid(t) = {p \in 1..n : t[p] # "_"}
  BY Zenon DEF Solid
<1> QED
  BY <1>1

\* What is stripped from the right leaves a prefix that ends in a solid
\* character, and the whole sequence if that was the last one.
LEMMA RightIsStripped ==
  ASSUME NEW C, NEW t \in Seq(C), NEW n \in Nat, Len(t) = n, n > 0
  PROVE  /\ StripRight(t) # <<>> => \E p \in 1..n : StripRight(t) = SubSeq(t, 1, p) /\ t[p] # "_"
         /\ t[n] # "_" => StripRight(t) = t
<1>1. PICK S \in SUBSET (1..n) :
        /\ S = Solid(t)
        /\ \A p \in S : t[p] # "_"
        /\ \A p \in 1..n : t[p] # "_" => p \in S
  BY SolidPositions, Zenon
<1>0. n \in 1..n
  OBVIOUS
<1>2. CASE S = {}
  <2>1. t[n] = "_"
    BY <1>0, <1>1, <1>2, Zenon
  <2> QED
    BY <1>1, <1>2, <2>1 DEF StripRight
<1>3. CASE S # {}
  <2>1. PICK last \in S : /\ \A q \in S : q <= last
                         /\ (CHOOSE p \in S : \A q \in S : q <= p) = last
    BY <1>3, EndsOfPositions
  <2>2. StripRight(t) = SubSeq(t, 1, last)
    BY <1>1, <1>3, <2>1, Zenon DEF StripRight
  <2>3. ASSUME t[n] # "_" PROVE last = n
    <3>1. n \in S
      BY <1>0, <1>1, <2>3, Zenon
    <3> QED
      BY <2>1, <3>1
  <2>4. SubSeq(t, 1, n) = t
    OBVIOUS
  <2> QED
    BY <1>1, <2>1, <2>2, <2>3, <2>4
<1> QED
  BY <1>2, <1>3

\* What is stripped from the left leaves a sequence that begins with a solid
\* character, and the whole one if that was the first.
LEMMA LeftIsStripped ==
  ASSUME NEW C, NEW t \in Seq(C), NEW n \in Nat, Len(t) = n, n > 0
  PROVE  /\ StripLeft(t) # <<>> => \E p \in 1..n : StripLeft(t) = SubSeq(t, p, n) /\ t[p] # "_"
         /\ t[1] # "_" => StripLeft(t) = t
<1>1. PICK S \in SUBSET (1..n) :
        /\ S = Solid(t)
        /\ \A p \in S : t[p] # "_"
        /\ \A p \in 1..n : t[p] # "_" => p \in S
  BY SolidPositions, Zenon
<1>0. 1 \in 1..n
  OBVIOUS
<1>2. CASE S = {}
  <2>1. t[1] = "_"
    BY <1>0, <1>1, <1>2, Zenon
  <2> QED
    BY <1>1, <1>2, <2>1 DEF StripLeft
<1>3. CASE S # {}
  <2>1. PICK first \in S : /\ \A q \in S : first <= q
                          /\ (CHOOSE p \in S : \A q \in S : p <= q) = first
    BY <1>3, EndsOfPositions
  <2>2. StripLeft(t) = SubSeq(t, first, n)
    BY <1>1, <1>3, <2>1, Zenon DEF StripLeft
  <2>3. ASSUME t[1] # "_" PROVE first = 1
    <3>1. 1 \in S
      BY <1>0, <1>1, <2>3, Zenon
    <3> QED
      BY <2>1, <3>1
  <2>4. SubSeq(t, 1, n) = t
    OBVIOUS
  <2> QED
    BY <1>1, <2>1, <2>2, <2>3, <2>4
<1> QED
  BY <1>2, <1>3

\* A name without a character to replace is not changed.
LEMMA NothingReplaced ==
  ASSUME NEW C, NEW t \in Seq(C), NEW n \in Nat, Len(t) = n, \A p \in 1..n : t[p] # "#"
  PROVE  Replaced(t) = t
<1>1. Kept(t) = 1..n
  BY DEF Kept
<1>2. Cardinality(Kept(t)) = n
  BY <1>1, FS_Interval
<1>3. ASSUME NEW k \in 1..n PROVE Nth(1..n, k) = k
  <2>1. \A p \in 1..n : {q \in 1..n : q <= p} = 1..p
    OBVIOUS
  <2>2. ASSUME NEW p \in 1..n PROVE Cardinality(1..p) = p
    BY FS_Interval
  <2>3. \A p \in 1..n : Cardinality({q \in 1..n : q <= p}) = p
    BY <2>1, <2>2, Zenon
  <2> QED
    BY <2>3 DEF Nth
<1>4. Replaced(t) = [k \in 1..n |-> t[k]]
  BY <1>1, <1>2, <1>3 DEF Replaced
<1> QED
  BY <1>4

\* A replaced name is a sequence without such a character.
LEMMA ReplacedIsClean ==
  ASSUME NEW t \in Seq(Characters)
  PROVE  \E C, n : /\ n \in Nat /\ Replaced(t) \in Seq(C) /\ Len(Replaced(t)) = n
                  /\ \A p \in 1..n : Replaced(t)[p] # "#"
<1>1. Cardinality(Kept(t)) \in Nat
  <2>1. PICK n \in Nat : n = Len(t)
    OBVIOUS
  <2>2. Kept(t) \in SUBSET (1..n)
    BY <2>1, Zenon DEF Kept
  <2>3. IsFiniteSet(1..n)
    BY FS_Interval
  <2> QED
    BY <2>2, <2>3, FS_Subset, FS_CardinalityType
<1>2. PICK n \in Nat : n = Cardinality(Kept(t))
  BY <1>1
<1> DEFINE R == Replaced(t)
           C == {R[k] : k \in 1..n}
<1>3. R = [k \in 1..n |-> R[k]] /\ \A k \in 1..n : R[k] # "#"
  BY <1>2 DEF Replaced
<1>4. R \in Seq(C) /\ Len(R) = n
  <2> HIDE DEF R
  <2>1. \A k \in 1..n : R[k] \in C
    OBVIOUS
  <2>2. PICK D : D = C
    OBVIOUS
  <2> HIDE DEF C
  <2> QED
    BY <1>3, <2>1
<1> QED
  BY <1>3, <1>4

\* Of nothing, nothing is left.
LEMMA NothingIsLeft ==
  StripRight(<<>>) = <<>> /\ StripLeft(<<>>) = <<>> /\ FirstOf(<<>>) = <<>>
<1>1. Solid(<<>>) = {}
  BY DEF Solid
<1>2. FirstOf(<<>>) = <<>>
  <2>1. (IF 0 < MaxNameLength THEN 0 ELSE MaxNameLength) = 0
    BY NameAssumption
  <2>2. Len(<<>>) = 0 /\ SubSeq(<<>>, 1, 0) = <<>>
    OBVIOUS
  <2> QED
    BY <2>1, <2>2, Zenon DEF FirstOf
<1> QED
  BY <1>1, <1>2 DEF StripRight, StripLeft

\* A prefix of a name has the characters of the name.
LEMMA PrefixOfName ==
  ASSUME NEW C, NEW t \in Seq(C), NEW m \in Nat, Len(t) = m, NEW k \in Nat, k <= m
  PROVE  /\ SubSeq(t, 1, k) \in Seq(C) /\ Len(SubSeq(t, 1, k)) = k
         /\ \A p \in 1..k : p \in 1..m /\ SubSeq(t, 1, k)[p] = t[p]
OBVIOUS

\* Its longest prefix is the name.
LEMMA WholeIsPrefix ==
  ASSUME NEW C, NEW t \in Seq(C), NEW n \in Nat, Len(t) = n
  PROVE  SubSeq(t, 1, n) = t
OBVIOUS

\* A name of length m that begins with a solid character, and has none that is to
\* be replaced.
Begun(t, m) ==
  /\ Len(t) = m /\ t[1] # "_"
  /\ \A p \in 1..m : t[p] # "#"

\* So has a prefix of it.
LEMMA PrefixIsBegun ==
  ASSUME NEW C, NEW t \in Seq(C), NEW m \in Nat, Begun(t, m), NEW k \in Nat, k > 0, k <= m
  PROVE  /\ SubSeq(t, 1, k) \in Seq(C)
         /\ Begun(SubSeq(t, 1, k), k)
         /\ SubSeq(t, 1, k)[k] = t[k]
<1>1. Len(t) = m
  BY Zenon DEF Begun
<1>2. /\ SubSeq(t, 1, k) \in Seq(C) /\ Len(SubSeq(t, 1, k)) = k
      /\ \A p \in 1..k : p \in 1..m /\ SubSeq(t, 1, k)[p] = t[p]
  BY <1>1, PrefixOfName, Zenon
<1>3. 1 \in 1..k /\ k \in 1..k
  OBVIOUS
<1> QED
  BY <1>2, <1>3, Zenon DEF Begun

\* A cut leaves a prefix that is short enough.
LEMMA CutIsPrefix ==
  ASSUME NEW t, NEW m \in Nat, Len(t) = m, m > 0
  PROVE  \E k \in Nat : /\ k > 0 /\ k <= m /\ k <= MaxNameLength
                        /\ m <= MaxNameLength => k = m
                        /\ FirstOf(t) = SubSeq(t, 1, k)
<1>1. PICK k \in Nat : k = IF m < MaxNameLength THEN m ELSE MaxNameLength
  BY NameAssumption
<1>2. FirstOf(t) = SubSeq(t, 1, k)
  BY <1>1, Zenon DEF FirstOf
<1>3. k > 0 /\ k <= m /\ k <= MaxNameLength /\ (m <= MaxNameLength => k = m)
  BY <1>1, NameAssumption
<1> QED
  BY <1>2, <1>3

\* A name that is stripped at both ends and short enough stays as it is.
LEMMA SanitizedStays ==
  ASSUME NEW C, NEW t \in Seq(C), NEW m \in Nat, m > 0, m <= MaxNameLength,
         Begun(t, m), t[m] # "_"
  PROVE  SanitizeAssetName(t) = t
<1>0. Len(t) = m /\ t[1] # "_" /\ \A p \in 1..m : t[p] # "#"
  BY Zenon DEF Begun
<1>1. Replaced(t) = t
  BY <1>0, NothingReplaced, Zenon
<1>2. StripLeft(t) = t /\ StripRight(t) = t
  BY <1>0, LeftIsStripped, RightIsStripped, Zenon
<1>3. FirstOf(t) = t
  <2>1. FirstOf(t) = SubSeq(t, 1, m)
    BY <1>0, CutIsPrefix, Zenon
  <2>2. SubSeq(t, 1, m) = t
    BY <1>0, WholeIsPrefix, Zenon
  <2> QED
    BY <1>0, <2>1, <2>2, Zenon
<1> QED
  BY <1>1, <1>2, <1>3, Zenon DEF SanitizeAssetName

\* What is stripped from the left begins with a solid character.
LEMMA LeftIsBegun ==
  ASSUME NEW C, NEW t \in Seq(C), NEW n \in Nat, Len(t) = n, n > 0,
         \A p \in 1..n : t[p] # "#", StripLeft(t) # <<>>
  PROVE  \E m \in Nat : m > 0 /\ StripLeft(t) \in Seq(C) /\ Begun(StripLeft(t), m)
<1>1. PICK p \in 1..n : StripLeft(t) = SubSeq(t, p, n) /\ t[p] # "_"
  BY LeftIsStripped, Zenon
<1> DEFINE s == SubSeq(t, p, n)
<1>2. PICK m \in Nat : m = n - p + 1
  OBVIOUS
<1>3. s \in Seq(C) /\ Len(s) = m
  BY <1>2
<1>4. \A q \in 1..m : s[q] = t[p + q - 1] /\ p + q - 1 \in 1..n
  BY <1>2
<1>5. m > 0 /\ 1 \in 1..m /\ p + 1 - 1 = p
  BY <1>2
<1> HIDE DEF s
<1>6. s[1] # "_"
  BY <1>1, <1>4, <1>5, Zenon
<1>7. \A q \in 1..m : s[q] # "#"
  BY <1>4, Zenon
<1>8. StripLeft(t) = s
  BY <1>1 DEF s
<1> QED
  BY <1>3, <1>5, <1>6, <1>7, <1>8, Zenon DEF Begun

\* Sanitizing a sanitized name changes nothing.
THEOREM SanitizedIsStable ==
  ASSUME NEW name \in Seq(Characters), SanitizeAssetName(name) # <<>>
  PROVE  SanitizeAssetName(SanitizeAssetName(name)) = SanitizeAssetName(name)
<1>1. PICK C : \E n \in Nat : /\ Replaced(name) \in Seq(C) /\ Len(Replaced(name)) = n
                              /\ \A p \in 1..n : Replaced(name)[p] # "#"
  BY ReplacedIsClean, Zenon
<1>2. PICK n \in Nat : /\ Replaced(name) \in Seq(C) /\ Len(Replaced(name)) = n
                       /\ \A p \in 1..n : Replaced(name)[p] # "#"
  BY <1>1, Zenon
<1>3. PICK clean, left, both, cut, result :
        /\ clean = Replaced(name)
        /\ left = StripLeft(clean) /\ both = StripRight(left)
        /\ cut = FirstOf(both) /\ result = StripRight(cut)
  OBVIOUS
<1>4. result = SanitizeAssetName(name)
  BY <1>3, Zenon DEF SanitizeAssetName
<1>5. cut # <<>> /\ both # <<>> /\ left # <<>> /\ clean # <<>>
  BY <1>3, <1>4, NothingIsLeft, Zenon
<1>6. PICK m \in Nat : m > 0 /\ left \in Seq(C) /\ Begun(left, m)
  <2>1. n > 0
    <3>1. \A s \in Seq(C) : Len(s) = 0 => s = <<>>
      OBVIOUS
    <3>2. n # 0
      BY <1>2, <1>3, <1>5, <3>1, Zenon
    <3> QED
      BY <3>2
  <2> QED
    BY <1>2, <1>3, <1>5, <2>1, LeftIsBegun, Zenon
<1>7. ASSUME NEW s \in Seq(C), NEW i \in Nat, i > 0, Begun(s, i), StripRight(s) # <<>>
      PROVE  \E j \in Nat : /\ j > 0 /\ j <= i
                            /\ StripRight(s) \in Seq(C) /\ Begun(StripRight(s), j)
                            /\ StripRight(s)[j] # "_"
  <2>1. Len(s) = i
    BY <1>7, Zenon DEF Begun
  <2>2. PICK j \in 1..i : StripRight(s) = SubSeq(s, 1, j) /\ s[j] # "_"
    BY <1>7, <2>1, RightIsStripped, Zenon
  <2>3. j \in Nat /\ j > 0 /\ j <= i
    OBVIOUS
  <2>4. /\ SubSeq(s, 1, j) \in Seq(C) /\ Begun(SubSeq(s, 1, j), j)
        /\ SubSeq(s, 1, j)[j] = s[j]
    BY <1>7, <2>3, PrefixIsBegun, Zenon
  <2> QED
    BY <2>2, <2>3, <2>4, Zenon
<1>8. PICK k \in Nat : k > 0 /\ both \in Seq(C) /\ Begun(both, k)
  BY <1>3, <1>5, <1>6, <1>7, Zenon
<1>9. PICK j \in Nat : j > 0 /\ j <= MaxNameLength /\ cut \in Seq(C) /\ Begun(cut, j)
  <2>1. Len(both) = k
    BY <1>8, Zenon DEF Begun
  <2>2. PICK j \in Nat : /\ j > 0 /\ j <= k /\ j <= MaxNameLength
                         /\ FirstOf(both) = SubSeq(both, 1, j)
    BY <1>8, <2>1, CutIsPrefix, Zenon
  <2> QED
    BY <1>3, <1>8, <2>2, PrefixIsBegun, Zenon
<1>10. PICK i \in Nat : /\ i > 0 /\ i <= j
                        /\ result \in Seq(C) /\ Begun(result, i) /\ result[i] # "_"
  <2>1. result # <<>>
    BY <1>4, Zenon
  <2> QED
    BY <1>3, <1>7, <1>9, <2>1, Zenon
<1>11. i <= MaxNameLength
  <2>1. j <= MaxNameLength /\ i <= j
    BY <1>9, <1>10, Zenon
  <2> QED
    BY <2>1, NameAssumption
<1>12. SanitizeAssetName(result) = result
  BY <1>10, <1>11, SanitizedStays, Zenon
<1> QED
  BY <1>4, <1>12, Zenon

-----------------------------------------------------------------------------
(* Files without an owner *)

\* The name of an ingest in progress passes the check it will meet again when
\* the Asset is constructed.
LabelInv ==
  /\ label = [u \in Uploads |-> label[u]]
  /\ \A u \in Uploads : upload[u] \in {"allocating", "writing", "undoing"} =>
       SanitizeAssetName(label[u]) = label[u]

CauseInv == LabelInv /\ LeftoversHaveACause

\* A handler keeps the names checked.
LEMMA LabelsStay ==
  ASSUME UploadTypes, LabelInv, NEW u \in Uploads, Handle(u)
  PROVE  LabelInv'
<1>1. ASSUME NEW answer \in Answers, Answer(u, answer) PROVE LabelInv'
  <2>1. answer \notin {"allocating", "writing", "undoing"}
    BY AnswersArePoints
  <2>2. /\ upload'[u] = answer /\ label' = [label EXCEPT ![u] = <<>>]
        /\ \A v \in Uploads \ {u} : upload'[v] = upload[v]
    BY <1>1 DEF Answer, UploadTypes
  <2> QED
    BY <2>1, <2>2 DEF LabelInv
<1>2. ASSUME NEW to, Continue(u, to), UNCHANGED label,
             to \in {"allocating", "writing", "undoing"} =>
               upload[u] \in {"allocating", "writing", "undoing"}
      PROVE  LabelInv'
  <2>1. upload'[u] = to /\ \A v \in Uploads \ {u} : upload'[v] = upload[v]
    BY <1>2 DEF Continue, UploadTypes
  <2> QED
    BY <1>2, <2>1 DEF LabelInv
<1>3. ASSUME UNCHANGED <<upload, label>> PROVE LabelInv'
  BY <1>3 DEF LabelInv
<1>4. ASSUME NEW signature \in Signatures, NEW name \in Names,
             StartIngest(u, signature, name)
      PROVE  LabelInv'
  <2>1. name \in Seq(Characters) /\ SanitizeAssetName(name) # <<>>
    BY <1>4, NamesAssumption DEF StartIngest, NameIsRejected
  <2>2. SanitizeAssetName(SanitizeAssetName(name)) = SanitizeAssetName(name)
    BY <2>1, SanitizedIsStable
  <2>3. /\ label' = [label EXCEPT ![u] = SanitizeAssetName(name)]
        /\ \A v \in Uploads \ {u} : upload'[v] = upload[v]
    BY <1>4 DEF StartIngest, Continue, UploadTypes
  <2> QED
    BY <2>2, <2>3 DEF LabelInv
<1>5. CASE \/ RejectDeclaredLength(u) \/ RejectContentType(u) \/ RejectForm(u)
           \/ Disconnect(u) \/ Write(u) \/ Undo(u) \/ UndoFails(u)
           \/ \E n \in 1..MaxChunk : Overflow(u, n)
           \/ \E signature \in Signatures, name \in Names : RejectContent(u, signature, name)
  <2>1. \E answer \in Answers : Answer(u, answer)
    BY <1>5 DEF RejectDeclaredLength, RejectContentType, RejectForm, Disconnect, Overflow,
                RejectContent, Write, Undo, UndoFails, Answers
  <2> QED
    BY <1>1, <2>1
<1>6. CASE \/ EndOfBody(u) \/ WriteFails(u)
           \/ \E k \in Kinds : Accept(u, k)
           \/ \E i \in Ids : Create(u, i)
  <2>1. /\ UNCHANGED label
        /\ \E to : /\ Continue(u, to)
                   /\ to \in {"allocating", "writing", "undoing"} =>
                        upload[u] \in {"allocating", "writing", "undoing"}
    BY <1>6 DEF EndOfBody, WriteFails, Accept, Create, localVars
  <2> QED
    BY <1>2, <2>1
<1>7. ASSUME NEW i \in Ids, Collide(u, i) PROVE LabelInv'
  <2>1. Answer(u, "failed") \/ UNCHANGED <<upload, label>>
    BY <1>7 DEF Collide
  <2> QED
    BY <1>1, <1>3, <2>1 DEF Answers
<1>8. ASSUME NEW n \in 1..MaxChunk, Receive(u, n) PROVE LabelInv'
  BY <1>3, <1>8 DEF Receive
<1> QED
  BY <1>4, <1>5, <1>6, <1>7, <1>8 DEF Handle

\* A handler leaves no file behind that has no owner and no excuse.
LEMMA HandlersOwnTheirFiles ==
  ASSUME UploadInv, CauseInv, NEW u \in Uploads, Handle(u)
  PROVE  LeftoversHaveACause'
<1> USE DEF Answered, IsAccountedFor, LeftoversHaveACause
<1>0. UploadTypes /\ LeftoversHaveACause /\ (upload[u] = "writing" => place[u] \in Ids)
  BY DEF UploadInv, CauseInv, PlaceInv
<1>1. CASE Quiet(u)
  <2>1. /\ UNCHANGED <<place, fileVars>>
        /\ \A v \in Uploads \ {u} : upload'[v] = upload[v]
    BY <1>1, QuietStep DEF UploadInv
  <2>2. upload[u] \in {"idle", "receiving", "parsed", "allocating"}
    BY <1>1 DEF Quiet, RejectDeclaredLength, RejectContentType, Accept, Receive, Overflow,
                RejectForm, Disconnect, EndOfBody, RejectContent, StartIngest, Collide
  <2> QED
    BY <1>0, <2>1, <2>2 DEF fileVars
<1>2. ASSUME NEW i \in Ids, Create(u, i) PROVE LeftoversHaveACause'
  <2>1. /\ upload'[u] = "writing" /\ place'[u] = i /\ upload[u] = "allocating"
        /\ \A v \in Uploads \ {u} : upload'[v] = upload[v] /\ place'[v] = place[v]
        /\ \A j \in Ids \ {i} : file'[j] = file[j]
        /\ excused' = excused
    BY <1>0, <1>2 DEF Create, Continue, UploadTypes
  <2> QED
    BY <1>0, <2>1
<1>3. CASE Write(u)
  <2>1. SanitizeAssetName(label[u]) = label[u]
    BY <1>3 DEF Write, CauseInv, LabelInv
  <2>2. /\ upload[u] = "writing" /\ upload'[u] = "created"
        /\ \A v \in Uploads \ {u} : upload'[v] = upload[v]
        /\ \A j \in Ids \ {place[u]} : file'[j] = file[j]
        /\ place' = place /\ excused' = excused
    BY <1>0, <1>3, <2>1 DEF Write, Answer, UploadTypes
  <2> QED
    BY <1>0, <2>2
<1>4. CASE WriteFails(u)
  <2>1. /\ upload'[u] = "undoing"
        /\ \A v \in Uploads \ {u} : upload'[v] = upload[v]
        /\ UNCHANGED <<place, file, excused>>
    BY <1>0, <1>4 DEF WriteFails, Continue, UploadTypes, fileVars
  <2> QED
    BY <1>0, <2>1
<1>5. CASE Undo(u) \/ UndoFails(u)
  <2>1. upload[u] = "undoing" /\ place[u] \in Ids /\ place' = place
    BY <1>5 DEF Undo, UndoFails, UploadInv, PlaceInv
  <2>2. \A v \in Uploads \ {u} : upload'[v] = upload[v]
    BY <1>0, <1>5 DEF Undo, UndoFails, Answer, UploadTypes
  <2>3. /\ file'[place[u]] = "absent" \/ place[u] \in excused'
        /\ excused \subseteq excused'
        /\ \A j \in Ids \ {place[u]} : file'[j] = file[j]
    BY <1>0, <1>5, <2>1 DEF Undo, UndoFails, UploadTypes
  <2> QED
    BY <1>0, <2>1, <2>2, <2>3
<1> QED
  BY <1>1, <1>2, <1>3, <1>4, <1>5 DEF Handle, Quiet

\* Neither does the maintenance thread, nor the passing of time.
LEMMA ListingOwnsNothing ==
  ASSUME UploadInv, CauseInv, ListStep \/ BeginPass \/ \E i \in Ids : GraceEnds(i)
  PROVE  CauseInv'
<1>1. /\ UNCHANGED <<upload, label, place, excused>>
      /\ \A i \in Ids : file'[i] \in {file[i], "absent"}
  <2>1. UploadTypes
    BY DEF UploadInv
  <2>2. UNCHANGED <<upload, label, place, excused>>
    BY DEF ListStep, BeginPass, GraceEnds, Probe, Stat, StatRaises, SelectCandidates, Delete,
           ObserveUsage, EndPass, handlerVars, localVars, fileVars
  <2>3. file' = file \/ \E i \in entries : file' = [file EXCEPT ![i] = "absent"]
    BY DEF ListStep, BeginPass, GraceEnds, Probe, Stat, StatRaises, SelectCandidates, Delete,
           ObserveUsage, EndPass, fileVars
  <2> QED
    BY <2>1, <2>2, <2>3 DEF UploadTypes
<1> QED
  BY <1>1 DEF CauseInv, LabelInv, LeftoversHaveACause, IsAccountedFor, Answered

\* A crash excuses the files that were being written.
LEMMA CrashExcuses ==
  ASSUME UploadInv, CauseInv, LoseHandlers
  PROVE  CauseInv'
<1>1. /\ \A u \in Uploads : upload'[u] \notin {"allocating", "writing", "undoing"}
      /\ label' = [u \in Uploads |-> <<>>]
  BY DEF LoseHandlers, InProgress
<1>2. \A u \in Uploads : upload[u] = "created" => upload'[u] = "created"
  BY DEF LoseHandlers, InProgress
<1>3. /\ \A u \in Uploads : upload[u] \in {"writing", "undoing"} => place[u] \in excused'
      /\ excused \subseteq excused'
      /\ UNCHANGED <<place, file>>
  BY DEF LoseHandlers
<1> QED
  BY <1>1, <1>2, <1>3 DEF CauseInv, LabelInv, LeftoversHaveACause, IsAccountedFor, Answered

\* A file nobody knows of is the fault of a crash in the middle of a write, or of
\* an unlink that failed as well: no refusal comes after a file was created.
THEOREM LeftoversAreExcused == Spec => []LeftoversHaveACause
<1>1. Init => CauseInv
  BY DEF Init, UploadInit, CauseInv, LabelInv, LeftoversHaveACause
<1>2. UploadInv /\ CauseInv /\ [Next]_vars => CauseInv'
  <2> SUFFICES ASSUME UploadInv, CauseInv, [Next]_vars PROVE CauseInv'
    OBVIOUS
  <2>1. ASSUME NEW u \in Uploads, Serve(u) PROVE CauseInv'
    BY <2>1, LabelsStay, HandlersOwnTheirFiles DEF Serve, CauseInv, UploadInv
  <2>2. CASE Maintain \/ Boot \/ (\E i \in Ids : TimePasses(i)) \/ \E t \in Threads : BeginCycle(t)
    BY <2>2, ListingOwnsNothing DEF Maintain, Boot, TimePasses, BeginCycle
  <2>3. CASE Crash
    BY <2>3, CrashExcuses DEF Crash
  <2>4. CASE \/ BootEnds \/ Leave \/ Join \/ Quit \/ UNCHANGED vars
             \/ \E t \in Threads : Enter(t) \/ EndCycle(t) \/ Stop(t)
    <3>1. UNCHANGED <<upload, label, place, file, excused>>
      BY <2>4 DEF BootEnds, Leave, Join, Quit, vars, Enter, EndCycle, Stop, uploadVars,
                  handlerVars, localVars, fileVars
    <3> QED
      BY <3>1 DEF CauseInv, LabelInv, LeftoversHaveACause, IsAccountedFor, Answered
  <2> QED
    BY <2>1, <2>2, <2>3, <2>4 DEF Next
<1>3. CauseInv => LeftoversHaveACause
  BY DEF CauseInv
<1> QED
  BY <1>1, <1>2, <1>3, UploadsAreSafe, PTL DEF Spec

-----------------------------------------------------------------------------
(* Refinement of the abstract store *)

\* Every file, and every identifier that is old, belongs to the handler that
\* created the file; one that is being written is not old; and a handler that
\* has created nothing yet has no place.
FileInv ==
  /\ \A u \in Uploads : upload[u] \in {"idle", "receiving", "parsed", "allocating"} =>
       place[u] = NoId
  /\ \A u \in Uploads : upload[u] \in {"writing", "undoing"} => place[u] \notin aged
  /\ \A i \in Ids : file[i] # "absent" \/ i \in aged => \E u \in Uploads : place[u] = i

\* A quiet step comes before the file, and does not create it.
LEMMA QuietIsEarly ==
  ASSUME UploadInv, NEW u \in Uploads, Quiet(u)
  PROVE  /\ UNCHANGED <<place, file, aged>>
         /\ upload[u] \in {"idle", "receiving", "parsed", "allocating"}
         /\ upload'[u] \notin {"writing", "undoing", "created"}
         /\ \A v \in Uploads \ {u} : upload'[v] = upload[v]
<1>1. /\ UNCHANGED <<place, fileVars>>
      /\ upload'[u] \notin {"writing", "undoing", "created"}
      /\ \A v \in Uploads \ {u} : upload'[v] = upload[v]
  BY QuietStep DEF UploadInv
<1>2. upload[u] \in {"idle", "receiving", "parsed", "allocating"}
  BY DEF Quiet, RejectDeclaredLength, RejectContentType, Accept, Receive, Overflow,
         RejectForm, Disconnect, EndOfBody, RejectContent, StartIngest, Collide
<1> QED
  BY <1>1, <1>2 DEF fileVars

\* The open for exclusive creation takes an identifier that has no file.
LEMMA CreateTakesANewPlace ==
  ASSUME UploadInv, NEW u \in Uploads, NEW i \in Ids, Create(u, i)
  PROVE  /\ upload[u] = "allocating" /\ upload'[u] = "writing"
         /\ \A v \in Uploads \ {u} : upload'[v] = upload[v] /\ place'[v] = place[v]
         /\ \A v \in Uploads : place[v] # i
         /\ place'[u] = i
         /\ \A j \in Ids \ {i} : file'[j] = file[j]
         /\ aged' = aged
BY DEF UploadInv, UploadTypes, Create, Continue

\* Once the file is created its handler ends, or goes on to undo the creation,
\* and touches no other file.
LEMMA LateStep ==
  ASSUME UploadInv, NEW u \in Uploads,
         Write(u) \/ WriteFails(u) \/ Undo(u) \/ UndoFails(u)
  PROVE  /\ upload[u] \in {"writing", "undoing"} /\ place[u] \in Ids
         /\ upload'[u] \in Answers \cup {"undoing"}
         /\ upload'[u] = "created" => file'[place[u]] = "whole"
         /\ \A v \in Uploads \ {u} : upload'[v] = upload[v]
         /\ \A j \in Ids \ {place[u]} : file'[j] = file[j]
         /\ place' = place /\ aged' = aged
<1>1. upload[u] \in {"writing", "undoing"} /\ place[u] \in Ids
  BY DEF UploadInv, PlaceInv, Write, WriteFails, Undo, UndoFails
<1>2. CASE Write(u)
  BY <1>1, <1>2 DEF UploadInv, UploadTypes, Write, Answer, Answers
<1>3. CASE WriteFails(u)
  BY <1>1, <1>3 DEF UploadInv, UploadTypes, WriteFails, Continue, fileVars
<1>4. CASE Undo(u) \/ UndoFails(u)
  BY <1>1, <1>4 DEF UploadInv, UploadTypes, Undo, UndoFails, Answer, Answers
<1> QED
  BY <1>2, <1>3, <1>4

\* The maintenance thread only deletes files, old ones; time only ages files of
\* handlers that have ended.
LEMMA ListingOrTime ==
  ASSUME UploadInv, ListStep \/ BeginPass \/ \E i \in Ids : GraceEnds(i)
  PROVE  /\ UNCHANGED <<upload, place>>
         /\ \/ UNCHANGED <<file, aged>>
            \/ \E i \in aged : file' = [file EXCEPT ![i] = "absent"] /\ aged' = aged
            \/ \E i \in Ids : /\ file[i] # "absent" /\ file' = file /\ aged' = aged \cup {i}
                              /\ \A u \in Uploads : place[u] = i =>
                                   upload[u] \notin {"writing", "undoing"}
<1>1. UNCHANGED <<upload, place>>
  BY DEF ListStep, BeginPass, GraceEnds, Probe, Stat, StatRaises, SelectCandidates, Delete,
         ObserveUsage, EndPass, handlerVars
<1>2. ASSUME NEW i \in entries, Delete(i)
      PROVE  i \in aged /\ file' = [file EXCEPT ![i] = "absent"] /\ aged' = aged
  BY <1>2 DEF Delete, UploadInv, ListInv
<1>3. ASSUME NEW i \in Ids, GraceEnds(i)
      PROVE  /\ file[i] # "absent" /\ file' = file /\ aged' = aged \cup {i}
             /\ \A u \in Uploads : place[u] = i => upload[u] \notin {"writing", "undoing"}
  BY <1>3 DEF GraceEnds, InProgress
<1>4. ASSUME \/ BeginPass \/ Stat \/ StatRaises \/ SelectCandidates \/ ObserveUsage \/ EndPass
             \/ \E i \in children : Probe(i)
      PROVE  UNCHANGED <<file, aged>>
  BY <1>4 DEF BeginPass, Probe, Stat, StatRaises, SelectCandidates, ObserveUsage, EndPass,
              fileVars
<1> QED
  BY <1>1, <1>2, <1>3, <1>4 DEF ListStep

\* A crash ends the handlers in progress and leaves the directory as it is.
LEMMA CrashKeepsFiles ==
  ASSUME LoseHandlers
  PROVE  /\ UNCHANGED <<place, file, aged>>
         /\ \A u \in Uploads : upload'[u] # upload[u] => /\ upload[u] # "created"
                                                         /\ upload'[u] = "failed"
         /\ \A u \in Uploads : upload'[u] \notin {"writing", "undoing"}
BY DEF LoseHandlers, InProgress

\* Which steps of this module are about the handlers and the directory.
LEMMA StepsOfTheStore ==
  ASSUME [Next]_vars
  PROVE  \/ \E u \in Uploads : Handle(u)
         \/ ListStep \/ BeginPass \/ \E i \in Ids : GraceEnds(i)
         \/ LoseHandlers
         \/ UNCHANGED <<upload, place, file, aged>>
<1>1. CASE Crash
  BY <1>1 DEF Crash
<1>2. CASE \/ BootEnds \/ Leave \/ Join \/ Quit \/ UNCHANGED vars
           \/ \E t \in Threads : Enter(t) \/ EndCycle(t) \/ Stop(t)
  BY <1>2 DEF BootEnds, Leave, Join, Quit, vars, Enter, EndCycle, Stop, uploadVars,
              handlerVars, fileVars
<1>3. CASE \/ \E u \in Uploads : Serve(u)
           \/ Maintain \/ Boot
           \/ \E i \in Ids : TimePasses(i)
           \/ \E t \in Threads : BeginCycle(t)
  BY <1>3 DEF Serve, Maintain, Boot, TimePasses, BeginCycle
<1> QED
  BY <1>1, <1>2, <1>3 DEF Next

\* The invariant of the files is kept by each of them.
LEMMA FilesStay ==
  ASSUME UploadInv, FileInv, [Next]_vars
  PROVE  FileInv'
<1> USE UploadAssumption DEF FileInv
<1>1. ASSUME NEW u \in Uploads, Quiet(u) PROVE FileInv'
  BY <1>1, QuietIsEarly
<1>2. ASSUME NEW u \in Uploads, NEW i \in Ids, Create(u, i) PROVE FileInv'
  <2>1. /\ upload[u] = "allocating" /\ upload'[u] = "writing"
        /\ \A v \in Uploads \ {u} : upload'[v] = upload[v] /\ place'[v] = place[v]
        /\ \A v \in Uploads : place[v] # i
        /\ place'[u] = i
        /\ \A j \in Ids \ {i} : file'[j] = file[j]
        /\ aged' = aged
    BY <1>2, CreateTakesANewPlace
  <2>2. place[u] = NoId /\ i \notin aged
    BY <2>1
  <2>3. ASSUME NEW j \in Ids, file'[j] # "absent" \/ j \in aged'
        PROVE  \E v \in Uploads : place'[v] = j
    <3>1. CASE j = i
      BY <2>1, <3>1
    <3>2. CASE j # i
      <4>1. PICK v \in Uploads : place[v] = j
        BY <2>1, <2>3, <3>2
      <4>2. v # u
        BY <2>2, <4>1
      <4> QED
        BY <2>1, <4>1, <4>2
    <3> QED
      BY <3>1, <3>2
  <2> QED
    BY <2>1, <2>2, <2>3
<1>3. ASSUME NEW u \in Uploads, Write(u) \/ WriteFails(u) \/ Undo(u) \/ UndoFails(u)
      PROVE  FileInv'
  <2>1. /\ upload[u] \in {"writing", "undoing"} /\ place[u] \in Ids
        /\ upload'[u] \in Answers \cup {"undoing"}
        /\ \A v \in Uploads \ {u} : upload'[v] = upload[v]
        /\ \A j \in Ids \ {place[u]} : file'[j] = file[j]
        /\ place' = place /\ aged' = aged
    BY <1>3, LateStep
  <2> QED
    BY <2>1 DEF Answers
<1>4. ASSUME ListStep \/ BeginPass \/ \E i \in Ids : GraceEnds(i) PROVE FileInv'
  <2>1. UploadTypes
    BY DEF UploadInv
  <2> QED
    BY <1>4, <2>1, ListingOrTime DEF UploadTypes
<1>5. CASE LoseHandlers
  BY <1>5, CrashKeepsFiles
<1>6. CASE UNCHANGED <<upload, place, file, aged>>
  BY <1>6
<1> QED
  BY <1>1, <1>2, <1>3, <1>4, <1>5, <1>6, StepsOfTheStore DEF Handle, Quiet

\* A step that is not an answer and leaves the answered files alone cannot be seen.
LEMMA LifeStays ==
  ASSUME \A u \in Uploads : upload'[u] = "created" <=> upload[u] = "created",
         \A u \in Answered : place'[u] = place[u] /\ file'[place[u]] = file[place[u]],
         aged' = aged
  PROVE  \A i \in Ids : Life(i)' = Life(i)
BY DEF Life, Answered

\* Every step is a step of the abstract store on the lives, or cannot be seen.
LEMMA StoreStep ==
  ASSUME UploadInv, FileInv, [Next]_vars
  PROVE  Store!Next \/ \A i \in Ids : Life(i)' = Life(i)
<1> DEFINE Lives == [i \in Ids |-> Life(i)]
<1> USE DEF Answered
<1>1. ASSUME NEW u \in Uploads, Quiet(u) PROVE \A i \in Ids : Life(i)' = Life(i)
  <2>1. \A v \in Uploads : upload'[v] = "created" <=> upload[v] = "created"
    BY <1>1, QuietIsEarly
  <2> QED
    BY <1>1, <2>1, QuietIsEarly, LifeStays
<1>2. ASSUME NEW u \in Uploads, NEW i \in Ids, Create(u, i)
      PROVE  \A j \in Ids : Life(j)' = Life(j)
  <2>1. /\ upload[u] = "allocating" /\ upload'[u] = "writing"
        /\ \A v \in Uploads \ {u} : upload'[v] = upload[v] /\ place'[v] = place[v]
        /\ \A v \in Uploads : place[v] # i
        /\ \A j \in Ids \ {i} : file'[j] = file[j]
        /\ aged' = aged
    BY <1>2, CreateTakesANewPlace
  <2>2. \A v \in Uploads : upload'[v] = "created" <=> upload[v] = "created"
    BY <2>1
  <2>3. \A v \in Answered : v # u /\ place[v] \in Ids \ {i}
    BY <2>1 DEF UploadInv, PlaceInv
  <2> QED
    BY <2>1, <2>2, <2>3, LifeStays
<1>3. ASSUME NEW u \in Uploads, Write(u) \/ WriteFails(u) \/ Undo(u) \/ UndoFails(u)
      PROVE  Store!Next \/ \A i \in Ids : Life(i)' = Life(i)
  <2>1. /\ upload[u] \in {"writing", "undoing"} /\ place[u] \in Ids
        /\ upload'[u] = "created" => file'[place[u]] = "whole"
        /\ \A v \in Uploads \ {u} : upload'[v] = upload[v]
        /\ \A j \in Ids \ {place[u]} : file'[j] = file[j]
        /\ place' = place /\ aged' = aged
    BY <1>3, LateStep
  <2>2. \A v \in Answered : v # u /\ place[v] \in Ids \ {place[u]}
    BY <2>1, UploadAssumption DEF UploadInv, PlaceInv, OwnPlaces
  <2>3. CASE upload'[u] # "created"
    <3>1. \A v \in Uploads : upload'[v] = "created" <=> upload[v] = "created"
      BY <2>1, <2>3
    <3> QED
      BY <2>1, <2>2, <3>1, LifeStays
  <2>4. CASE upload'[u] = "created"
    <3>1. PICK i \in Ids : i = place[u]
      BY <2>1
    <3>2. Life(i) = "unknown"
      BY <2>2, <3>1 DEF Life
    <3>3. i \notin aged
      BY <2>1, <3>1 DEF FileInv
    <3>4. Life(i)' = "promised"
      BY <2>1, <2>4, <3>1, <3>3 DEF Life
    <3>5. ASSUME NEW j \in Ids \ {i} PROVE Life(j)' = Life(j)
      BY <2>1, <3>1 DEF Life
    <3>6. Lives[i] = "unknown" /\ Lives' = [Lives EXCEPT ![i] = "promised"]
      BY <3>2, <3>4, <3>5
    <3> QED
      BY <3>6 DEF Store!Next, Store!Store
  <2> QED
    BY <2>3, <2>4
<1>4. ASSUME UNCHANGED <<upload, place>>, aged' = aged, NEW i \in aged,
             file' = [file EXCEPT ![i] = "absent"]
      PROVE  Store!Next \/ \A j \in Ids : Life(j)' = Life(j)
  <2>1. /\ i \in Ids /\ file'[i] = "absent"
        /\ \A j \in Ids \ {i} : file'[j] = file[j]
    BY <1>4 DEF UploadInv, UploadTypes
  <2>2. \A j \in Ids \ {i} : Life(j)' = Life(j)
    BY <1>4, <2>1 DEF Life
  <2>3. Life(i) \in {"unknown", "deleted", "unprotected"}
    BY <1>4 DEF Life
  <2>4. Life(i)' = IF Life(i) = "unprotected" THEN "deleted" ELSE Life(i)
    BY <1>4, <2>1 DEF Life
  <2>5. CASE Life(i) = "unprotected"
    <3>1. Lives[i] = "unprotected" /\ Lives' = [Lives EXCEPT ![i] = "deleted"]
      BY <2>1, <2>2, <2>4, <2>5
    <3> QED
      BY <2>1, <3>1 DEF Store!Next, Store!Reclaim
  <2> QED
    BY <2>2, <2>4, <2>5
<1>5. ASSUME UNCHANGED <<upload, place, file>>, NEW i \in Ids, aged' = aged \cup {i}
      PROVE  Store!Next \/ \A j \in Ids : Life(j)' = Life(j)
  <2>1. \A j \in Ids \ {i} : Life(j)' = Life(j)
    BY <1>5 DEF Life
  <2>2. Life(i)' = IF Life(i) = "promised" THEN "unprotected" ELSE Life(i)
    BY <1>5 DEF Life
  <2>3. CASE Life(i) = "promised"
    <3>1. Lives' = [j \in Ids |-> IF j \in {i} THEN "unprotected" ELSE Lives[j]]
      BY <2>1, <2>2, <2>3
    <3>2. {i} \in SUBSET Ids /\ \A j \in {i} : Lives[j] = "promised"
      BY <2>3
    <3> QED
      BY <3>1, <3>2 DEF Store!Next, Store!Expire
  <2> QED
    BY <2>1, <2>2, <2>3
<1>6. CASE ListStep \/ BeginPass \/ \E i \in Ids : GraceEnds(i)
  <2>1. CASE UNCHANGED <<file, aged>>
    BY <1>6, <2>1, ListingOrTime, LifeStays
  <2> QED
    BY <1>4, <1>5, <1>6, <2>1, ListingOrTime
<1>7. CASE LoseHandlers
  <2>1. \A v \in Uploads : upload'[v] = "created" <=> upload[v] = "created"
    BY <1>7, CrashKeepsFiles
  <2> QED
    BY <1>7, <2>1, CrashKeepsFiles, LifeStays
<1>8. CASE UNCHANGED <<upload, place, file, aged>>
  BY <1>8, LifeStays
<1> QED
  BY <1>1, <1>2, <1>3, <1>6, <1>7, <1>8, StepsOfTheStore DEF Handle, Quiet

\* The many steps of an upload, and everything that may come between them,
\* implement the store in which an upload is one step.
THEOREM RefinesStore == Spec => ImplementsStore
<1>1. Init => FileInv /\ Store!Init
  <2> SUFFICES ASSUME Init PROVE FileInv /\ Store!Init
    OBVIOUS
  <2>1. /\ \A u \in Uploads : upload[u] = "idle" /\ place[u] = NoId
        /\ \A i \in Ids : file[i] = "absent"
        /\ aged = {}
    BY DEF Init, UploadInit
  <2> QED
    BY <2>1 DEF FileInv, Life, Answered, Store!Init
<1>2. UploadInv /\ FileInv /\ [Next]_vars => FileInv'
  BY FilesStay
<1>3. UploadInv /\ FileInv /\ [Next]_vars => [Store!Next]_[i \in Ids |-> Life(i)]
  BY StoreStep
<1> QED
  BY <1>1, <1>2, <1>3, UploadsAreSafe, PTL DEF Spec, ImplementsStore, Store!Spec

-----------------------------------------------------------------------------
(* Nothing old is left *)

\* An old file is still to be listed, or is an entry already; after the
\* selection it is an entry until it is deleted.
PassInv ==
  /\ horizon \subseteq aged
  /\ listing = "children" /\ pass = "orphans" =>
       \A i \in horizon : file[i] = "absent" \/ i \in children \cup entries \cup {probed}
  /\ listing = "delete" =>
       pass = "orphans" /\ \A i \in horizon : file[i] = "absent" \/ i \in entries
  /\ PassesAreThorough

\* An old file that has gone does not come back: no handler is given its
\* identifier, and none that is still writing has it.
LEMMA OldFilesStayGone ==
  ASSUME UploadInv, FileInv, [Next]_vars, NEW i \in aged, file[i] = "absent"
  PROVE  i \in aged' /\ file'[i] = "absent"
<1> USE DEF FileInv
<1>0. i \in Ids /\ file \in [Ids -> {"absent", "partial", "whole"}]
  BY DEF UploadInv, UploadTypes
<1>1. ASSUME NEW u \in Uploads, Quiet(u) PROVE UNCHANGED <<file, aged>>
  BY <1>1, QuietIsEarly
<1>2. ASSUME NEW u \in Uploads, NEW j \in Ids, Create(u, j)
      PROVE  i # j /\ file'[i] = file[i] /\ aged' = aged
  BY <1>0, <1>2, CreateTakesANewPlace
<1>3. ASSUME NEW u \in Uploads, Write(u) \/ WriteFails(u) \/ Undo(u) \/ UndoFails(u)
      PROVE  i # place[u] /\ file'[i] = file[i] /\ aged' = aged
  BY <1>0, <1>3, LateStep
<1>4. ASSUME ListStep \/ BeginPass \/ \E j \in Ids : GraceEnds(j)
      PROVE  i \in aged' /\ file'[i] = "absent"
  BY <1>0, <1>4, ListingOrTime
<1>5. CASE LoseHandlers
  BY <1>5, CrashKeepsFiles
<1> QED
  BY <1>1, <1>2, <1>3, <1>4, <1>5, StepsOfTheStore DEF Handle, Quiet

\* Only the maintenance thread moves its listing; a crash ends it.
LEMMA ListingIsItsOwn ==
  ASSUME UploadInv, [Next]_vars
  PROVE  \/ ListStep \/ BeginPass
         \/ listing' = "idle" /\ horizon' = horizon
         \/ UNCHANGED listVars
<1>1. ASSUME NEW u \in Uploads, Handle(u) PROVE UNCHANGED listVars
  BY <1>1 DEF Handle, RejectDeclaredLength, RejectContentType, Accept, Receive, Overflow,
              RejectForm, Disconnect, EndOfBody, RejectContent, StartIngest, Collide,
              Create, Write, WriteFails, Undo, UndoFails
<1>2. CASE Crash
  BY <1>2 DEF Crash, LoseHandlers
<1>3. CASE \/ BootEnds \/ Leave \/ Join \/ Quit \/ UNCHANGED vars
           \/ \E i \in Ids : TimePasses(i)
           \/ \E t \in Threads : Enter(t) \/ EndCycle(t) \/ Stop(t)
  BY <1>3 DEF BootEnds, Leave, Join, Quit, vars, Enter, EndCycle, Stop, TimePasses,
              GraceEnds, uploadVars
<1>4. CASE Maintain \/ Boot \/ \E t \in Threads : BeginCycle(t)
  BY <1>4 DEF Maintain, Boot, BeginCycle
<1> QED
  BY <1>1, <1>2, <1>3, <1>4 DEF Next, Serve

\* The listing loses sight of no old file.
LEMMA PassStep ==
  ASSUME UploadInv, FileInv, PassInv, [Next]_vars
  PROVE  PassInv'
<1> USE DEF PassInv, PassesAreThorough
<1>1. /\ \A i \in aged : file[i] = "absent" => i \in aged' /\ file'[i] = "absent"
      /\ aged \subseteq Ids
  BY OldFilesStayGone DEF UploadInv, UploadTypes
<1>2. aged \subseteq aged'
  <2>1. ASSUME NEW u \in Uploads, Handle(u) PROVE aged' = aged
    BY <2>1 DEF Handle, RejectDeclaredLength, RejectContentType, Accept, Receive, Overflow,
                RejectForm, Disconnect, EndOfBody, RejectContent, StartIngest, Collide,
                Create, Write, WriteFails, Undo, UndoFails, fileVars
  <2>2. CASE LoseHandlers
    BY <2>2, CrashKeepsFiles
  <2> QED
    BY <2>1, <2>2, ListingOrTime, StepsOfTheStore
<1>3. CASE BeginPass
  <2>1. /\ horizon' = aged /\ aged' = aged /\ file' = file
        /\ listing' = "children" /\ pass' = "orphans"
        /\ children' = {i \in Ids : file[i] # "absent"}
    BY <1>3 DEF BeginPass, StartListing, fileVars
  <2> QED
    BY <1>1, <2>1
<1>4. ASSUME NEW i \in children, Probe(i) PROVE PassInv'
  <2>1. /\ UNCHANGED <<file, aged, listing, pass, horizon, entries>>
        /\ listing = "children" /\ probed = NoId /\ children' = children \ {i}
        /\ file[i] = "absent" \/ probed' = i
    BY <1>4 DEF Probe, fileVars
  <2>2. NoId \notin horizon
    BY <1>1, UploadAssumption
  <2>3. ASSUME pass = "orphans", NEW j \in horizon, file[j] # "absent"
        PROVE  j \in children' \cup entries' \cup {probed'}
    <3>1. j \in children \cup entries
      BY <2>1, <2>2, <2>3
    <3> QED
      BY <2>1, <2>3, <3>1
  <2> QED
    BY <2>1, <2>3
<1>5. CASE Stat
  BY <1>5 DEF Stat, fileVars
<1>6. CASE StatRaises \/ EndPass
  BY <1>6 DEF StatRaises, EndPass, fileVars
<1>7. CASE SelectCandidates
  <2>1. /\ \A i \in horizon : file[i] = "absent" \/ i \in entries \/ i = NoId
        /\ NoId \notin horizon
    BY <1>1, <1>7, UploadAssumption DEF SelectCandidates, IsListed
  <2> QED
    BY <1>7, <2>1 DEF SelectCandidates, fileVars
<1>8. ASSUME NEW i \in entries, Delete(i) PROVE PassInv'
  <2>1. /\ file'[i] = "absent" \/ i \notin Ids
        /\ entries' = entries \ {i} /\ listing' = "delete" /\ pass' = pass
        /\ horizon' = horizon /\ listing = "delete"
    BY <1>8 DEF Delete, UploadInv, UploadTypes
  <2> QED
    BY <1>1, <1>2, <2>1
<1>9. CASE ObserveUsage
  <2>1. /\ listing = "delete" /\ entries = {} /\ file' = file /\ aged' = aged
        /\ horizon' = horizon /\ listing' = "children" /\ pass' = "usage"
    BY <1>9 DEF ObserveUsage, StartListing, fileVars
  <2> QED
    BY <2>1
<1>10. CASE UNCHANGED listVars
  BY <1>1, <1>2, <1>10 DEF listVars
<1>11. CASE listing' = "idle" /\ horizon' = horizon
  BY <1>2, <1>11
<1> HIDE DEF PassInv, PassesAreThorough
<1>12. CASE ListStep
  BY <1>4, <1>5, <1>6, <1>7, <1>8, <1>9, <1>12 DEF ListStep
<1> QED
  BY <1>3, <1>10, <1>11, <1>12, ListingIsItsOwn

\* A pass that gets past its deletions leaves nothing that was old when it began,
\* whatever handlers, failures and lifespans came in between: the safety half of
\* LeftoversAreReclaimed.
THEOREM NothingOldIsLeft == Spec => []PassesAreThorough
<1>1. Init => FileInv /\ PassInv
  BY DEF Init, UploadInit, FileInv, PassInv, PassesAreThorough
<1>2. UploadInv /\ FileInv /\ [Next]_vars => FileInv'
  BY FilesStay
<1>3. UploadInv /\ FileInv /\ PassInv /\ [Next]_vars => PassInv'
  BY PassStep
<1>4. PassInv => PassesAreThorough
  BY DEF PassInv
<1> QED
  BY <1>1, <1>2, <1>3, <1>4, UploadsAreSafe, PTL DEF Spec

\* Every leftover has a cause, and none outlasts a pass that began after its
\* grace window.
THEOREM LeftoversDoNotLast == Spec => []LeftoversAreTemporary
BY LeftoversAreExcused, NothingOldIsLeft, PTL DEF LeftoversAreTemporary

-----------------------------------------------------------------------------
(* The maintenance thread *)

\* A thread that is alive is the one `stop` would join, in a lifespan.
RunnerInv ==
  \A t \in Threads : IsAlive(t) => t = runner /\ app \in {"serving", "leaving"}

LifespanInv == LifespanTypes /\ RunnerInv

\* A step of the process keeps both.
LEMMA LifespanStep ==
  ASSUME LifespanInv, [Next]_vars
  PROVE  LifespanInv'
<1> USE ThreadAssumption DEF LifespanInv, LifespanTypes, RunnerInv, IsAlive, lifespanVars
<1>1. CASE UNCHANGED lifespanVars
  BY <1>1
<1>2. CASE StartProcess \/ ConstructionEnds
  BY <1>2 DEF StartProcess, ConstructionEnds
<1>3. ASSUME NEW t \in Threads, EnterLifespan(t) PROVE LifespanInv'
  <2>1. /\ app = "built" /\ app' = "serving" /\ stopEvent' = FALSE /\ runner' = t
        /\ thread' = [thread EXCEPT ![t] = "waiting"]
    BY <1>3 DEF EnterLifespan, Start
  <2> QED
    BY <2>1
<1>4. CASE LeaveLifespan \/ Exit \/ Die
  BY <1>4 DEF LeaveLifespan, Exit, Die
<1>5. CASE Joined
  BY <1>5 DEF Joined
<1>6. ASSUME NEW t \in Threads, IntervalElapses(t) \/ CycleEnds(t) \/ ThreadStops(t)
      PROVE  LifespanInv'
  BY <1>6 DEF IntervalElapses, CycleEnds, ThreadStops
<1>7. CASE UNCHANGED vars
  BY <1>1, <1>7 DEF vars
<1>8. Next => \/ UNCHANGED lifespanVars
              \/ StartProcess \/ ConstructionEnds \/ LeaveLifespan \/ Exit \/ Die \/ Joined
              \/ \E t \in Threads : \/ EnterLifespan(t) \/ IntervalElapses(t)
                                    \/ CycleEnds(t) \/ ThreadStops(t)
  BY DEF Next, Serve, Maintain, TimePasses, Boot, BootEnds, Enter, Leave, Join, BeginCycle,
         EndCycle, Stop, Quit, Crash
<1> QED
  BY <1>1, <1>2, <1>3, <1>4, <1>5, <1>6, <1>7, <1>8

\* No thread is alive before the process is started.
LEMMA LifespanStart == Init => LifespanInv
<1> SUFFICES ASSUME Init
             PROVE  LifespanInv
  OBVIOUS
<1>1. /\ app = "down" /\ stopEvent = FALSE /\ runner = NoThread
      /\ thread = [t \in Threads |-> "unborn"]
  BY DEF Init, LifespanInit
<1>2. \A t \in Threads : thread[t] = "unborn"
  BY <1>1
<1>3. stopEvent \in BOOLEAN
  BY <1>1
<1>4. LifespanTypes
  BY <1>1, <1>3 DEF LifespanTypes
<1>5. RunnerInv
  BY <1>2 DEF RunnerInv, IsAlive
<1> QED
  BY <1>4, <1>5 DEF LifespanInv

\* A thread never outlives its lifespan, nor has a lifespan two of them.
THEOREM OneThread == Spec => []OneMaintenanceThread
<1>1. Init => LifespanInv
  BY LifespanStart
<1>2. LifespanInv /\ [Next]_vars => LifespanInv'
  BY LifespanStep
<1>3. LifespanInv => OneMaintenanceThread
  BY DEF LifespanInv, RunnerInv, OneMaintenanceThread
<1> QED
  BY <1>1, <1>2, <1>3, PTL DEF Spec

\* The event is clear while the server serves, so that its thread goes on, and
\* set from the call of `stop` until the join returns.
StopInv ==
  /\ app = "serving" => ~stopEvent /\ runner \in Threads /\ IsAlive(runner)
  /\ app = "leaving" => stopEvent

\* Start, stop and the thread keep it; so does an end of the process.
LEMMA StopStep ==
  ASSUME LifespanInv, StopInv, [Next]_vars
  PROVE  /\ StopInv'
         /\ app = "leaving" =>
              \A t \in Threads :
                /\ thread'[t] = "cycle" => thread[t] = "cycle"
                /\ thread'[t] = "waiting" => thread[t] \in {"cycle", "waiting"}
<1> USE ThreadAssumption DEF LifespanInv, LifespanTypes, StopInv, IsAlive, lifespanVars
<1> DEFINE Good == /\ StopInv'
                   /\ app = "leaving" =>
                        \A t \in Threads :
                          /\ thread'[t] = "cycle" => thread[t] = "cycle"
                          /\ thread'[t] = "waiting" => thread[t] \in {"cycle", "waiting"}
<1>1. ASSUME UNCHANGED lifespanVars PROVE Good
  BY <1>1
<1>2. ASSUME StartProcess \/ ConstructionEnds PROVE Good
  BY <1>2 DEF StartProcess, ConstructionEnds
<1>3. ASSUME NEW t \in Threads, EnterLifespan(t) PROVE Good
  <2>1. /\ app = "built" /\ app' = "serving" /\ stopEvent' = FALSE /\ runner' = t
        /\ thread'[t] = "waiting"
    BY <1>3 DEF EnterLifespan, Start
  <2> QED
    BY <2>1
<1>4. ASSUME LeaveLifespan \/ Exit PROVE Good
  BY <1>4 DEF LeaveLifespan, Exit
<1>5. ASSUME Die PROVE Good
  <2>1. app' = "down" /\ \A t \in Threads : thread'[t] = "unborn"
    BY <1>5 DEF Die
  <2> QED
    BY <2>1
<1>6. ASSUME Joined PROVE Good
  BY <1>6 DEF Joined
<1>7. ASSUME NEW t \in Threads, IntervalElapses(t) PROVE Good
  <2>1. /\ thread[t] = "waiting" /\ ~stopEvent /\ thread'[t] = "cycle"
        /\ \A s \in Threads \ {t} : thread'[s] = thread[s]
        /\ UNCHANGED <<app, stopEvent, runner>>
    BY <1>7 DEF IntervalElapses
  <2> QED
    BY <2>1
<1>8. ASSUME NEW t \in Threads, CycleEnds(t) PROVE Good
  <2>1. /\ thread[t] = "cycle" /\ thread'[t] = "waiting"
        /\ \A s \in Threads \ {t} : thread'[s] = thread[s]
        /\ UNCHANGED <<app, stopEvent, runner>>
    BY <1>8 DEF CycleEnds
  <2> QED
    BY <2>1
<1>9. ASSUME NEW t \in Threads, ThreadStops(t) PROVE Good
  <2>1. /\ thread[t] = "waiting" /\ stopEvent /\ thread'[t] = "ended"
        /\ \A s \in Threads \ {t} : thread'[s] = thread[s]
        /\ UNCHANGED <<app, stopEvent, runner>>
    BY <1>9 DEF ThreadStops
  <2> QED
    BY <2>1
<1>10. UNCHANGED vars => UNCHANGED lifespanVars
  BY DEF vars
<1>11. Next => \/ UNCHANGED lifespanVars
               \/ StartProcess \/ ConstructionEnds \/ LeaveLifespan \/ Exit \/ Die \/ Joined
               \/ \E t \in Threads : \/ EnterLifespan(t) \/ IntervalElapses(t)
                                     \/ CycleEnds(t) \/ ThreadStops(t)
  BY DEF Next, Serve, Maintain, TimePasses, Boot, BootEnds, Enter, Leave, Join, BeginCycle,
         EndCycle, Stop, Quit, Crash
<1> HIDE DEF Good
<1>12. Good
  BY <1>1, <1>2, <1>3, <1>4, <1>5, <1>6, <1>7, <1>8, <1>9, <1>10, <1>11
<1> QED
  BY <1>12 DEF Good

\* From entering to leaving there is always a maintenance thread.
THEOREM ServedIsMaintained == Spec => []ServingIsMaintained
<1>1. Init => LifespanInv /\ StopInv
  BY LifespanStart DEF Init, LifespanInit, StopInv
<1>2. LifespanInv /\ [Next]_vars => LifespanInv'
  BY LifespanStep
<1>3. LifespanInv /\ StopInv /\ [Next]_vars => StopInv'
  BY StopStep
<1>4. StopInv => ServingIsMaintained
  BY DEF StopInv, ServingIsMaintained
<1> QED
  BY <1>1, <1>2, <1>3, <1>4, PTL DEF Spec

\* After the call of `stop` threads only wind down: the safety half of
\* ShutdownEnds.
THEOREM StopWindsDown == Spec => StopOnlyWindsDown
<1>1. Init => LifespanInv /\ StopInv
  BY LifespanStart DEF Init, LifespanInit, StopInv
<1>2. LifespanInv /\ [Next]_vars => LifespanInv'
  BY LifespanStep
<1>3. LifespanInv /\ StopInv /\ [Next]_vars
      => /\ StopInv'
         /\ app = "leaving" =>
              \A t \in Threads :
                /\ thread'[t] = "cycle" => thread[t] = "cycle"
                /\ thread'[t] = "waiting" => thread[t] \in {"cycle", "waiting"}
  BY StopStep
<1> QED
  BY <1>1, <1>2, <1>3, PTL DEF Spec, StopOnlyWindsDown

\* Each variable has its type.
THEOREM TypeCorrect == Spec => []TypeOK
<1>1. Init => LifespanInv /\ crashes \in Nat
  BY LifespanStart DEF Init
<1>2. LifespanInv /\ crashes \in Nat /\ [Next]_vars => (LifespanInv /\ crashes \in Nat)'
  <2> SUFFICES ASSUME LifespanInv, crashes \in Nat, [Next]_vars
               PROVE  LifespanInv' /\ crashes' \in Nat
    OBVIOUS
  <2>1. crashes' \in {crashes, crashes + 1}
    BY DEF Next, vars, Serve, Maintain, TimePasses, Boot, BootEnds, Enter, Leave, Join,
           BeginCycle, EndCycle, Stop, Quit, Crash
  <2> QED
    BY <2>1, LifespanStep
<1>3. UploadInv /\ LifespanInv /\ crashes \in Nat => TypeOK
  BY TypesInParts DEF UploadInv, LifespanInv
<1> QED
  BY <1>1, <1>2, <1>3, UploadsAreSafe, PTL DEF Spec

=============================================================================
