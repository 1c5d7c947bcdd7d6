--------------------------- MODULE SnapshotsProofs ---------------------------
(***************************************************************************)
(* Of the admission to a product (Maintenance), for any number of writers, *)
(* claimants and maintainers: the gates exclude each other.  Each side     *)
(* sets its mark before it reads the other's, so the argument follows a    *)
(* maintainer from the moment it holds the exclusive claim: nobody new is  *)
(* admitted after that, and whoever was admitted before is still on the    *)
(* list the maintainer has yet to read.                                    *)
(*                                                                         *)
(* Of the snapshots taken under it, for any takers and documents: every    *)
(* record leads to all it captured, and a coherent snapshot shows one      *)
(* instant.  The first rests on the order of the puts, a manifest after    *)
(* its blobs and a record after its manifest; the second on the first part *)
(* of this module: while a maintainer works, nobody who changes documents  *)
(* is at work.                                                             *)
(***************************************************************************)
EXTENDS Snapshots, TLAPS

-----------------------------------------------------------------------------
(* Admission.                                                              *)

\* A claimant admitted on nobody's behalf has a claim the maintainer will read.
ClaimantsSeen ==
    \A m \in Maintainers : mpc[m] = "claims" =>
        \A c \in Claimants : cpc[c] = "working" /\ serving[c] = NoOne => c \in todo[m]

\* Past the claims, only claimants that serve the maintainer work.
ClaimantsServe ==
    \A m \in Maintainers : mpc[m] \in {"runs", "admitted", "working"} =>
        \A c \in Claimants : cpc[c] = "working" => serving[c] = m

\* A writer that writes has a started run the maintainer will read.
WritersSeen ==
    \A m \in Maintainers : mpc[m] = "runs" =>
        \A w \in Writers : wpc[w] = "writing" => w \in todo[m]

NoWriters ==
    \A m \in Maintainers : UnderMaintenance(m) => \A w \in Writers : wpc[w] # "writing"

WriterRecorded ==
    \A w \in Writers : wpc[w] \in {"recorded", "writing"} => run[w] = "started"
ClaimantMarked ==
    \A c \in Claimants : cpc[c] \in {"claimed", "working"} => c \in claims
ServedIsWorking ==
    \A c \in Claimants : \A m \in Maintainers : Serves(c, m) => mpc[m] = "working"

\* A claimant that has not begun serves nobody.
IdleServesNone == \A c \in Claimants : cpc[c] = "new" => serving[c] = NoOne

IInv ==
    /\ TypeOK
    /\ MaintainerKeepsClaim
    /\ ClaimantsSeen
    /\ ClaimantsServe
    /\ WritersSeen
    /\ NoWriters
    /\ WriterRecorded
    /\ ClaimantMarked
    /\ ServedIsWorking
    /\ IdleServesNone

\* No process has begun, no claim is held: the invariant holds initially.
LEMMA InitInductive == Init => IInv
BY MaintenanceAssumption DEF Init, IInv, TypeOK, MaintainerKeepsClaim, ClaimantsSeen,
   ClaimantsServe, WritersSeen, NoWriters, WriterRecorded, ClaimantMarked,
   ServedIsWorking, IdleServesNone, UnderMaintenance, Serves, Runs, Terminal

\* Every variable keeps its type under every step of the gates.
LEMMA TypeStep == TypeOK /\ [Next]_vars => TypeOK'
<1> SUFFICES ASSUME TypeOK, [Next]_vars PROVE TypeOK'
  OBVIOUS
<1> USE MaintenanceAssumption
<1>1. ASSUME NEW w \in Writers, WriterStep(w) PROVE TypeOK'
  BY <1>1 DEF TypeOK, Runs, Terminal, WriterStep, RecordStarted, CheckExclusive,
     RecordRefused, TakeWriteClaim, ReleaseWriteClaim, RecordTerminal, WriterCrash,
     WGoto, SetRun
<1>2. ASSUME NEW c \in Claimants, ClaimantStep(c) PROVE TypeOK'
  BY <1>2 DEF TypeOK, Runs, Terminal, ClaimantStep, ListClaimsFirst,
     TakeMaintenanceClaim, CheckUnderClaim, FinishClaimant, ClaimantCrash, CGoto
<1>3. ASSUME NEW m \in Maintainers, MaintainerStep(m) PROVE TypeOK'
  <2> USE DEF TypeOK, Runs, Terminal, MGoto
  <2>1. CASE AcquireExclusive(m) \/ ListProductClaims(m) \/ ListRuns(m)
             \/ ReadFails(m) \/ Admit(m) \/ Refuse(m)
    BY <2>1 DEF AcquireExclusive, ListProductClaims, ListRuns, ReadFails, Admit,
       Refuse, ReleaseExclusive
  <2>2. CASE \E x \in todo[m] : ReadClaim(m, x) \/ ReadRun(m, x)
    BY <2>2 DEF ReadClaim, ReadRun
  <2>3. CASE StartMaintenance(m) \/ FinishMaintenance(m) \/ MaintainerCrash(m)
    BY <2>3 DEF StartMaintenance, FinishMaintenance, MaintainerCrash, SetRun,
       ReleaseExclusive
  <2> QED BY <1>3, <2>1, <2>2, <2>3 DEF MaintainerStep
<1>4. CASE OperatorStep
  BY <1>4 DEF TypeOK, Runs, Terminal, OperatorStep, ClearClaim, ClearExclusive,
     AbandonRun, SetRun
<1>5. CASE UNCHANGED vars
  BY <1>5 DEF TypeOK, vars
<1> QED BY <1>1, <1>2, <1>3, <1>4, <1>5 DEF Next

\* A step of a writer: it is admitted only while nobody holds the exclusive claim.
LEMMA WriterInductive ==
    ASSUME IInv, TypeOK', NEW w \in Writers, WriterStep(w) PROVE IInv'
<1> USE MaintenanceAssumption DEF IInv, TypeOK, MaintainerKeepsClaim, ClaimantsSeen,
        ClaimantsServe, WritersSeen, NoWriters, WriterRecorded, ClaimantMarked,
        ServedIsWorking, IdleServesNone, UnderMaintenance, Serves, Runs, Terminal, WGoto
<1>1. CASE RecordStarted(w)
  BY <1>1 DEF RecordStarted, SetRun
<1>2. CASE CheckExclusive(w)
  BY <1>2 DEF CheckExclusive
<1>3. CASE RecordRefused(w)
  BY <1>3 DEF RecordRefused, SetRun
<1>4. CASE TakeWriteClaim(w) \/ ReleaseWriteClaim(w)
  BY <1>4 DEF TakeWriteClaim, ReleaseWriteClaim
<1>5. CASE RecordTerminal(w)
  BY <1>5 DEF RecordTerminal, SetRun
<1>6. CASE WriterCrash(w)
  BY <1>6 DEF WriterCrash
<1> QED BY <1>1, <1>2, <1>3, <1>4, <1>5, <1>6 DEF WriterStep

\* A step of a claimant: it works only under the owner its claim was checked against.
LEMMA ClaimantInductive ==
    ASSUME IInv, TypeOK', NEW c \in Claimants, ClaimantStep(c) PROVE IInv'
<1> USE MaintenanceAssumption DEF IInv, TypeOK, MaintainerKeepsClaim, ClaimantsSeen,
        ClaimantsServe, WritersSeen, NoWriters, WriterRecorded, ClaimantMarked,
        ServedIsWorking, IdleServesNone, UnderMaintenance, Serves, CGoto
<1>1. CASE \E h \in Maintainers \cup {NoOne} : ListClaimsFirst(c, h)
  BY <1>1 DEF ListClaimsFirst
<1>2. CASE TakeMaintenanceClaim(c)
  BY <1>2 DEF TakeMaintenanceClaim, MayTakeClaim
<1>3. CASE CheckUnderClaim(c)
  BY <1>3 DEF CheckUnderClaim
<1>4. CASE FinishClaimant(c)
  BY <1>4 DEF FinishClaimant
<1>5. CASE ClaimantCrash(c)
  BY <1>5 DEF ClaimantCrash
<1> QED BY <1>1, <1>2, <1>3, <1>4, <1>5 DEF ClaimantStep

\* A step of a maintainer: it passes a listing only once nothing on it blocks.
LEMMA MaintainerInductive ==
    ASSUME IInv, TypeOK', NEW m \in Maintainers, MaintainerStep(m) PROVE IInv'
<1> USE MaintenanceAssumption DEF IInv, TypeOK, MaintainerKeepsClaim, ClaimantsSeen,
        ClaimantsServe, WritersSeen, NoWriters, WriterRecorded, ClaimantMarked,
        ServedIsWorking, IdleServesNone, UnderMaintenance, Serves, MGoto
<1>1. CASE AcquireExclusive(m)
  BY <1>1 DEF AcquireExclusive
<1>2. CASE ListProductClaims(m)
  BY <1>2 DEF ListProductClaims
<1>3. CASE \E x \in todo[m] : ReadClaim(m, x)
  BY <1>3 DEF ReadClaim
<1>4. CASE ListRuns(m)
  BY <1>4 DEF ListRuns, Runs
<1>5. CASE \E r \in todo[m] : ReadRun(m, r)
  BY <1>5 DEF ReadRun, Blocking, Terminal
<1>6. CASE ReadFails(m)
  BY <1>6 DEF ReadFails
<1>7. CASE Admit(m)
  BY <1>7 DEF Admit
<1>8. CASE Refuse(m)
  BY <1>8 DEF Refuse, ReleaseExclusive
<1>9. CASE StartMaintenance(m)
  BY <1>9 DEF StartMaintenance, SetRun, Runs
<1>10. CASE FinishMaintenance(m)
  BY <1>10 DEF FinishMaintenance, SetRun, Runs, ReleaseExclusive
<1>11. CASE MaintainerCrash(m)
  BY <1>11 DEF MaintainerCrash
<1> QED
  BY <1>1, <1>2, <1>3, <1>4, <1>5, <1>6, <1>7, <1>8, <1>9, <1>10, <1>11
  DEF MaintainerStep

\* An operator touches only what an ended process left.
LEMMA OperatorInductive ==
    ASSUME IInv, TypeOK', OperatorStep PROVE IInv'
<1> USE MaintenanceAssumption DEF IInv, TypeOK, MaintainerKeepsClaim, ClaimantsSeen,
        ClaimantsServe, WritersSeen, NoWriters, WriterRecorded, ClaimantMarked,
        ServedIsWorking, IdleServesNone, UnderMaintenance, Serves, Gone
<1>1. CASE \E x \in claims : ClearClaim(x)
  BY <1>1 DEF ClearClaim
<1>2. CASE ClearExclusive
  BY <1>2 DEF ClearExclusive
<1>3. CASE \E r \in Runs : AbandonRun(r)
  BY <1>3 DEF AbandonRun, SetRun, Runs
<1> QED BY <1>1, <1>2, <1>3 DEF OperatorStep

\* Doing nothing keeps the invariant.
LEMMA StutterInductive == ASSUME IInv, UNCHANGED vars PROVE IInv'
BY DEF IInv, TypeOK, MaintainerKeepsClaim, ClaimantsSeen,
       ClaimantsServe, WritersSeen, NoWriters, WriterRecorded, ClaimantMarked,
       ServedIsWorking, IdleServesNone, UnderMaintenance, Serves, vars

\* The strengthened invariant holds in every reachable state.
THEOREM Inductive == Spec => []IInv
<1>1. IInv /\ [Next]_vars => IInv'
  <2> SUFFICES ASSUME IInv, [Next]_vars PROVE IInv'
    OBVIOUS
  <2>1. TypeOK'
    BY TypeStep DEF IInv
  <2> QED
    BY <2>1, WriterInductive, ClaimantInductive, MaintainerInductive,
       OperatorInductive, StutterInductive DEF Next
<1> QED BY <1>1, InitInductive, PTL DEF Spec

\* The variables of the admission gates keep their types.
THEOREM TypeCorrect == Spec => []TypeOK
<1>1. IInv => TypeOK
  BY DEF IInv
<1> QED BY <1>1, Inductive, PTL

\* While a maintainer is admitted, no writer writes, no other maintainer is
\* admitted and no claimant works but its own, for any sets of processes.
THEOREM Exclusive == Spec => []MaintenanceIsExclusive
<1>1. IInv => MaintenanceIsExclusive
  BY MaintenanceAssumption DEF IInv, MaintenanceIsExclusive, MaintainerKeepsClaim,
     ClaimantsServe, NoWriters, UnderMaintenance, TypeOK
<1> QED BY <1>1, Inductive, PTL

\* A maintainer under way holds the exclusive claim until it ends.
THEOREM KeepsClaim == Spec => []MaintainerKeepsClaim
<1>1. IInv => MaintainerKeepsClaim
  BY DEF IInv
<1> QED BY <1>1, Inductive, PTL

-----------------------------------------------------------------------------
(* Snapshots.                                                              *)

\* What a capture may hold, and what may be put.
Captures == [Documents -> Contents \cup {Missing}]
Ids == {Missing} \cup (Takers \X Nat)
Content == {Blob(c) : c \in Contents} \cup {Manifest(seen) : seen \in Captures}
RecordType ==
    [kind : {"record"}, id : Ids, manifest : Captures, parent : Ids, coherent : BOOLEAN]

SnapType ==
    [pc : {"none", "capture", "manifest", "put", "publish"}, left : SUBSET Documents,
     seen : Captures, parent : Ids, todo : SUBSET Content, taken : Nat]

SnapshotTypes ==
    /\ docs \in Captures
    /\ snap \in [Takers -> SnapType]
    /\ objects \subseteq Content \cup RecordType
    /\ latest \in Ids
    /\ instant \in [Maintainers -> Captures]

\* "a manifest is written after all its blobs".
ManifestsAreWhole ==
    \A seen \in Captures : Manifest(seen) \in objects => BlobsOf(seen) \subseteq objects

\* What a taker has yet to put is all that is missing of its snapshot, and no more.
PutsAreComplete ==
    \A t \in Takers : At(t, "put") =>
        LET needed == BlobsOf(snap[t].seen) \cup {Manifest(snap[t].seen)}
        IN needed \subseteq objects \cup snap[t].todo /\ snap[t].todo \subseteq needed

IsRecorded(id) == id = Missing \/ \E r \in Records : r.id = id
LinksResolve ==
    /\ \A t \in Takers : /\ IsRecorded(snap[t].parent)
                         /\ At(t, "publish") => IsRecorded(RecordId(t, snap[t].taken))
    /\ IsRecorded(latest)

\* A maintainer with a snapshot under way is at work, or its process died.
TakersAtWork ==
    \A m \in Maintainers : ~At(m, "none") => mpc[m] \in {"working", "crashed"}

\* What a maintainer has read is as it was when it began, and the rest still is.
ReadingOneInstant ==
    \A m \in Maintainers : At(m, "capture") =>
        /\ mpc[m] = "working" => docs = instant[m]
        /\ \A d \in Documents \ snap[m].left : snap[m].seen[d] = instant[m][d]

SnapInv ==
    /\ IInv
    /\ SnapshotTypes
    /\ ManifestsAreWhole
    /\ PutsAreComplete
    /\ LinksResolve
    /\ RecordsResolve
    /\ TakersAtWork
    /\ ReadingOneInstant
    /\ CoherentIsOneInstant
-----------------------------------------------------------------------------
\* What a capture would put is made of blobs and one manifest.
LEMMA CaptureContent ==
  ASSUME NEW seen \in Captures
  PROVE  BlobsOf(seen) \subseteq Content /\ Manifest(seen) \in Content
BY DEF Captures, Content, BlobsOf

\* A taker that leaves is as it was before, without a parent.
LEMMA Leaves ==
  ASSUME snap \in [Takers -> SnapType], NEW t \in Takers, Leave(t)
  PROVE  snap'[t].pc = "none" /\ snap'[t].parent = Missing
<1>1. snap[t] \in SnapType
  OBVIOUS
<1>2. snap'[t] = [snap[t] EXCEPT !.pc = "none", !.left = {}, !.seen = NoCapture,
                                 !.parent = Missing, !.todo = {}]
  BY DEF Leave, SetS
<1> QED
  BY <1>1, <1>2 DEF SnapType

\* A step of one taker: the others' snapshots stay, and so do the documents.
LEMMA TakesOne ==
  ASSUME SnapshotTypes, NEW t \in Takers, Takes(t)
  PROVE  /\ snap' = [snap EXCEPT ![t] = snap'[t]]
         /\ \A u \in Takers \ {t} : snap'[u] = snap[u]
         /\ IsAtWork(t) /\ UNCHANGED <<docs, changes>>
         /\ objects \subseteq objects'
<1> USE DEF SnapshotTypes
<1>1. CASE BeginCapture(t) \/ ReadParent(t) \/ FindManifest(t) \/ PublishLatest(t) \/ SnapshotFails(t)
  BY <1>1 DEF BeginCapture, ReadParent, FindManifest, PublishLatest, SnapshotFails, SetS, Leave
<1>2. CASE (\E d \in Documents : ReadDocument(t, d)) \/ (\E o \in NextObjects(t) : PutObject(t, o))
             \/ PutRecord(t)
  BY <1>2 DEF ReadDocument, PutObject, PutRecord, SetS
<1> QED
  BY <1>1, <1>2 DEF Takes

\* A snapshot's fields, as a step of its taker leaves them.
LEMMA TypesStep ==
  ASSUME SnapshotTypes, [SnapshotNext]_<<vars, svars>>
  PROVE  SnapshotTypes'
<1> USE DEF SnapshotTypes
<1>1. ASSUME NEW t \in Takers, Takes(t) PROVE SnapshotTypes'
  <2>1. docs' \in Captures
    BY <1>1, TakesOne
  <2>2. snap[t] \in SnapType
    OBVIOUS
  <2>3. CASE BeginCapture(t)
    <3>1. snap'[t] \in SnapType
      <4>1. snap[t].taken + 1 \in Nat
        BY <2>2 DEF SnapType
      <4>2. [snap[t] EXCEPT !.pc = "capture", !.left = Documents, !.taken = @ + 1] \in SnapType
        BY <2>2, <4>1 DEF SnapType
      <4> QED
        BY <2>3, <4>2 DEF BeginCapture, SetS
    <3>2. instant' \in [Maintainers -> Captures]
      BY <2>3 DEF BeginCapture
    <3> QED
      BY <1>1, <2>1, <2>3, <3>1, <3>2, TakesOne DEF BeginCapture
  <2>4. ASSUME NEW d \in Documents, ReadDocument(t, d) PROVE SnapshotTypes'
    <3>1. docs[d] \in Contents \cup {Missing}
      BY DEF Captures
    <3>2. [snap[t].seen EXCEPT ![d] = docs[d]] \in Captures
      BY <2>2, <3>1 DEF Captures, SnapType
    <3>3. snap'[t] \in SnapType
      BY <2>2, <2>4, <3>2 DEF ReadDocument, SetS, SnapType
    <3> QED
      BY <1>1, <2>1, <2>4, <3>3, TakesOne DEF ReadDocument
  <2>5. CASE ReadParent(t) \/ PublishLatest(t) \/ SnapshotFails(t)
    <3>1. NoCapture \in Captures /\ Missing \in Ids
      BY DEF NoCapture, Captures, Ids
    <3>2. snap'[t] \in SnapType
      <4>1. CASE Leave(t)
        <5>1. [snap[t] EXCEPT !.pc = "none", !.left = {}, !.seen = NoCapture,
                              !.parent = Missing, !.todo = {}] \in SnapType
          BY <2>2, <3>1 DEF SnapType
        <5> QED
          BY <4>1, <5>1 DEF Leave, SetS
      <4>2. CASE SetS(t, [snap[t] EXCEPT !.pc = "manifest", !.parent = latest])
        <5>1. [snap[t] EXCEPT !.pc = "manifest", !.parent = latest] \in SnapType
          BY <2>2 DEF SnapType
        <5> QED
          BY <4>2, <5>1 DEF SetS
      <4> QED
        BY <2>5, <4>1, <4>2 DEF ReadParent, PublishLatest, SnapshotFails
    <3>3. latest' \in Ids
      BY <2>2, <2>5 DEF ReadParent, PublishLatest, SnapshotFails, RecordId, Ids, SnapType
    <3>4. UNCHANGED <<objects, instant>>
      BY <2>5 DEF ReadParent, PublishLatest, SnapshotFails
    <3> QED
      BY <1>1, <2>1, <3>2, <3>3, <3>4, TakesOne
  <2>6. CASE FindManifest(t)
    <3>1. snap'[t] \in SnapType
      BY <2>2, <2>6, CaptureContent DEF FindManifest, SetS, SnapType
    <3> QED
      BY <1>1, <2>1, <2>6, <3>1, TakesOne DEF FindManifest
  <2>7. ASSUME NEW o \in NextObjects(t), PutObject(t, o) PROVE SnapshotTypes'
    <3>1. o \in Content
      BY <2>2 DEF NextObjects, SnapType
    <3>2. snap'[t] \in SnapType
      BY <2>2, <2>7 DEF PutObject, SetS, SnapType
    <3> QED
      BY <1>1, <2>1, <2>7, <3>1, <3>2, TakesOne DEF PutObject
  <2>8. CASE PutRecord(t)
    <3>1. Record(t) \in RecordType
      BY <2>2 DEF Record, RecordType, RecordId, Ids, SnapType
    <3>2. snap'[t] \in SnapType
      BY <2>2, <2>8 DEF PutRecord, SetS, SnapType
    <3> QED
      BY <1>1, <2>1, <2>8, <3>1, <3>2, TakesOne DEF PutRecord
  <2> QED
    BY <1>1, <2>3, <2>4, <2>5, <2>6, <2>7, <2>8 DEF Takes
<1>2. ASSUME NEW d \in Documents, NEW c \in Contents \cup {Missing}, Change(d, c)
      PROVE  SnapshotTypes'
  BY <1>2 DEF Change, Captures
<1>3. CASE UNCHANGED svars
  BY <1>3 DEF svars
<1> QED
  BY <1>1, <1>2, <1>3 DEF SnapshotNext, Admission, vars, svars

\* The store under a taker's step: what refers to an object is put after it.
LEMMA StoreStep ==
  ASSUME SnapInv, SnapshotTypes', NEW t \in Takers, Takes(t)
  PROVE  ManifestsAreWhole' /\ PutsAreComplete' /\ LinksResolve' /\ RecordsResolve'
<1> USE DEF SnapInv
<1>t. /\ \A u \in Takers \ {t} : snap'[u] = snap[u]
      /\ objects \subseteq objects' /\ Records \subseteq Records'
  BY TakesOne DEF Records
<1>p. snap \in [Takers -> SnapType] /\ snap[t] \in SnapType /\ snap[t].seen \in Captures
  BY DEF SnapshotTypes, SnapType
\* The objects stay: only what the taker is about to do changes.
<1>1. ASSUME UNCHANGED <<objects, latest>>, snap'[t].pc # "publish",
             snap'[t].parent \in {snap[t].parent, latest, Missing},
             At(t, "put")' => FindManifest(t)
      PROVE  ManifestsAreWhole' /\ PutsAreComplete' /\ LinksResolve' /\ RecordsResolve'
  <2>1. Records' = Records
    BY <1>1 DEF Records
  <2>2. ManifestsAreWhole' /\ RecordsResolve'
    BY <1>1, <2>1 DEF ManifestsAreWhole, RecordsResolve
  <2>3. LinksResolve'
    BY <1>t, <1>1, <2>1 DEF LinksResolve, IsRecorded, At
  <2>4. ASSUME At(t, "put")'
        PROVE  LET needed == BlobsOf(snap'[t].seen) \cup {Manifest(snap'[t].seen)}
               IN needed \subseteq objects \cup snap'[t].todo /\ snap'[t].todo \subseteq needed
    <3>1. /\ snap'[t].seen = snap[t].seen
          /\ snap'[t].todo = IF Manifest(snap[t].seen) \in objects THEN {}
                             ELSE BlobsOf(snap[t].seen) \cup {Manifest(snap[t].seen)}
      BY <1>1, <1>p, <2>4 DEF FindManifest, SetS, SnapType
    <3>2. Manifest(snap[t].seen) \in objects => BlobsOf(snap[t].seen) \subseteq objects
      BY <1>p DEF ManifestsAreWhole
    <3> QED
      BY <3>1, <3>2
  <2>5. PutsAreComplete'
    BY <1>t, <1>1, <2>4 DEF PutsAreComplete, At
  <2> QED
    BY <2>2, <2>3, <2>5
<1>2. CASE BeginCapture(t) \/ (\E d \in Documents : ReadDocument(t, d)) \/ ReadParent(t)
             \/ FindManifest(t) \/ SnapshotFails(t)
  <2>1. UNCHANGED <<objects, latest>>
    BY <1>2 DEF BeginCapture, ReadDocument, ReadParent, FindManifest, SnapshotFails
  <2>2. CASE BeginCapture(t) \/ (\E d \in Documents : ReadDocument(t, d))
    <3>1. snap'[t].pc = "capture" /\ snap'[t].parent = snap[t].parent
      <4>1. CASE BeginCapture(t)
        BY <1>p, <4>1 DEF BeginCapture, SetS, SnapType
      <4>2. ASSUME NEW d \in Documents, ReadDocument(t, d)
            PROVE  snap'[t].pc = "capture" /\ snap'[t].parent = snap[t].parent
        BY <1>p, <4>2 DEF ReadDocument, At, SetS, SnapType
      <4> QED
        BY <2>2, <4>1, <4>2
    <3> QED
      BY <1>1, <2>1, <3>1 DEF At
  <2>3. CASE ReadParent(t) \/ SnapshotFails(t)
    <3>1. /\ snap'[t].pc \in {"manifest", "none"}
          /\ snap'[t].parent \in {latest, Missing}
      <4>1. CASE ReadParent(t) /\ HoldsClaim(t)
        <5>1. snap' = [snap EXCEPT ![t] = [snap[t] EXCEPT !.pc = "manifest", !.parent = latest]]
          BY <4>1 DEF ReadParent, SetS
        <5> QED
          BY <1>p, <5>1 DEF SnapType
      <4>2. CASE Leave(t)
        BY <1>p, <4>2, Leaves
      <4> QED
        BY <2>3, <4>1, <4>2 DEF ReadParent, SnapshotFails
    <3> QED
      BY <1>1, <2>1, <3>1 DEF At
  <2>4. CASE FindManifest(t)
    <3>1. snap'[t].pc = "put" /\ snap'[t].parent = snap[t].parent
      BY <1>p, <2>4 DEF FindManifest, SetS, SnapType
    <3> QED
      BY <1>1, <2>1, <2>4, <3>1
  <2> QED
    BY <1>2, <2>2, <2>3, <2>4
<1>3. ASSUME NEW o \in NextObjects(t), PutObject(t, o)
      PROVE  ManifestsAreWhole' /\ PutsAreComplete' /\ LinksResolve' /\ RecordsResolve'
  <2> DEFINE seen == snap[t].seen
             needed == BlobsOf(seen) \cup {Manifest(seen)}
  <2>1. /\ At(t, "put") /\ At(t, "put")' /\ objects' = objects \cup {o} /\ latest' = latest
        /\ snap'[t].todo = snap[t].todo \ {o} /\ snap'[t].seen = seen
        /\ snap'[t].parent = snap[t].parent
    BY <1>p, <1>3 DEF PutObject, At, SetS, SnapType
  <2>2. needed \subseteq objects \cup snap[t].todo /\ snap[t].todo \subseteq needed
    BY <2>1 DEF PutsAreComplete
  <2>3. o \in snap[t].todo
    BY DEF NextObjects
  <2>4. o.kind # "blob" => o = Manifest(seen) /\ BlobsOf(seen) \subseteq objects
    BY <2>2, <2>3 DEF NextObjects, BlobsOf, Blob
  <2>5. ManifestsAreWhole'
    <3> SUFFICES ASSUME NEW other \in Captures, Manifest(other) \in objects'
                 PROVE  BlobsOf(other) \subseteq objects'
      BY DEF ManifestsAreWhole
    <3>1. CASE Manifest(other) \in objects
      BY <2>1, <3>1 DEF ManifestsAreWhole
    <3>2. CASE Manifest(other) = o
      <4>1. o = Manifest(seen) /\ BlobsOf(seen) \subseteq objects
        BY <2>4, <3>2 DEF Manifest
      <4>2. other = seen
        BY <3>2, <4>1 DEF Manifest
      <4> QED
        BY <2>1, <4>1, <4>2
    <3> QED
      BY <2>1, <3>1, <3>2
  <2>6. PutsAreComplete'
    BY <1>t, <2>1, <2>2 DEF PutsAreComplete, At
  <2>7. o \notin Records'
    BY <2>2, <2>3 DEF Records, BlobsOf, Blob, Manifest
  <2>8. Records' = Records
    BY <2>1, <2>7 DEF Records
  <2>9. LinksResolve' /\ RecordsResolve'
    BY <1>t, <2>1, <2>8 DEF LinksResolve, RecordsResolve, IsRecorded, At
  <2> QED
    BY <2>5, <2>6, <2>9
<1>4. CASE PutRecord(t)
  <2>1. /\ At(t, "put") /\ snap[t].todo = {} /\ At(t, "publish")' /\ latest' = latest
        /\ objects' = objects \cup {Record(t)}
        /\ snap'[t].taken = snap[t].taken /\ snap'[t].parent = snap[t].parent
    BY <1>p, <1>4 DEF PutRecord, At, SetS, SnapType
  <2>2. BlobsOf(snap[t].seen) \cup {Manifest(snap[t].seen)} \subseteq objects
    BY <2>1 DEF PutsAreComplete
  <2>3. Records' = Records \cup {Record(t)}
    BY <2>1 DEF Records, Record
  <2>4. /\ Record(t).id = RecordId(t, snap[t].taken)
        /\ Record(t).manifest = snap[t].seen /\ Record(t).parent = snap[t].parent
    BY DEF Record
  <2>5. ManifestsAreWhole'
    BY <2>1 DEF ManifestsAreWhole, Manifest, Record
  <2>6. PutsAreComplete'
    BY <1>t, <2>1 DEF PutsAreComplete, At
  <2>7. LinksResolve'
    BY <1>t, <2>1, <2>3, <2>4 DEF LinksResolve, IsRecorded, At
  <2>8. RecordsResolve'
    <3>1. ASSUME NEW r \in Records'
          PROVE  /\ Manifest(r.manifest) \in objects' /\ BlobsOf(r.manifest) \subseteq objects'
                 /\ r.parent = Missing \/ \E q \in Records' : q.id = r.parent
      <4>1. CASE r \in Records
        BY <1>t, <4>1 DEF RecordsResolve
      <4>2. CASE r = Record(t)
        BY <1>t, <2>2, <2>4, <4>2 DEF LinksResolve, IsRecorded
      <4> QED
        BY <2>3, <4>1, <4>2
    <3> QED
      BY <1>t, <2>1, <3>1 DEF RecordsResolve
  <2> QED
    BY <2>5, <2>6, <2>7, <2>8
<1>5. CASE PublishLatest(t)
  <2>1. /\ At(t, "publish") /\ latest' = RecordId(t, snap[t].taken) /\ objects' = objects
        /\ snap'[t].pc = "none" /\ snap'[t].parent = Missing
    BY <1>p, <1>5 DEF PublishLatest, At, SetS, Leave, SnapType
  <2>2. Records' = Records
    BY <2>1 DEF Records
  <2>3. IsRecorded(latest')
    BY <2>1 DEF LinksResolve
  <2>4. ManifestsAreWhole' /\ RecordsResolve'
    BY <2>1, <2>2, <2>3 DEF ManifestsAreWhole, RecordsResolve, IsRecorded
  <2>5. LinksResolve' /\ PutsAreComplete'
    BY <1>t, <2>1, <2>2, <2>3 DEF LinksResolve, PutsAreComplete, IsRecorded, At
  <2> QED
    BY <2>4, <2>5
<1> QED
  BY <1>2, <1>3, <1>4, <1>5 DEF Takes

\* Captures that agree on every document are the same.
LEMMA SameCapture ==
  ASSUME NEW a \in Captures, NEW b \in Captures, \A d \in Documents : a[d] = b[d]
  PROVE  a = b
BY DEF Captures

\* A maintainer at work holds the exclusive claim, and nobody changes documents then
\* but itself, between its snapshots.
LEMMA NobodyElseChanges ==
  ASSUME IInv, NEW m \in Maintainers, mpc[m] = "working", ~At(m, "none"),
         NEW d \in Documents, NEW c \in Contents \cup {Missing}
  PROVE  ~Change(d, c)
<1>1. \A w \in Writers : wpc[w] # "writing"
  BY DEF IInv, NoWriters, UnderMaintenance
<1>2. \A n \in Maintainers \ {m} : mpc[n] # "working"
  BY MaintenanceAssumption DEF IInv, MaintainerKeepsClaim
<1> QED
  BY <1>1, <1>2 DEF Change

\* A maintainer that works goes on, ends or dies, and a dead one stays dead.
LEMMA WorkGoesOn ==
  ASSUME IInv, [Next]_vars, NEW m \in Maintainers, mpc[m] \in {"working", "crashed"}
  PROVE  /\ mpc[m] = "working" => mpc'[m] \in {"working", "ended", "crashed"}
         /\ mpc[m] = "crashed" => mpc'[m] = "crashed"
<1>1. CASE (\E w \in Writers : WriterStep(w)) \/ OperatorStep \/ UNCHANGED vars
  BY <1>1 DEF WriterStep, RecordStarted, CheckExclusive, RecordRefused, TakeWriteClaim,
     ReleaseWriteClaim, RecordTerminal, WriterCrash, OperatorStep, ClearClaim, ClearExclusive,
     AbandonRun, vars
<1>2. CASE \E c \in Claimants : ClaimantStep(c)
  BY <1>2 DEF ClaimantStep, ListClaimsFirst, TakeMaintenanceClaim, CheckUnderClaim,
     FinishClaimant, ClaimantCrash
<1>3. ASSUME NEW n \in Maintainers, MaintainerStep(n)
      PROVE  /\ mpc[m] = "working" => mpc'[m] \in {"working", "ended", "crashed"}
             /\ mpc[m] = "crashed" => mpc'[m] = "crashed"
  <2> USE DEF IInv, TypeOK, MGoto
  <2>1. CASE AcquireExclusive(n) \/ ListProductClaims(n) \/ ListRuns(n) \/ ReadFails(n)
               \/ Admit(n) \/ Refuse(n)
    BY <2>1 DEF AcquireExclusive, ListProductClaims, ListRuns, ReadFails, Admit, Refuse
  <2>2. CASE \E x \in todo[n] : ReadClaim(n, x) \/ ReadRun(n, x)
    BY <2>2 DEF ReadClaim, ReadRun
  <2>3. CASE StartMaintenance(n) \/ FinishMaintenance(n) \/ MaintainerCrash(n)
    BY <2>3 DEF StartMaintenance, FinishMaintenance, MaintainerCrash
  <2> QED
    BY <1>3, <2>1, <2>2, <2>3 DEF MaintainerStep
<1> QED
  BY <1>1, <1>2, <1>3 DEF Next

\* Of a taker's step, what its capture and the instant it shows depend on.
LEMMA CaptureStep ==
  ASSUME SnapInv, SnapshotTypes', NEW t \in Maintainers, Takes(t), UNCHANGED vars
  PROVE  /\ At(t, "capture")' =>
              /\ mpc'[t] = "working" => docs' = instant'[t]
              /\ \A d \in Documents \ snap'[t].left : snap'[t].seen[d] = instant'[t][d]
         /\ snap'[t].pc \in {"manifest", "put", "publish"} => snap'[t].seen = instant'[t]
         /\ mpc[t] = "working"
         /\ \A m \in Maintainers \ {t} : instant'[m] = instant[m]
<1> USE DEF SnapInv
<1>p. /\ snap \in [Takers -> SnapType] /\ snap[t] \in SnapType /\ snap[t].seen \in Captures
      /\ t \in Takers /\ instant \in [Maintainers -> Captures] /\ docs \in Captures
  BY DEF SnapshotTypes, SnapType, Takers
<1>w. mpc[t] = "working" /\ mpc' = mpc /\ docs' = docs
  BY <1>p, TakesOne DEF IsAtWork, vars
<1>1. CASE BeginCapture(t)
  <2>1. /\ snap'[t].pc = "capture" /\ snap'[t].left = Documents
        /\ instant'[t] = docs /\ \A m \in Maintainers \ {t} : instant'[m] = instant[m]
    BY <1>p, <1>1 DEF BeginCapture, SetS, SnapType
  <2> QED
    BY <1>w, <2>1 DEF At
<1>2. ASSUME NEW d \in Documents, ReadDocument(t, d)
      PROVE  /\ UNCHANGED instant /\ snap'[t].pc = "capture" /\ docs' = instant'[t]
             /\ \A e \in Documents \ snap'[t].left : snap'[t].seen[e] = instant'[t][e]
  <2>1. /\ snap'[t].pc = "capture" /\ UNCHANGED instant
        /\ snap'[t].left = snap[t].left \ {d}
        /\ snap'[t].seen = [snap[t].seen EXCEPT ![d] = docs[d]]
    BY <1>p, <1>2 DEF ReadDocument, At, SetS, SnapType
  <2>2. At(t, "capture")
    BY <1>2 DEF ReadDocument
  <2>3. \A e \in Documents : snap'[t].seen[e] = IF e = d THEN docs[d] ELSE snap[t].seen[e]
    BY <1>p, <2>1 DEF Captures
  <2>4. docs = instant[t]
    BY <1>w, <2>2 DEF ReadingOneInstant
  <2> QED
    BY <1>w, <2>1, <2>2, <2>3, <2>4 DEF ReadingOneInstant
<1>3. CASE ReadParent(t)
  <2>1. UNCHANGED instant /\ At(t, "capture") /\ snap[t].left = {}
    BY <1>3 DEF ReadParent
  <2>2. snap[t].seen = instant[t]
    BY <1>p, <2>1, SameCapture DEF ReadingOneInstant
  <2>3. snap'[t].pc = "none" \/ (snap'[t].pc = "manifest" /\ snap'[t].seen = snap[t].seen)
    <3>1. CASE HoldsClaim(t)
      <4>1. snap' = [snap EXCEPT ![t] = [snap[t] EXCEPT !.pc = "manifest", !.parent = latest]]
        BY <1>3, <3>1 DEF ReadParent, SetS
      <4> QED
        BY <1>p, <4>1 DEF SnapType
    <3>2. CASE ~HoldsClaim(t)
      BY <1>p, <1>3, <3>2, Leaves DEF ReadParent
    <3> QED
      BY <3>1, <3>2
  <2> QED
    BY <1>w, <2>1, <2>2, <2>3 DEF At
<1>4. CASE FindManifest(t) \/ (\E o \in NextObjects(t) : PutObject(t, o)) \/ PutRecord(t)
  <2>1. /\ UNCHANGED instant /\ snap[t].pc \in {"manifest", "put"}
        /\ snap'[t].pc \in {"put", "publish"} /\ snap'[t].seen = snap[t].seen
    <3>1. CASE FindManifest(t)
      BY <1>p, <3>1 DEF FindManifest, At, SetS, SnapType
    <3>2. ASSUME NEW o \in NextObjects(t), PutObject(t, o)
          PROVE  /\ UNCHANGED instant /\ snap[t].pc = "put"
                 /\ snap'[t].pc = "put" /\ snap'[t].seen = snap[t].seen
      <4>1. snap' = [snap EXCEPT ![t] = [snap[t] EXCEPT !.todo = @ \ {o}]]
        BY <3>2 DEF PutObject, SetS
      <4>2. UNCHANGED instant /\ snap[t].pc = "put"
        BY <3>2 DEF PutObject, At
      <4> QED
        BY <1>p, <4>1, <4>2 DEF SnapType
    <3>3. CASE PutRecord(t)
      BY <1>p, <3>3 DEF PutRecord, At, SetS, SnapType
    <3> QED
      BY <1>4, <3>1, <3>2, <3>3
  <2> QED
    BY <1>w, <2>1 DEF CoherentIsOneInstant, At
<1>5. CASE PublishLatest(t) \/ SnapshotFails(t)
  <2>1. UNCHANGED instant /\ snap'[t].pc = "none"
    BY <1>p, <1>5, Leaves DEF PublishLatest, SnapshotFails
  <2> QED
    BY <1>w, <2>1 DEF At
<1> QED
  BY <1>1, <1>2, <1>3, <1>4, <1>5, <1>w DEF Takes, At

\* A maintainer's snapshot shows one instant: documents stand still while it reads.
LEMMA InstantStep ==
  ASSUME SnapInv, SnapshotTypes', [SnapshotNext]_<<vars, svars>>
  PROVE  TakersAtWork' /\ ReadingOneInstant' /\ CoherentIsOneInstant'
<1> USE DEF SnapInv
<1>1. ASSUME NEW t \in Takers, Takes(t), UNCHANGED vars
      PROVE  TakersAtWork' /\ ReadingOneInstant' /\ CoherentIsOneInstant'
  <2>1. /\ \A m \in Takers \ {t} : snap'[m] = snap[m]
        /\ UNCHANGED <<docs, mpc>> /\ IsAtWork(t)
    BY <1>1, TakesOne DEF vars
  <2>2. Maintainers \subseteq Takers
    BY DEF Takers
  <2>3. CASE t \in Maintainers
    BY <1>1, <2>1, <2>2, <2>3, CaptureStep
    DEF TakersAtWork, ReadingOneInstant, CoherentIsOneInstant, At, IsAtWork
  <2>4. CASE t \notin Maintainers
    <3>1. \A m \in Maintainers : instant'[m] = instant[m]
      BY <1>1, <2>4 DEF Takes, BeginCapture, ReadDocument, ReadParent, FindManifest, PutObject,
         PutRecord, PublishLatest, SnapshotFails, SnapshotTypes
    <3> QED
      BY <2>1, <2>2, <2>4, <3>1 DEF TakersAtWork, ReadingOneInstant, CoherentIsOneInstant, At
  <2> QED
    BY <2>3, <2>4
<1>2. ASSUME NEW d \in Documents, NEW c \in Contents \cup {Missing}, Change(d, c), UNCHANGED vars
      PROVE  TakersAtWork' /\ ReadingOneInstant' /\ CoherentIsOneInstant'
  <2>1. UNCHANGED <<snap, instant, mpc>>
    BY <1>2 DEF Change, vars
  <2>2. \A m \in Maintainers : ~At(m, "none") => mpc[m] # "working"
    BY <1>2, NobodyElseChanges
  <2> QED
    BY <2>1, <2>2 DEF TakersAtWork, ReadingOneInstant, CoherentIsOneInstant, At
<1>3. CASE Admission \/ UNCHANGED <<vars, svars>>
  <2>1. UNCHANGED <<snap, instant, docs>> /\ [Next]_vars
    BY <1>3 DEF Admission, svars
  <2>2. ASSUME NEW m \in Maintainers, ~At(m, "none")
        PROVE  mpc'[m] \in {"working", "crashed"} /\ (mpc'[m] = "working" => mpc[m] = "working")
    BY <1>3, <2>1, <2>2, WorkGoesOn DEF TakersAtWork, Admission, vars
  <2> QED
    BY <2>1, <2>2 DEF TakersAtWork, ReadingOneInstant, CoherentIsOneInstant, At
<1> QED
  BY <1>1, <1>2, <1>3 DEF SnapshotNext, Admission

LEMMA SnapshotStarts == Init /\ SnapshotInit => SnapInv
<1> SUFFICES ASSUME Init, SnapshotInit PROVE SnapInv
  OBVIOUS
<1>1. IInv
  BY InitInductive
<1>2. SnapshotTypes
  <2>1. NoCapture \in Captures
    BY DEF NoCapture, Captures
  <2> QED
    BY <2>1 DEF SnapshotInit, SnapshotTypes, SnapType, Captures, Ids
<1>3. \A t \in Takers : snap[t].pc = "none" /\ snap[t].parent = Missing
  BY DEF SnapshotInit
<1>4. objects = {} /\ latest = Missing /\ Records = {}
  BY DEF SnapshotInit, Records
<1> QED
  BY <1>1, <1>2, <1>3, <1>4 DEF SnapInv, ManifestsAreWhole, PutsAreComplete, LinksResolve,
     IsRecorded, RecordsResolve, TakersAtWork, ReadingOneInstant, CoherentIsOneInstant, At, Takers

\* The invariant of snapshots under the admission, for any takers and documents.
LEMMA SnapInductive == SnapshotSpec => []SnapInv
<1>1. SnapInv /\ [SnapshotNext]_<<vars, svars>> => SnapInv'
  <2> SUFFICES ASSUME SnapInv, [SnapshotNext]_<<vars, svars>> PROVE SnapInv'
    OBVIOUS
  <2>1. SnapshotTypes'
    BY TypesStep DEF SnapInv
  <2>2. IInv'
    <3>1. [Next]_vars
      BY DEF SnapshotNext, Admission
    <3>2. TypeOK'
      BY <3>1, TypeStep DEF SnapInv, IInv
    <3> QED
      BY <3>1, <3>2, WriterInductive, ClaimantInductive, MaintainerInductive,
         OperatorInductive, StutterInductive DEF SnapInv, Next
  <2>3. TakersAtWork' /\ ReadingOneInstant' /\ CoherentIsOneInstant'
    BY <2>1, InstantStep
  <2>4. ManifestsAreWhole' /\ PutsAreComplete' /\ LinksResolve' /\ RecordsResolve'
    <3>1. ASSUME NEW t \in Takers, Takes(t)
          PROVE  ManifestsAreWhole' /\ PutsAreComplete' /\ LinksResolve' /\ RecordsResolve'
      BY <2>1, <3>1, StoreStep
    <3>2. CASE UNCHANGED <<snap, objects, latest>>
      <4>1. Records' = Records
        BY <3>2 DEF Records
      <4> QED
        BY <3>2, <4>1 DEF SnapInv, ManifestsAreWhole, PutsAreComplete, LinksResolve,
           IsRecorded, RecordsResolve, At
    <3> QED
      BY <3>1, <3>2 DEF SnapshotNext, Admission, Change, svars
  <2> QED
    BY <2>1, <2>2, <2>3, <2>4 DEF SnapInv
<1> QED
  BY <1>1, SnapshotStarts, PTL DEF SnapshotSpec
-----------------------------------------------------------------------------
\* Every record leads to its manifest, its blobs and its parent, and refs/latest.json to a
\* record, whatever crashed and however snapshots overlapped; and a coherent snapshot shows
\* the documents as they were together at one instant.
THEOREM SnapshotsAreKept == SnapshotSpec => []SnapshotsHold
<1>1. SnapInv => SnapshotsHold
  BY DEF SnapInv, SnapshotsHold
<1> QED
  BY <1>1, SnapInductive, PTL
=============================================================================
