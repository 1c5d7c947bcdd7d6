------------------------------ MODULE Snapshots ------------------------------
(***************************************************************************)
(* Metadata snapshots of a product (metadata_snapshots.py,                 *)
(* metadata_documents.py, ChunkManager.take_snapshot): the documents are   *)
(* read one by one, then blobs, a manifest, a record and a ref are put     *)
(* under names that hash their bytes.  A coherent snapshot is taken by the *)
(* run that holds the exclusive claim (Maintenance), an observation by     *)
(* anybody at any time.                                                    *)
(***************************************************************************)
EXTENDS Maintenance

CONSTANTS
    Observers,   \* takers of observations
    Documents,   \* metadata documents of the product
    Contents,    \* what a document may hold; an absent one is skipped
    Missing,     \* a document that is not there
    MaxTaken,    \* snapshots of a taker (bound)
    MaxChanges   \* changes of documents (bound)

VARIABLES
    docs,      \* the documents
    snap,      \* each taker's snapshot under way
    objects,   \* what .firecube/metadata/ holds: blobs, manifests, records
    latest,    \* refs/latest.json: the id of a record, or Missing
    instant,   \* history: the documents when a maintainer's capture began
    changes    \* changes made

svars == <<docs, snap, objects, latest, instant, changes>>

Takers == Observers \cup Maintainers

\* What identifies an object is what it holds: a blob its bytes, a manifest the documents, a
\* record the event, its parent's id among it.
Blob(c) == [kind |-> "blob", of |-> c]
Manifest(seen) == [kind |-> "manifest", of |-> seen]
RecordId(t, n) == <<t, n>>
Record(t) ==
    [kind |-> "record", id |-> RecordId(t, snap[t].taken), manifest |-> snap[t].seen,
     parent |-> snap[t].parent, coherent |-> t \in Maintainers]

NoCapture == [d \in Documents |-> Missing]
BlobsOf(seen) == {Blob(seen[d]) : d \in {d \in Documents : seen[d] # Missing}}

SnapshotInit ==
    /\ \E c \in Contents : docs = [d \in Documents |-> c]
    /\ changes = 0 /\ objects = {} /\ latest = Missing
    /\ snap = [t \in Takers |-> [pc |-> "none", left |-> {}, seen |-> NoCapture,
                                 parent |-> Missing, todo |-> {}, taken |-> 0]]
    /\ instant = [m \in Maintainers |-> NoCapture]

At(t, l) == snap[t].pc = l
SetS(t, s) == snap' = [snap EXCEPT ![t] = s]
Leave(t) == SetS(t, [snap[t] EXCEPT !.pc = "none", !.left = {}, !.seen = NoCapture,
                                    !.parent = Missing, !.todo = {}])

\* exclusive_maintenance_holder_refusal.
HoldsClaim(t) == t \in Maintainers => excl = t

\* The process of a taker runs; a maintainer takes snapshots while it is at work.
IsAtWork(t) == t \in Maintainers => mpc[t] = "working"

\* take_snapshot: a coherent one needs the claim.
BeginCapture(t) ==
    /\ At(t, "none") /\ IsAtWork(t) /\ snap[t].taken < MaxTaken /\ HoldsClaim(t)
    /\ SetS(t, [snap[t] EXCEPT !.pc = "capture", !.left = Documents, !.taken = @ + 1])
    /\ instant' = [m \in Maintainers |-> IF m = t THEN docs ELSE instant[m]]
    /\ UNCHANGED <<docs, objects, latest, changes>>

\* enumerate_metadata_documents reads them one after the other.
ReadDocument(t, d) ==
    /\ At(t, "capture") /\ IsAtWork(t) /\ d \in snap[t].left
    /\ SetS(t, [snap[t] EXCEPT !.left = @ \ {d}, !.seen[d] = docs[d]])
    /\ UNCHANGED <<docs, objects, latest, instant, changes>>

\* The claim is read again, then refs/latest.json for the parent.
ReadParent(t) ==
    /\ At(t, "capture") /\ IsAtWork(t) /\ snap[t].left = {}
    /\ IF HoldsClaim(t)
       THEN SetS(t, [snap[t] EXCEPT !.pc = "manifest", !.parent = latest])
       ELSE Leave(t)
    /\ UNCHANGED <<docs, objects, latest, instant, changes>>

\* What is to be put: nothing when the manifest exists, "a manifest is written after all its
\* blobs".
FindManifest(t) ==
    LET m == Manifest(snap[t].seen)
    IN /\ At(t, "manifest") /\ IsAtWork(t)
       /\ SetS(t, [snap[t] EXCEPT !.pc = "put",
                                  !.todo = IF m \in objects THEN {}
                                           ELSE BlobsOf(snap[t].seen) \cup {m}])
       /\ UNCHANGED <<docs, objects, latest, instant, changes>>

\* Mutant: the manifest is put in any order with its blobs.
NextInAnyOrder(t) == snap[t].todo

\* The objects that may be put next.
NextObjects(t) ==
    LET blobs == {o \in snap[t].todo : o.kind = "blob"}
    IN IF blobs # {} THEN blobs ELSE snap[t].todo

\* create: an object that exists holds the same bytes already.
PutObject(t, o) ==
    /\ At(t, "put") /\ IsAtWork(t) /\ o \in NextObjects(t)
    /\ objects' = objects \cup {o}
    /\ SetS(t, [snap[t] EXCEPT !.todo = @ \ {o}])
    /\ UNCHANGED <<docs, latest, instant, changes>>

PutRecord(t) ==
    /\ At(t, "put") /\ IsAtWork(t) /\ snap[t].todo = {}
    /\ objects' = objects \cup {Record(t)}
    /\ SetS(t, [snap[t] EXCEPT !.pc = "publish"])
    /\ UNCHANGED <<docs, latest, instant, changes>>

PublishLatest(t) ==
    /\ At(t, "publish") /\ IsAtWork(t)
    /\ latest' = RecordId(t, snap[t].taken)
    /\ Leave(t)
    /\ UNCHANGED <<docs, objects, instant, changes>>

\* An operation fails, or an observer dies: what is put stays.
SnapshotFails(t) ==
    /\ ~At(t, "none") /\ IsAtWork(t) /\ Leave(t)
    /\ UNCHANGED <<docs, objects, latest, instant, changes>>

\* Documents change under the admission of Maintenance: by a writer, or by the maintainer
\* between its snapshots.
Change(d, c) ==
    /\ c # docs[d] /\ changes < MaxChanges /\ changes' = changes + 1
    /\ \/ \E w \in Writers : wpc[w] = "writing"
       \/ \E m \in Maintainers : mpc[m] = "working" /\ At(m, "none")
    /\ docs' = [docs EXCEPT ![d] = c]
    /\ UNCHANGED <<snap, objects, latest, instant>>

Takes(t) ==
    \/ BeginCapture(t) \/ \E d \in Documents : ReadDocument(t, d)
    \/ ReadParent(t) \/ FindManifest(t) \/ \E o \in NextObjects(t) : PutObject(t, o)
    \/ PutRecord(t) \/ PublishLatest(t) \/ SnapshotFails(t)

\* A maintainer ends its work with no snapshot under way, unless it crashes.
Admission ==
    /\ Next /\ UNCHANGED svars
    /\ \A m \in Maintainers : mpc[m] = "working" /\ mpc'[m] = "ended" => At(m, "none")

SnapshotNext ==
    \/ Admission
    \/ /\ UNCHANGED vars
       /\ (\E t \in Takers : Takes(t)) \/ \E d \in Documents, c \in Contents \cup {Missing} : Change(d, c)

SnapshotSpec == Init /\ SnapshotInit /\ [][SnapshotNext]_<<vars, svars>>

-----------------------------------------------------------------------------
(* What a snapshot promises.                                               *)

Records == {o \in objects : o.kind = "record"}

\* Whatever crashed, and however snapshots overlapped, each record leads to all it captured,
\* and so do its parent and refs/latest.json.
RecordsResolve ==
    /\ \A r \in Records :
        /\ Manifest(r.manifest) \in objects
        /\ BlobsOf(r.manifest) \subseteq objects
        /\ r.parent = Missing \/ \E q \in Records : q.id = r.parent
    /\ latest = Missing \/ \E r \in Records : r.id = latest

\* A coherent snapshot shows the documents of one instant.
CoherentIsOneInstant ==
    \A m \in Maintainers : snap[m].pc \in {"manifest", "put", "publish"} =>
        snap[m].seen = instant[m]

\* The promise of take_snapshot and of the content-addressed store.
SnapshotsHold == RecordsResolve /\ CoherentIsOneInstant
=============================================================================
