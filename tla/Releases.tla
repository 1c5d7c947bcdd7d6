------------------------------ MODULE Releases ------------------------------
(***************************************************************************)
(* Releases of a product, the zip backups that retain them and the restore *)
(* of a backup chain: release.py, release_retention.py, controlplane/      *)
(* releases.py and inventories.py, archive.py, core/archive/zip.           *)
(*                                                                         *)
(* The product is a map from keys to contents.  Release records and the    *)
(* current ref are keys of it like any other, so a backup holds the        *)
(* records made before it and a restore brings them back with the data.    *)
(* A backup is full, or holds what changed since the current release and   *)
(* names that release's backup by path and digest; digests are numbers.    *)
(* Claims are reduced to the one exclusive holder that module Maintenance  *)
(* shows there is; runs, snapshots' files and inventories' files are left  *)
(* out of the keys, as they are never rewritten.                           *)
(***************************************************************************)
EXTENDS Integers, Sequences, FiniteSets, SequencesExt

CONSTANTS
    Releasers,  \* processes that create releases
    Restorers,  \* processes that restore archives
    Versions,   \* release versions
    Paths,      \* archive paths
    DataKeys,   \* objects of the product other than the root document
    Contents,   \* what an object may hold
    Budget      \* how often each kind of step may happen

VARIABLES
    live,         \* the product
    zips,         \* the archive at each path
    holder,       \* holder of the exclusive maintenance claim
    rel,          \* the command of each releaser
    res,          \* the command of each restorer
    inventories,  \* inventories by number
    lastZip,      \* digest given last
    used,         \* steps taken of each kind
    unclean,      \* history: a restore stopped in a target that was not cleared since
    stray         \* history: kinds of keys written without admission during the command

rvars == <<live, zips, holder, rel, res, inventories, lastZip, used, unclean, stray>>

Keys == DataKeys \cup Versions \cup {"root", "current"}
Absent == <<>>
Data(c) == <<"data", c>>
Root(version, op) == <<"root", version, op>>
Current(v) == <<"current", v>>
Present(inv) == {k \in Keys : inv[k] # Absent}
NoZip == [id |-> 0, version |-> "none", mode |-> "none", prevRelease |-> "none",
          prevPath |-> "none", prevId |-> 0, entries |-> <<>>, deleted |-> {}]
Idle == [pc |-> "idle", version |-> "none", path |-> "none", full |-> FALSE, snap |-> Absent,
         keys |-> {}, prev |-> "none", inv |-> 0, retention |-> <<>>]
NoRestore == [pc |-> "idle", path |-> "none", chain |-> <<>>, next |-> 0]

ReleasesInit ==
    /\ live = [k \in Keys |-> IF k = "root" THEN Root("none", "ingest") ELSE Absent]
    /\ zips = [p \in Paths |-> NoZip] /\ holder = "none"
    /\ rel = [r \in Releasers |-> Idle] /\ res = [q \in Restorers |-> NoRestore]
    /\ inventories = <<>> /\ lastZip = 0
    /\ used = [what \in DOMAIN Budget |-> 0] /\ unclean = FALSE /\ stray = {}

Spend(what) == used[what] < Budget[what] /\ used' = [used EXCEPT ![what] = @ + 1]

-----------------------------------------------------------------------------
(* Records.                                                                *)

\* A record: its snapshot of the root document, and its retention.
Record(t) == <<"record", t.snap, t.retention>>
Retention(v) == live[v][3]
IsZip(v) == live[v] # Absent /\ Retention(v) # <<>>
Path(v) == Retention(v)[1]
Digest(v) == Retention(v)[2]
Previous(v) == Retention(v)[3]
InventoryOf(v) == inventories[Retention(v)[4]]
ChainLength(v) == Retention(v)[5]

\* current_release; a ref to a missing record is corruption.
CurrentVersion == IF live["current"] = Absent THEN "none" ELSE live["current"][2]
CurrentReadable == CurrentVersion # "none" => live[CurrentVersion] # Absent

\* verify_release: the documents are those of the release's snapshot.
Matches(v) == live[v][2] = live["root"]

\* _require_recorded_archive.
SameArchive(v, path) == path # "none" => IsZip(v) /\ Path(v) = path

-----------------------------------------------------------------------------
(* create_release_for_product.                                             *)

AtR(r, l) == rel[r].pc = l
ToR(r, t) == rel' = [rel EXCEPT ![r] = t]
GoR(r, l) == ToR(r, [rel[r] EXCEPT !.pc = l])
Hold(p) == holder' = p /\ stray' = {}
\* The finally clause: the claim is given back.
EndR(r) == ToR(r, Idle) /\ holder' = IF holder = r THEN "none" ELSE holder

\* The checks before the claim: what exists must match, and no file may be in the way.
CreateRelease(r, v, path, full) ==
    /\ AtR(r, "idle") /\ (full => path # "none") /\ Spend("releases")
    /\ IF live[v] # Absent
       THEN Matches(v) /\ SameArchive(v, path) /\ CurrentReadable /\ CurrentVersion # v
       ELSE path # "none" => zips[path] = NoZip
    /\ ToR(r, [Idle EXCEPT !.pc = "acquire", !.version = v, !.path = path, !.full = full])
    /\ UNCHANGED <<live, zips, holder, res, inventories, lastZip, unclean, stray>>

\* acquire_exclusive_maintenance: refused while another operation is admitted.
Acquire(r) ==
    /\ AtR(r, "acquire")
    /\ IF holder = "none" THEN GoR(r, "existing") /\ Hold(r)
       ELSE ToR(r, Idle) /\ UNCHANGED <<holder, stray>>
    /\ UNCHANGED <<live, zips, res, inventories, lastZip, used, unclean>>

\* _checkpoints: a record made since is checked again, and made current if it is not.
Existing(r) ==
    LET v == rel[r].version
    IN  /\ AtR(r, "existing")
        /\ \/ live[v] = Absent /\ GoR(r, "stamp") /\ UNCHANGED holder
           \/ /\ live[v] # Absent /\ Matches(v) /\ SameArchive(v, rel[r].path) /\ CurrentReadable
              /\ IF CurrentVersion = v THEN EndR(r) ELSE GoR(r, "publish") /\ UNCHANGED holder
           \/ /\ live[v] # Absent
              /\ ~(Matches(v) /\ SameArchive(v, rel[r].path) /\ CurrentReadable)
              /\ EndR(r)
        /\ UNCHANGED <<live, zips, res, inventories, lastZip, used, unclean, stray>>

\* _stamp_release: a stamp of an unfinished migration refuses, one of an unfinished
\* release of this version is taken over.
Stamp(r) ==
    LET root == live["root"]
        stamped == root # Absent /\ root[2] = rel[r].version
    IN  /\ AtR(r, "stamp")
        /\ IF root = Absent \/ (stamped /\ root[3] = "migrate")
           THEN EndR(r) /\ UNCHANGED live
           ELSE /\ live' = IF stamped /\ root[3] = "release" THEN live
                           ELSE [live EXCEPT !["root"] = Root(rel[r].version, "release")]
                /\ GoR(r, "snapshot") /\ UNCHANGED holder
        /\ UNCHANGED <<zips, res, inventories, lastZip, used, unclean, stray>>

\* take_snapshot; without an archive the record follows.
Snapshot(r) ==
    /\ AtR(r, "snapshot")
    /\ ToR(r, [rel[r] EXCEPT !.snap = live["root"],
                             !.pc = IF rel[r].path = "none" THEN "record" ELSE "inventory"])
    /\ UNCHANGED <<live, zips, holder, res, inventories, lastZip, used, unclean, stray>>

\* Mutant: only objects that are new since the previous release are selected.
SelectedNew(inv, prev) ==
    IF prev = "none" THEN Present(inv)
    ELSE {k \in Present(inv) : InventoryOf(prev)[k] = Absent \/ k = "root"}

\* The keys of a backup: all, or what differs from the previous release, and the
\* metadata documents.
Selected(inv, prev) ==
    IF prev = "none" THEN Present(inv)
    ELSE {k \in Present(inv) : InventoryOf(prev)[k] # inv[k] \/ k = "root"}

\* retain: the previous backup is that of the current release; the inventory is taken.
TakeInventory(r) ==
    /\ AtR(r, "inventory")
    /\ IF zips[rel[r].path] = NoZip /\ CurrentReadable /\ live["root"] # Absent
       THEN LET prev == IF rel[r].full \/ CurrentVersion = "none" THEN "none"
                        ELSE IF IsZip(CurrentVersion) THEN CurrentVersion ELSE "none"
            IN  /\ inventories' = Append(inventories, live)
                /\ ToR(r, [rel[r] EXCEPT !.prev = prev, !.keys = Selected(live, prev),
                                         !.inv = Len(inventories) + 1, !.pc = "zip"])
                /\ UNCHANGED holder
       ELSE EndR(r) /\ UNCHANGED inventories
    /\ UNCHANGED <<live, zips, res, lastZip, used, unclean, stray>>

\* create_archive, zarr_to_zip: under the holder's claim the objects are read as they
\* are now; the file is linked into place and never replaces one.
WriteZip(r) ==
    LET t == rel[r]
        zip == [id |-> lastZip + 1, version |-> t.version,
                mode |-> IF t.prev = "none" THEN "full" ELSE "incremental",
                prevRelease |-> t.prev,
                prevPath |-> IF t.prev = "none" THEN "none" ELSE Path(t.prev),
                prevId |-> IF t.prev = "none" THEN 0 ELSE Digest(t.prev),
                entries |-> [k \in t.keys |-> live[k]],
                deleted |-> IF t.prev = "none" THEN {}
                            ELSE Present(InventoryOf(t.prev)) \ Present(inventories[t.inv])]
    IN  /\ AtR(r, "zip")
        /\ IF holder = r /\ zips[t.path] = NoZip /\ t.keys \subseteq Present(live)
           THEN /\ zips' = [zips EXCEPT ![t.path] = zip] /\ lastZip' = lastZip + 1
                /\ GoR(r, "check") /\ UNCHANGED holder
           ELSE EndR(r) /\ UNCHANGED <<zips, lastZip>>
        /\ UNCHANGED <<live, res, inventories, used, unclean, stray>>

\* _require_inventory_bytes, then the digest of the file; a refusal leaves the file.
CheckZip(r) ==
    LET t == rel[r]
        zip == zips[t.path]
    IN  /\ AtR(r, "check")
        /\ IF /\ zip # NoZip /\ DOMAIN zip.entries = t.keys
              /\ \A k \in t.keys : zip.entries[k] = inventories[t.inv][k]
           THEN /\ ToR(r, [t EXCEPT !.pc = "record",
                           !.retention = <<t.path, zip.id, t.prev, t.inv,
                               IF t.prev = "none" THEN 1 ELSE ChainLength(t.prev) + 1>>])
                /\ UNCHANGED holder
           ELSE EndR(r)
        /\ UNCHANGED <<live, zips, res, inventories, lastZip, used, unclean, stray>>

\* create_release: the holder writes the record, if there is none.
WriteRecord(r) ==
    LET t == rel[r]
    IN  /\ AtR(r, "record")
        /\ IF holder = r /\ live[t.version] = Absent /\ CurrentReadable
           THEN live' = [live EXCEPT ![t.version] = Record(t)] /\ GoR(r, "publish") /\ UNCHANGED holder
           ELSE EndR(r) /\ UNCHANGED live
        /\ UNCHANGED <<zips, res, inventories, lastZip, used, unclean, stray>>

\* publish_current_release, the completed record and the release of the claim.
Publish(r) ==
    /\ AtR(r, "publish")
    /\ live' = IF holder = r /\ live[rel[r].version] # Absent
               THEN [live EXCEPT !["current"] = Current(rel[r].version)] ELSE live
    /\ EndR(r)
    /\ UNCHANGED <<zips, res, inventories, lastZip, used, unclean, stray>>

\* A store error at any checkpoint: the failure is recorded and the claim given back.
Fail(r) ==
    /\ rel[r].pc \notin {"idle", "acquire", "dead"} /\ Spend("faults") /\ EndR(r)
    /\ UNCHANGED <<live, zips, res, inventories, lastZip, unclean, stray>>

-----------------------------------------------------------------------------
(* restore_archive.                                                        *)

AtQ(q, l) == res[q].pc = l
ToQ(q, t) == res' = [res EXCEPT ![q] = t]
EndQ(q) == ToQ(q, NoRestore) /\ holder' = IF holder = q THEN "none" ELSE holder

\* The link from an incremental backup to its previous one holds.
Linked(p) ==
    LET prev == zips[p].prevPath
    IN  /\ prev \in Paths /\ zips[prev] # NoZip
        /\ zips[prev].id = zips[p].prevId /\ zips[prev].version = zips[p].prevRelease

\* The paths of a chain, the newest first, as far as the links hold.
Walk(path) ==
    LET walk[n \in 0..Cardinality(Paths)] ==
            IF n = 0 THEN <<path>>
            ELSE LET oldest == Last(walk[n - 1])
                 IN  IF /\ zips[oldest].mode = "incremental" /\ Linked(oldest)
                        /\ ~Contains(walk[n - 1], zips[oldest].prevPath)
                     THEN Append(walk[n - 1], zips[oldest].prevPath) ELSE walk[n - 1]
    IN  walk[Cardinality(Paths)]

\* One backup is applied: its deletions, then its entries.
Apply(inv, zip) ==
    [k \in Keys |-> IF k \in DOMAIN zip.entries THEN zip.entries[k]
                    ELSE IF k \in zip.deleted THEN Absent ELSE inv[k]]
Emptied == [k \in Keys |-> Absent]
Replay(chain) == FoldLeft(Apply, Emptied, chain)
Backups(path) == [i \in 1..Len(Walk(path)) |-> zips[Reverse(Walk(path))[i]]]

\* resolve_backup_chain: it ends in a full backup, no release occurs twice, and every
\* deletion is of a key the state before it holds.
Resolvable(path) ==
    LET chain == Backups(path)
    IN  /\ zips[path] # NoZip /\ Head(chain).mode = "full"
        /\ \A i, j \in DOMAIN chain : i # j => chain[i].version # chain[j].version
        /\ \A i \in 2..Len(chain) :
            /\ chain[i].deleted \subseteq Present(Replay(SubSeq(chain, 1, i - 1)))
            /\ chain[i].deleted \cap DOMAIN chain[i].entries = {}

\* The chain is resolved before the claim.  A full backup is only remembered by path.
Restore(q, path) ==
    /\ AtQ(q, "idle") /\ Resolvable(path) /\ Spend("restores")
    /\ ToQ(q, [NoRestore EXCEPT !.pc = "acquire", !.path = path, !.chain = Backups(path)])
    /\ UNCHANGED <<live, zips, holder, rel, inventories, lastZip, unclean, stray>>

AcquireRestore(q) ==
    /\ AtQ(q, "acquire")
    /\ IF holder = "none" THEN ToQ(q, [res[q] EXCEPT !.pc = "open"]) /\ Hold(q)
       ELSE ToQ(q, NoRestore) /\ UNCHANGED <<holder, stray>>
    /\ UNCHANGED <<live, zips, rel, inventories, lastZip, used, unclean>>

\* _open_unchanged of every backup of a chain; a full backup is read as it is now.
Unchanged(q) == \A i \in DOMAIN res[q].chain : \E p \in Paths : zips[p] = res[q].chain[i]
Open(q) ==
    LET alone == Len(res[q].chain) = 1
    IN  /\ AtQ(q, "open")
        /\ IF IF alone THEN zips[res[q].path].mode = "full" ELSE Unchanged(q)
           THEN /\ ToQ(q, [res[q] EXCEPT !.pc = "prepare", !.next = 1,
                               !.chain = IF alone THEN <<zips[res[q].path]>> ELSE @])
                /\ UNCHANGED holder
           ELSE EndQ(q)
        /\ UNCHANGED <<live, zips, rel, inventories, lastZip, used, unclean, stray>>

\* _prepare_target with overwrite: a target that has a root document is cleared; one
\* without is left as it is.
Prepare(q) ==
    /\ AtQ(q, "prepare")
    /\ IF live["root"] # Absent THEN live' = Emptied /\ unclean' = FALSE
       ELSE UNCHANGED <<live, unclean>>
    /\ ToQ(q, [res[q] EXCEPT !.pc = "put"])
    /\ UNCHANGED <<zips, holder, rel, inventories, lastZip, used, stray>>

\* The product after some deletions.
Without(gone) == [k \in Keys |-> IF k \in gone THEN Absent ELSE live[k]]

\* A restore that stops here fails or dies, and leaves a part of its work.
StopsIn(q, partly) ==
    /\ live' = partly /\ unclean' = TRUE
    /\ \/ EndQ(q) /\ Spend("faults")
       \/ ToQ(q, [NoRestore EXCEPT !.pc = "dead"]) /\ UNCHANGED holder /\ Spend("faults")
    /\ UNCHANGED <<zips, rel, inventories, lastZip, stray>>

PrepareStops(q) ==
    /\ AtQ(q, "prepare") /\ live["root"] # Absent
    /\ \E gone \in SUBSET Present(live) : StopsIn(q, Without(gone))

\* The next backup: deletions of keys that must be there, one by one, then puts of what
\* its file holds, if the file has not changed.  The full backup of a chain stays open
\* from the check on.
Step(q) == res[q].chain[res[q].next]
StillThere(q) ==
    \/ res[q].next = 1 /\ Len(res[q].chain) > 1
    \/ \E p \in Paths : zips[p] = Step(q)
Put(q) ==
    /\ AtQ(q, "put") /\ res[q].next <= Len(res[q].chain)
    /\ StillThere(q) /\ Step(q).deleted \subseteq Present(live)
    /\ live' = Apply(live, Step(q))
    /\ ToQ(q, [res[q] EXCEPT !.next = @ + 1])
    /\ UNCHANGED <<zips, holder, rel, inventories, lastZip, used, unclean, stray>>

\* A key to delete is missing, which shows after some of the others are gone, or the
\* file has changed, which shows after all of them are.
PutRefused(q) ==
    /\ AtQ(q, "put") /\ res[q].next <= Len(res[q].chain)
    /\ \/ /\ ~(Step(q).deleted \subseteq Present(live))
          /\ \E gone \in SUBSET (Step(q).deleted \cap Present(live)) : live' = Without(gone)
       \/ /\ Step(q).deleted \subseteq Present(live) /\ ~StillThere(q)
          /\ live' = Without(Step(q).deleted)
    /\ unclean' = TRUE /\ EndQ(q)
    /\ UNCHANGED <<zips, rel, inventories, lastZip, used, stray>>

\* It stops between two deletions, or between two puts once all deletions are done.
PutStops(q) ==
    /\ AtQ(q, "put") /\ res[q].next <= Len(res[q].chain)
    /\ \E gone \in SUBSET (Step(q).deleted \cap Present(live)),
          put \in SUBSET DOMAIN Step(q).entries :
        /\ put # {} => gone = Step(q).deleted /\ StillThere(q)
        /\ StopsIn(q, [k \in Keys |-> IF k \in put THEN Step(q).entries[k]
                                      ELSE Without(gone)[k]])

\* _verify_restored: a chain is read back, a single full backup is not.
Restored(q) == LET inv == Replay(res[q].chain)
               IN  \A k \in UNION {DOMAIN res[q].chain[i].entries \cup res[q].chain[i].deleted :
                                     i \in DOMAIN res[q].chain} : live[k] = inv[k]
Verify(q) ==
    /\ AtQ(q, "put") /\ res[q].next > Len(res[q].chain)
    /\ unclean' = (unclean \/ (Len(res[q].chain) > 1 /\ ~Restored(q)))
    /\ EndQ(q)
    /\ UNCHANGED <<live, zips, rel, inventories, lastZip, used, stray>>

-----------------------------------------------------------------------------
(* Others.                                                                 *)

\* An admitted run writes or deletes an object.
Ingest(k, c) ==
    /\ holder = "none" /\ live["root"] # Absent /\ live[k] # c /\ Spend("writes")
    /\ live' = [live EXCEPT ![k] = c]
    /\ UNCHANGED <<zips, holder, rel, res, inventories, lastZip, unclean, stray>>

\* A migration that publishes release v stops after its stamp.
MigrationStops(v) ==
    /\ holder = "none" /\ live["root"] # Absent /\ live["root"] # Root(v, "migrate")
    /\ live[v] = Absent /\ Spend("faults")
    /\ live' = [live EXCEPT !["root"] = Root(v, "migrate")]
    /\ UNCHANGED <<zips, holder, rel, res, inventories, lastZip, unclean, stray>>

\* A process whose claim was cleared writes on while a command holds the product.
StrayWrite(k, c) ==
    /\ holder # "none" /\ live[k] # c /\ Spend("faults")
    /\ live' = [live EXCEPT ![k] = c] /\ stray' = stray \cup {k}
    /\ UNCHANGED <<zips, holder, rel, res, inventories, lastZip, unclean>>

\* An operator removes an archive file.
RemoveArchive(p) ==
    /\ zips[p] # NoZip /\ Spend("faults") /\ zips' = [zips EXCEPT ![p] = NoZip]
    /\ UNCHANGED <<live, holder, rel, res, inventories, lastZip, unclean, stray>>

\* A releaser dies, with its claim; its claim is cleared later.
Die(r) ==
    /\ rel[r].pc \notin {"idle", "acquire", "dead"} /\ Spend("faults") /\ ToR(r, [Idle EXCEPT !.pc = "dead"])
    /\ UNCHANGED <<live, zips, holder, res, inventories, lastZip, unclean, stray>>

ClearDeadClaim ==
    /\ \/ holder \in Releasers /\ rel[holder].pc = "dead" /\ ToR(holder, Idle) /\ UNCHANGED res
       \/ holder \in Restorers /\ res[holder].pc = "dead" /\ ToQ(holder, NoRestore) /\ UNCHANGED rel
    /\ holder' = "none"
    /\ UNCHANGED <<live, zips, inventories, lastZip, used, unclean, stray>>

Values == {Absent} \cup {Data(c) : c \in Contents}

ReleasesNext ==
    \/ \E r \in Releasers :
        \/ \E v \in Versions, path \in Paths \cup {"none"}, full \in BOOLEAN :
             CreateRelease(r, v, path, full)
        \/ Acquire(r) \/ Existing(r) \/ Stamp(r) \/ Snapshot(r) \/ TakeInventory(r)
        \/ WriteZip(r) \/ CheckZip(r) \/ WriteRecord(r) \/ Publish(r) \/ Fail(r) \/ Die(r)
    \/ \E q \in Restorers :
        \/ \E path \in Paths : Restore(q, path)
        \/ AcquireRestore(q) \/ Open(q) \/ Prepare(q) \/ PrepareStops(q)
        \/ Put(q) \/ PutRefused(q) \/ PutStops(q) \/ Verify(q)
    \/ \E k \in DataKeys, c \in Values : Ingest(k, c) \/ StrayWrite(k, c)
    \/ \E v \in Versions : MigrationStops(v)
    \/ \E p \in Paths : RemoveArchive(p)
    \/ ClearDeadClaim

-----------------------------------------------------------------------------
(* Properties.                                                             *)

Zips(v) == live[v] # Absent /\ IsZip(v)

\* _archive_state and _first_broken_previous_backup: verify_retention goes from record
\* to record and reads no marker.
ArchivePresent(v) == zips[Path(v)].id = Digest(v)
RetentionVerified(v) ==
    LET ok[n \in 0..Cardinality(Versions)] ==
            \* the version reached after n links, or "none" past the full backup, or "broken"
            IF n = 0 THEN (IF ArchivePresent(v) THEN v ELSE "broken")
            ELSE LET u == ok[n - 1]
                 IN  IF u \in {"none", "broken"} THEN u
                     ELSE IF Previous(u) = "none" THEN "none"
                     ELSE IF IsZip(Previous(u)) /\ ArchivePresent(Previous(u)) THEN Previous(u)
                     ELSE "broken"
    IN  ok[Cardinality(Versions)] = "none"

\* Type correctness of the product, archives and commands.
ReleasesTypeOK ==
    /\ DOMAIN live = Keys /\ \A p \in Paths : zips[p].id \in 0..lastZip
    /\ holder \in Releasers \cup Restorers \cup {"none"}
    /\ \A r \in Releasers : rel[r].inv \in 0..Len(inventories)

\* A release whose retention verifies can be restored: the chain its archive's markers
\* give resolves and replays to the inventory taken for the release, whatever unadmitted
\* writers did while it was made.
VerifiedIsRestorable ==
    \A v \in Versions : ~unclean /\ Zips(v) /\ RetentionVerified(v) =>
        /\ Resolvable(Path(v)) /\ Replay(Backups(Path(v))) = InventoryOf(v)
        /\ Len(Backups(Path(v))) = ChainLength(v)

\* The current release has a record, and a record's snapshot is the root document its
\* archive holds.
CurrentIsRecorded ==
    ~unclean /\ (\A q \in Restorers : res[q].pc \notin {"put", "prepare"}) =>
        /\ CurrentReadable
        /\ \A v \in Versions : Zips(v) => InventoryOf(v)["root"] = live[v][2]

\* A record is never rewritten, and the current release never becomes one without a
\* record, but by a restore that replaces the product.
RecordsAreKept ==
    \A v \in Versions : live[v] # Absent /\ live'[v] # live[v] =>
        \E q \in Restorers : holder = q

\* A restore that completes leaves exactly what its chain replays to, when it found a
\* target it could clear and no process wrote besides.
Completes(q) ==
    /\ AtQ(q, "put") /\ res[q].next > Len(res[q].chain) /\ res'[q].pc = "idle"
    /\ Len(res[q].chain) > 1 => Restored(q)
RestoreIsExact ==
    \A q \in Restorers : Completes(q) /\ stray = {} /\ ~unclean => live = Replay(res[q].chain)

ReleasesInvariant ==
    ReleasesTypeOK /\ VerifiedIsRestorable /\ CurrentIsRecorded

ReleasesStep ==
    RecordsAreKept /\ RestoreIsExact

\* What releases and their backups promise.
ReleasesAreKept == []ReleasesInvariant /\ [][ReleasesStep]_rvars

ReleasesSpec == ReleasesInit /\ [][ReleasesNext]_rvars

=============================================================================
