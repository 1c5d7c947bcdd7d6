------------------------------ MODULE Migration ------------------------------
(***************************************************************************)
(* Migration of a product's metadata documents (migrate.py): a step is     *)
(* planned from a snapshot, journaled with the bytes of every document it  *)
(* will write, applied document by document with the root and its          *)
(* consolidated image last, verified, and recorded, with the release it    *)
(* names.  Operators run steps, several at a time, and retry them; their   *)
(* processes fail or die between any two steps; other writers change       *)
(* documents; the installed step changes its version; the operator gives   *)
(* up runs whose process is dead.                                          *)
(*                                                                         *)
(* A document is the set of changes it has seen; the root also names the   *)
(* run that stamped it and holds the image of the other documents (Zarr    *)
(* v3; in v2 the image is a document of its own).  A dry run writes        *)
(* nothing and is left out, and so is a step whose attribute classes are   *)
(* refused.  Reading a document and replacing it is one step: the other    *)
(* writers the claim excludes (Maintenance), and no store is compared with *)
(* a condition here.                                                       *)
(***************************************************************************)
EXTENDS Integers, Sequences, FiniteSets

CONSTANTS
    Nodes,      \* array documents
    Steps,      \* migration steps
    Touches,    \* Touches[s]: the nodes its patches address
    DependsOn,  \* DependsOn[s]: steps that must be complete
    ReleaseOf,  \* ReleaseOf[s]: the release it creates, or NoRelease
    Procs,      \* processes that run migrate_product
    Edits,      \* changes that other writers make, each once
    MaxRuns     \* bound: runs

NoRelease == "none"
Root == "zarr.json"
Paths == Nodes \cup {Root}
Runs == 1 .. MaxRuns
Versions == 1 .. 2

VARIABLES
    docs,      \* the documents in the store
    status,    \* status[r]: of the run, as run.json records it
    journal,   \* journal[r]: its journal, or NoJournal
    starts,    \* runs in the order of their recorded start
    releases,  \* release records: version to snapshot and run
    currentRel,\* refs/current.json
    holder,    \* the exclusive maintenance claim: its run, and its process
    mpc, job,  \* where a process is, and what it does
    installed, \* installed version of the steps
    edits,     \* changes made by other writers
    lateEdit   \* history: one of them came after a run had verified the store

mvars == <<docs, status, journal, starts, releases, currentRel, holder, mpc, job,
           installed, edits, lateEdit>>

NoHolder == [run |-> 0, proc |-> "none"]
NoJournal == [step |-> "none"]
NoJob == [step |-> "none", run |-> 0, resume |-> 0, todo |-> {}, snap |-> <<>>]
Unstarted == "unstarted"

-----------------------------------------------------------------------------
(* Documents and plans.                                                    *)

\* The changes a document has seen.
Seen(d, p) == IF p = Root THEN d[p].attrs ELSE d[p]

\* _rebuilt_image: the image the root would hold.
ImageOf(d) == [n \in Nodes |-> d[n]]

\* _is_noop: every node the step addresses has its values already.
Adopted(d, s) == \A n \in Touches[s] : s \in d[n]

\* plan_documents and _compose: the patches, the managed stamps and the image.
Planned(d, s, r) ==
    LET nodes == [n \in Nodes |-> IF n \in Touches[s] THEN d[n] \cup {s} ELSE d[n]]
    IN  [p \in Paths |->
            IF p # Root THEN nodes[p]
            ELSE [d[Root] EXCEPT !.by = r, !.rel = IF ReleaseOf[s] = NoRelease THEN @ ELSE ReleaseOf[s],
                                 !.image = IF d[Root].image = <<>> THEN <<>> ELSE nodes]]

\* The documents the journal lists: those the patches address, and the root.
Listed(j) == Touches[j.step] \cup {Root}

\* _state.
State(d, j, p) ==
    IF d[p] = j.after[p] THEN "after" ELSE IF d[p] = j.before[p] THEN "before" ELSE "third"

\* _plan_states: refused when another document changed, or one has a third state.
Drifted(d, j) ==
    \/ \E p \in Paths \ Listed(j) : d[p] # j.before[p]
    \/ \E p \in Listed(j) : State(d, j, p) = "third"

-----------------------------------------------------------------------------
(* Prior runs.                                                             *)

\* _history sorts by the recorded start, or by the snapshot of a run that has a
\* journal and no start.
StartOf(r) ==
    IF status[r] = Unstarted THEN 2 * journal[r].taken + 1
    ELSE 2 * (CHOOSE i \in 1 .. Len(starts) : starts[i] = r)

History(s) == {r \in Runs : journal[r] # NoJournal /\ journal[r].step = s}
Latest(rs) == CHOOSE r \in rs : \A o \in rs : StartOf(o) < StartOf(r) \/ (StartOf(o) = StartOf(r) /\ o <= r)

\* _prior_runs: already applied, refused, or to run, resuming the run it names.
Prior(s) ==
    LET foreign == {r \in History(s) : /\ journal[r].version # installed
                                       /\ status[r] \notin {"abandoned", Unstarted}}
        same == {r \in History(s) : journal[r].version = installed /\ status[r] # "abandoned"}
        done == {r \in same : status[r] = "complete"}
    IN  CASE foreign # {} -> [kind |-> "refused", run |-> 0]
          [] foreign = {} /\ done # {} ->
               [kind |-> IF \A p \in Listed(journal[Latest(done)]) :
                              State(docs, journal[Latest(done)], p) = "after"
                         THEN "applied" ELSE "refused", run |-> 0]
          [] foreign = {} /\ done = {} /\ same = {} -> [kind |-> "run", run |-> 0]
          [] OTHER ->
               [kind |-> IF \E p \in Listed(journal[Latest(same)]) :
                              State(docs, journal[Latest(same)], p) = "third"
                         THEN "refused" ELSE "run", run |-> Latest(same)]

\* An interrupted run is continued under its own id, a failed one under a new id.
Interrupted(r) == r # 0 /\ status[r] \in {Unstarted, "running"}

-----------------------------------------------------------------------------
InitWith(consolidated) ==
    /\ docs = [p \in Paths |->
                 IF p # Root THEN {}
                 ELSE [attrs |-> {}, by |-> 0, rel |-> NoRelease,
                       image |-> IF consolidated THEN [n \in Nodes |-> {}] ELSE <<>>]]
    /\ status = [r \in Runs |-> Unstarted]
    /\ journal = [r \in Runs |-> NoJournal]
    /\ starts = <<>>
    /\ releases = [v \in {} |-> {}] /\ currentRel = NoRelease
    /\ holder = NoHolder
    /\ mpc = [p \in Procs |-> "idle"] /\ job = [p \in Procs |-> NoJob]
    /\ installed = 1 /\ edits = {} /\ lateEdit = FALSE

Used == {job[p].run : p \in Procs} \cup {starts[i] : i \in 1 .. Len(starts)}
            \cup {r \in Runs : journal[r] # NoJournal}
Fresh(r) == r \notin Used /\ \A o \in Runs \ Used : r <= o

\* The process works on run r in state at.
At(p, at) == mpc[p] = at
GoTo(p, at) == mpc' = [mpc EXCEPT ![p] = at]

\* The process returns or raises; its own claim is released.
Stop(p) ==
    /\ GoTo(p, "idle") /\ job' = [job EXCEPT ![p] = NoJob]
    /\ holder' = IF holder.proc = p THEN NoHolder ELSE holder

\* migrate_product: the history and the live documents decide before the claim.
MigrateProduct(p, s, r) ==
    /\ At(p, "idle") /\ Prior(s).kind = "run"
    /\ IF Interrupted(Prior(s).run) THEN r = Prior(s).run ELSE Fresh(r)
    /\ job' = [job EXCEPT ![p] = [NoJob EXCEPT !.step = s, !.run = r, !.resume = Prior(s).run]]
    /\ GoTo(p, "claim")
    /\ UNCHANGED <<docs, status, journal, starts, releases, currentRel, holder, installed,
                   edits, lateEdit>>

\* acquire_exclusive_maintenance: nobody has the claim, and no other run is under way.
Admissible(p) ==
    /\ holder = NoHolder
    /\ \A r \in Runs : status[r] = "running" => r = job[p].run

\* _run: the claim, and under it the same decision again; a run that is applied
\* by now, or whose predecessor changed, is not made.
Admit(p) ==
    LET prior == Prior(job[p].step)
        stands == Admissible(p) /\ prior.kind = "run" /\ prior.run = job[p].resume
    IN
    /\ At(p, "claim")
    /\ \/ /\ stands
          /\ GoTo(p, "prepare") /\ holder' = [run |-> job[p].run, proc |-> p] /\ UNCHANGED job
       \/ ~stands /\ Stop(p)
    /\ UNCHANGED <<docs, status, journal, starts, releases, currentRel, installed, edits, lateEdit>>

\* The run goes on from here, or fails: an error is recorded on the run, whose
\* start is recorded first when it is not yet, and the claim is released.  The
\* record itself may fail.
FailRun(p) ==
    LET r == job[p].run IN
    /\ \/ /\ status' = [status EXCEPT ![r] = "failed"]
          /\ starts' = IF status[r] = Unstarted THEN Append(starts, r) ELSE starts
       \/ UNCHANGED <<status, starts>>
    /\ Stop(p)

\* Mutant: the root of a resumed plan is stamped anew.
PrepareRestamped(p) ==
    LET j == job[p]
        old == IF j.resume = 0 THEN NoJournal ELSE journal[j.resume]
    IN
    /\ At(p, "prepare")
    /\ journal' = [journal EXCEPT ![j.run] =
          IF j.resume = 0
          THEN [step |-> j.step, version |-> installed, before |-> docs,
                after |-> Planned(docs, j.step, j.run), from |-> 0, taken |-> Len(starts)]
          ELSE [old EXCEPT !.after[Root].by = j.run]]
    /\ GoTo(p, "start")
    /\ UNCHANGED <<status, starts, job, holder, docs, releases, currentRel, installed, edits, lateEdit>>

\* Preconditions, the before snapshot, the plan and its journal; a resumed plan
\* is copied to the journal of the new run and never planned again.
Prepare(p) ==
    LET j == job[p]
        old == IF j.resume = 0 THEN NoJournal ELSE journal[j.resume]
    IN
    /\ At(p, "prepare")
    /\ \/ /\ j.resume = 0
          /\ \A d \in DependsOn[j.step] : \E r \in History(d) : status[r] = "complete"
          /\ ReleaseOf[j.step] \notin DOMAIN releases
          /\ journal' = [journal EXCEPT ![j.run] =
                [step |-> j.step, version |-> installed, before |-> docs,
                 after |-> Planned(docs, j.step, j.run), from |-> 0, taken |-> Len(starts)]]
          /\ GoTo(p, "start") /\ UNCHANGED <<status, starts, job, holder>>
       \/ /\ j.resume # 0
          /\ journal' = [journal EXCEPT ![j.run] = IF j.run = j.resume THEN @ ELSE [old EXCEPT !.from = j.resume]]
          /\ GoTo(p, "start") /\ UNCHANGED <<status, starts, job, holder>>
       \/ FailRun(p) /\ UNCHANGED journal
    /\ UNCHANGED <<docs, releases, currentRel, installed, edits, lateEdit>>

\* record_maintenance_started, unless the interrupted run has its start already.
Start(p) ==
    LET r == job[p].run IN
    /\ At(p, "start")
    /\ \/ /\ status' = [status EXCEPT ![r] = "running"]
          /\ starts' = IF status[r] = Unstarted THEN Append(starts, r) ELSE starts
          /\ GoTo(p, "classify") /\ UNCHANGED <<job, holder>>
       \/ FailRun(p)
    /\ UNCHANGED <<docs, journal, releases, currentRel, installed, edits, lateEdit>>

\* apply_metadata_plan: every document is classified against the journal before
\* the first is written.
Classify(p) ==
    LET j == journal[job[p].run] IN
    /\ At(p, "classify")
    /\ \/ /\ ~Drifted(docs, j)
          /\ job' = [job EXCEPT ![p].todo = {q \in Listed(j) : State(docs, j, q) = "before"}]
          /\ GoTo(p, "write") /\ UNCHANGED <<status, starts, holder>>
       \/ FailRun(p)
    /\ UNCHANGED <<docs, journal, releases, currentRel, installed, edits, lateEdit>>

\* publish_raw: one document, the root last, where the store still holds the
\* bytes the plan expects.
WriteDocument(p, q) ==
    LET j == journal[job[p].run] IN
    /\ At(p, "write") /\ q \in job[p].todo /\ (q = Root => job[p].todo = {Root})
    /\ \/ /\ docs[q] = j.before[q]
          /\ docs' = [docs EXCEPT ![q] = j.after[q]]
          /\ job' = [job EXCEPT ![p].todo = @ \ {q}]
          /\ UNCHANGED <<mpc, status, starts, holder>>
       \/ FailRun(p) /\ UNCHANGED docs
    /\ UNCHANGED <<journal, releases, currentRel, installed, edits, lateEdit>>

\* The store is read back: the plan's documents hold its bytes, the others theirs.
Verify(p) ==
    LET j == journal[job[p].run] IN
    /\ At(p, "write") /\ job[p].todo = {}
    /\ \/ /\ \A q \in Paths : docs[q] = IF q \in Listed(j) THEN j.after[q] ELSE j.before[q]
          /\ GoTo(p, "after") /\ UNCHANGED <<status, starts, holder, job>>
       \/ FailRun(p)
    /\ UNCHANGED <<docs, journal, releases, currentRel, installed, edits, lateEdit>>

\* The after snapshot; a release that is recorded already must match the store.
TakeAfter(p) ==
    LET v == ReleaseOf[job[p].step] IN
    /\ At(p, "after")
    /\ \/ /\ v = NoRelease
          /\ GoTo(p, "complete") /\ UNCHANGED <<status, starts, holder, job>>
       \/ /\ v # NoRelease /\ v \notin DOMAIN releases
          /\ job' = [job EXCEPT ![p].snap = docs]
          /\ GoTo(p, "record") /\ UNCHANGED <<status, starts, holder>>
       \/ /\ v \in DOMAIN releases /\ releases[v].snap = docs
          /\ GoTo(p, "current") /\ UNCHANGED <<status, starts, holder, job>>
       \/ FailRun(p)
    /\ UNCHANGED <<docs, journal, releases, currentRel, installed, edits, lateEdit>>

\* create_release: the record of a version is created once.
CreateRelease(p) ==
    LET v == ReleaseOf[job[p].step] IN
    /\ At(p, "record")
    /\ \/ /\ v \notin DOMAIN releases
          /\ releases' = [w \in DOMAIN releases \cup {v} |->
                            IF w = v THEN [snap |-> job[p].snap, run |-> job[p].run] ELSE releases[w]]
          /\ GoTo(p, "current") /\ UNCHANGED <<status, starts, holder, job>>
       \/ FailRun(p) /\ UNCHANGED releases
    /\ UNCHANGED <<docs, journal, currentRel, installed, edits, lateEdit>>

\* publish_current_release.
PublishCurrent(p) ==
    /\ At(p, "current")
    /\ \/ /\ currentRel' = ReleaseOf[job[p].step]
          /\ GoTo(p, "complete") /\ UNCHANGED <<status, starts, holder, job>>
       \/ FailRun(p) /\ UNCHANGED currentRel
    /\ UNCHANGED <<docs, journal, releases, installed, edits, lateEdit>>

\* record_maintenance_completed, and the release of the claim.
Complete(p) ==
    /\ At(p, "complete")
    /\ \/ /\ status' = [status EXCEPT ![job[p].run] = "complete"] /\ UNCHANGED starts
          /\ Stop(p)
       \/ FailRun(p)
    /\ UNCHANGED <<docs, journal, releases, currentRel, installed, edits, lateEdit>>

\* The process dies, and leaves its claim.
Crash(p) ==
    /\ ~At(p, "idle")
    /\ GoTo(p, "idle") /\ job' = [job EXCEPT ![p] = NoJob]
    /\ holder' = IF holder.proc = p THEN [holder EXCEPT !.proc = "dead"] ELSE holder
    /\ UNCHANGED <<docs, status, journal, starts, releases, currentRel, installed, edits, lateEdit>>

\* clear_claim of a stale claim.
ClearClaim ==
    /\ holder.proc = "dead" /\ holder' = NoHolder
    /\ UNCHANGED <<docs, status, journal, starts, releases, currentRel, mpc, job, installed,
                   edits, lateEdit>>

\* abandon_run of a run whose process is dead; its claim is released with it.
Abandon(r) ==
    /\ status[r] = "running" /\ (holder.run = r => holder.proc = "dead")
    /\ status' = [status EXCEPT ![r] = "abandoned"]
    /\ holder' = IF holder.run = r THEN NoHolder ELSE holder
    /\ UNCHANGED <<docs, journal, starts, releases, currentRel, mpc, job, installed,
                   edits, lateEdit>>

\* Another writer changes a document, and the image with it.
Edit(e, q) ==
    /\ e \notin edits
    /\ edits' = edits \cup {e}
    /\ LET nodes == [n \in Nodes |-> IF n = q THEN docs[n] \cup {e} ELSE docs[n]] IN
       docs' = [o \in Paths |->
                  IF o # Root THEN nodes[o]
                  ELSE [docs[Root] EXCEPT !.attrs = IF q = Root THEN @ \cup {e} ELSE @,
                          !.image = IF @ = <<>> \/ @ # ImageOf(docs) THEN @ ELSE nodes]]
    /\ lateEdit' = (lateEdit \/ \E p \in Procs : mpc[p] \in {"after", "record", "current", "complete"})
    /\ UNCHANGED <<status, journal, starts, releases, currentRel, holder, mpc, job, installed>>

\* Another version of the distribution that offers the steps is installed.
Upgrade ==
    /\ installed < 2 /\ installed' = installed + 1
    /\ \A p \in Procs : At(p, "idle")
    /\ UNCHANGED <<docs, status, journal, starts, releases, currentRel, holder, mpc, job,
                   edits, lateEdit>>

MigrationNext ==
    \/ \E p \in Procs :
         \/ \E s \in Steps, r \in Runs : MigrateProduct(p, s, r)
         \/ Admit(p) \/ Prepare(p) \/ Start(p) \/ Classify(p)
         \/ \E q \in Paths : WriteDocument(p, q)
         \/ Verify(p) \/ TakeAfter(p) \/ CreateRelease(p) \/ PublishCurrent(p)
         \/ Complete(p) \/ Crash(p)
    \/ ClearClaim
    \/ \E r \in Runs : Abandon(r)
    \/ \E e \in Edits, q \in Paths : Edit(e, q)
    \/ Upgrade

-----------------------------------------------------------------------------
(* Properties.                                                             *)

\* Every variable has its type; a process under the claim is its holder.
MigrationTypeOK ==
    /\ \A n \in Nodes : docs[n] \subseteq Steps \cup Edits
    /\ docs[Root].attrs \subseteq Edits /\ docs[Root].by \in Runs \cup {0}
    /\ status \in [Runs -> {Unstarted, "running", "complete", "failed", "abandoned"}]
    /\ \A r \in Runs : journal[r] = NoJournal \/ journal[r].step \in Steps
    /\ \A i, k \in 1 .. Len(starts) : starts[i] = starts[k] => i = k
    /\ holder.run \in Runs \cup {0} /\ holder.proc \in Procs \cup {"none", "dead"}
    /\ \A p \in Procs : (mpc[p] \notin {"idle", "claim"}) = (holder = [run |-> job[p].run, proc |-> p])
    /\ installed \in Versions /\ edits \subseteq Edits /\ lateEdit \in BOOLEAN

\* A step is applied by one run at most, whatever is retried, resumed or run twice
\* at the same time.
StepsApplyOnce ==
    \A s \in Steps : Cardinality({r \in History(s) : status[r] = "complete"}) <= 1

\* No change that a document has seen is ever lost: a migration that finds the
\* change of another writer refuses and leaves it in place.
NothingIsOverwritten ==
    \A q \in Paths : Seen(docs, q) \subseteq Seen(docs', q)

\* A run is recorded complete only with every document of its plan in the after
\* state, also when several processes wrote parts of it.
CompleteMeansApplied ==
    \A r \in Runs : status[r] # "complete" /\ status'[r] = "complete" /\ ~lateEdit =>
        \A q \in Listed(journal[r]) : docs[q] = journal[r].after[q]

\* A consolidated image that disagrees with the documents is the trace of a run
\* that is not complete.
TornImageMeansUnfinished ==
    docs[Root].image \notin {<<>>, ImageOf(docs)} /\ edits = {} =>
        \E r \in Runs : journal[r] # NoJournal /\ status[r] \notin {"complete", Unstarted}

\* As long as no other writer interferes, an interrupted or failed run can be
\* resumed: every document of its plan is in the before or the after state.
ResumeIsPossible ==
    edits = {} =>
        \A s \in Steps :
            LET pending == {r \in History(s) : /\ journal[r].version = installed
                                               /\ status[r] \in {Unstarted, "running", "failed"}}
                done == {r \in History(s) : status[r] \in {"complete", "abandoned"}}
            IN  pending # {} /\ done = {} /\ (\A o \in Steps \ {s} : History(o) = {}) =>
                    ~Drifted(docs, journal[Latest(pending)])

\* One version of a step finishes what it began: the plan a process applies was
\* made by the version that is installed.
VersionsDoNotMix ==
    \A p \in Procs : mpc[p] \notin {"idle", "claim", "prepare"} =>
        journal[job[p].run].version = installed

\* A release record names a snapshot that shows the whole plan of its run, and the
\* current release has a record.
ReleasesShowTheirPlan ==
    /\ currentRel # NoRelease => currentRel \in DOMAIN releases
    /\ ~lateEdit => \A v \in DOMAIN releases : \A q \in Listed(journal[releases[v].run]) :
                        releases[v].snap[q] = journal[releases[v].run].after[q]

MigrationInvariant ==
    /\ MigrationTypeOK
    /\ StepsApplyOnce
    /\ TornImageMeansUnfinished
    /\ ResumeIsPossible
    /\ VersionsDoNotMix
    /\ ReleasesShowTheirPlan

MigrationStep ==
    NothingIsOverwritten /\ CompleteMeansApplied

\* What a migration promises, over any interleaving of runs, retries, crashes and
\* other writers: a step is applied once and whole, nobody's change is lost, and an
\* interrupted run can be finished from its journal, by the version that began it.
MigrationIsExact == []MigrationInvariant /\ [][MigrationStep]_mvars

=============================================================================
