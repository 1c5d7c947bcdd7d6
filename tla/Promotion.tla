------------------------------ MODULE Promotion ------------------------------
(***************************************************************************)
(* Staged direct runs of one product (staged_metadata.py,                  *)
(* direct_region_adapter.py, unit_ownership.py, promotion_plan.py,         *)
(* StorageSession.publish_plan, _publish_promoted_document): a run seeds a *)
(* workspace from the target, writes its slots there, and publishes what   *)
(* it proved it wrote as a delta of objects.  Nothing keeps two runs, or a *)
(* run and a writer that grows the target, apart while they do it.         *)
(*                                                                         *)
(* "data" is an array whose slots the runs write, "time" its coordinate,   *)
(* stored as one unit.  Pods with windows share a product whose coordinate *)
(* preallocate manages; a run without a window is alone with the writer.   *)
(***************************************************************************)
EXTENDS Integers, FiniteSets, FiniteSetsExt

CONSTANTS
    Runs,       \* staged runs
    Slots,      \* number of slots the axis may reach
    DataUnit,   \* slots of a stored unit of "data"
    Products    \* products, the slots each of their runs writes, and whether its seeding is strict

VARIABLES
    target,   \* the product: length, cells and markers of each array
    managed,  \* preallocate manages the coordinate
    work,     \* workspace of each run: the same, and whether the coordinate's chunk is there
    job,      \* each run: place, slots left, ledger, plan, document at hand
    others,   \* what other processes did: growth of the arrays, a new marker
    put,      \* history: what each run put into each unit
    raced     \* history: arrays another process changed behind a check

pvars == <<target, managed, work, job, others, put, raced>>

Arrays == {"data", "time"}
Axis == 0..(Slots - 1)
UnitSize(a) == IF a = "data" THEN DataUnit ELSE Slots
UnitsOf(a) == {s \div UnitSize(a) : s \in Axis}
SlotsOf(a, u) == {s \in Axis : s \div UnitSize(a) = u}
UnitsTouched(a, slots) == {s \div UnitSize(a) : s \in slots}
Filled == [s \in Axis |-> "fill"]
Doc(store, a) == [length |-> store.length[a], marks |-> store.marks[a]]
NoPlan == [puts |-> {}, documents |-> {}]
NoDoc == [length |-> 0, marks |-> {}]

\* A workspace is empty, or left by an earlier run with an object of "data".
Workspaces(dirty) ==
    {[length |-> [a \in Arrays |-> 0], cells |-> [a \in Arrays |-> Filled],
      marks |-> [a \in Arrays |-> {}], coordinate |-> FALSE]}
    \cup IF dirty
         THEN {[length |-> [a \in Arrays |-> Slots], marks |-> [a \in Arrays |-> {}],
                cells |-> [data |-> [Filled EXCEPT ![0] = "stale"], time |-> Filled],
                coordinate |-> TRUE]}
         ELSE {}

PromotionInit ==
    \E x \in Products :
        /\ managed = x.managed
        /\ target = [length |-> x.length,
                     cells |-> [a \in Arrays |-> [s \in Axis |->
                                    IF s < x.length[a] THEN "old" ELSE "fill"]],
                     marks |-> [a \in Arrays |->
                                    IF x.managed /\ a = "time" THEN {"managed"} ELSE {}]]
        /\ work \in [Runs -> Workspaces(~x.managed)]
        /\ job = [p \in Runs |->
                    [pc |-> IF x.writes[p] = {} THEN "absent" ELSE "startup",
                     strict |-> x.strict, todo |-> x.writes[p], touched |-> {}, written |-> {}, plan |-> NoPlan,
                     at |-> "none", doc |-> NoDoc, current |-> NoDoc]]
        /\ others = {} /\ put = [p \in Runs |-> {}] /\ raced = {}

At(p, l) == job[p].pc = l
SetJ(p, j) == job' = [job EXCEPT ![p] = j]
Go(p, l) == SetJ(p, [job[p] EXCEPT !.pc = l])

-----------------------------------------------------------------------------
(* Before the batches: the workspace is set up and seeded.                 *)

\* _verify_schema_at_pod_startup gives the workspace of a run with a window the arrays of the
\* schema, at the size of the index; a run without a window has nothing to set up.
SetUp(p) ==
    /\ At(p, "startup") /\ Go(p, "seed")
    /\ work' = [work EXCEPT ![p].length = IF managed THEN [a \in Arrays |-> Slots] ELSE @]
    /\ UNCHANGED <<target, managed, others, put, raced>>

\* _write_document under the seeding authority: a document is put only where there is none.
SeedDocument(p, a) ==
    /\ At(p, "seed") /\ target.length[a] > 0 /\ work[p].length[a] = 0
    /\ work' = [work EXCEPT ![p].length[a] = target.length[a], ![p].marks[a] = target.marks[a]]
    /\ UNCHANGED <<target, managed, job, others, put, raced>>

\* _seed_group_via_session: the chunk of the coordinate, if the workspace lacks it.
SeedCoordinate(p) ==
    /\ At(p, "seed") /\ target.cells["time"] # Filled /\ ~work[p].coordinate
    /\ work' = [work EXCEPT ![p].cells["time"] = target.cells["time"], ![p].coordinate = TRUE]
    /\ UNCHANGED <<target, managed, job, others, put, raced>>

IsSeeded(p) ==
    /\ \A a \in Arrays : target.length[a] > 0 => work[p].length[a] > 0
    /\ target.cells["time"] # Filled => work[p].coordinate

\* A file that could not be copied ends the run when seeding is strict, and is passed over
\* when it is not.
Seeded(p) ==
    /\ At(p, "seed")
    /\ \/ (IsSeeded(p) \/ ~job[p].strict) /\ Go(p, "write")
       \/ job[p].strict /\ Go(p, "refused")
    /\ UNCHANGED <<target, managed, work, others, put, raced>>

-----------------------------------------------------------------------------
(* Writes in the workspace, with their ledger.                             *)

\* A run without a window grows the arrays to the slot.
Reaching(p, s) == IF managed THEN Slots ELSE Max({work[p].length["data"], s + 1})

\* DirectRegionAdapter.writing, one slot: touched before, written once it is done.  A managed
\* coordinate is verified, another one written.
WriteSlot(p, s, value) ==
    /\ At(p, "write") /\ s \in job[p].todo
    /\ work' = [work EXCEPT
            ![p].length = [a \in Arrays |-> Reaching(p, s)],
            ![p].cells["data"][s] = value,
            ![p].cells["time"][s] = IF managed THEN @ ELSE p,
            ![p].coordinate = @ \/ ~managed]
    /\ SetJ(p, [job[p] EXCEPT !.todo = @ \ {s}, !.touched = @ \cup {s}, !.written = @ \cup {s}])
    /\ UNCHANGED <<target, managed, others, put, raced>>

\* The write fails, its cell written or not; the run goes on to the next batch.
WriteFails(p, s) ==
    /\ At(p, "write") /\ s \in job[p].todo
    /\ work' \in {work, [work EXCEPT ![p].length = [a \in Arrays |-> Reaching(p, s)],
                                     ![p].cells["data"][s] = p]}
    /\ SetJ(p, [job[p] EXCEPT !.todo = @ \ {s}, !.touched = @ \cup {s}])
    /\ UNCHANGED <<target, managed, others, put, raced>>

\* incompletely_written_units: a touched unit has a cell no write covers, or lies past the
\* array (an IndexError).  An array the workspace lacks is skipped.
Incomplete(p) ==
    LET n == work[p].length["data"]
    IN n > 0 /\ \E s \in job[p].touched :
        s >= n \/ \E c \in SlotsOf("data", s \div DataUnit) : c < n /\ c \notin job[p].written

\* require_staged_units_fully_written, for verify_promotion.
Verify(p) ==
    /\ At(p, "write") /\ job[p].todo = {}
    /\ Go(p, IF Incomplete(p) THEN "refused" ELSE "prove")
    /\ UNCHANGED <<target, managed, work, others, put, raced>>

-----------------------------------------------------------------------------
(* What promotion publishes.                                               *)

\* staged_unit_object_keys.
ProvedUnits(p) ==
    IF work[p].length["data"] = 0 THEN {}
    ELSE {<<"data", u>> : u \in UnitsTouched("data", job[p].touched)}

\* require_target_within_clipped_units: the target has grown into a unit the workspace ends in.
GrownInto(p) ==
    \E u \in UnitsTouched("data", job[p].touched) :
        LET n == work[p].length["data"]
        IN (u + 1) * DataUnit > n /\ n > 0 /\ target.length["data"] > n

Prove(p) ==
    /\ At(p, "prove")
    /\ Go(p, IF GrownInto(p) THEN "refused" ELSE "plan")
    /\ UNCHANGED <<target, managed, work, others, put, raced>>

\* list_workspace_objects: zarr keeps no object for a unit that is all fill.
Objects(p) ==
    {<<a, u>> \in UNION {{a} \X UnitsOf(a) : a \in Arrays} :
        \E s \in SlotsOf(a, u) : work[p].cells[a][s] # "fill"}

\* _target_document_supersedes: the target's array only grew.
Supersedes(doc, mine) == doc.length > mine.length /\ doc.marks = mine.marks

\* is_unchanged of plan_promotion: publishing would leave the target as it is.
SameObject(p, x) == \A s \in SlotsOf(x[1], x[2]) : target.cells[x[1]][s] = work[p].cells[x[1]][s]
SameDocument(p, a) ==
    Doc(target, a) = Doc(work[p], a) \/ Supersedes(Doc(target, a), Doc(work[p], a))

\* Objects of units the run has not proved are put where they differ, but the data of a
\* managed coordinate never is.
Unclaimed(p) ==
    {x \in Objects(p) \ ProvedUnits(p) : ~(managed /\ x[1] = "time") /\ ~SameObject(p, x)}

\* Mutant: every object of the workspace is uploaded, and no unit is deleted.
PlanOfTree(p) ==
    [puts |-> (ProvedUnits(p) \cap Objects(p)) \cup Unclaimed(p),
     documents |-> {a \in Arrays : work[p].length[a] > 0 /\ ~SameDocument(p, a)}]

\* build_promotion_plan: the units written are put, or deleted where they left no object; then
\* other objects, and the documents.
PlanOf(p) ==
    [puts |-> ProvedUnits(p) \cup Unclaimed(p),
     documents |-> {a \in Arrays : work[p].length[a] > 0 /\ ~SameDocument(p, a)}]

\* _promote: an unclaimed object of an array the ledger keeps refuses the plan.
Plan(p) ==
    /\ At(p, "plan")
    /\ IF \E x \in Unclaimed(p) : x[1] = "data"
       THEN Go(p, "refused")
       ELSE SetJ(p, [job[p] EXCEPT !.pc = "put", !.plan = PlanOf(p)])
    /\ UNCHANGED <<target, managed, work, others, put, raced>>

-----------------------------------------------------------------------------
(* publish_plan: data in any order, then the documents one by one.         *)

\* An object is put whole, a unit without one deleted: its cells past the array's end are
\* fill.  The target may have grown into it since it was checked.
PutObject(p, x) ==
    /\ At(p, "put") /\ x \in job[p].plan.puts
    /\ target' = [target EXCEPT !.cells[x[1]] = [s \in Axis |->
                      IF s \in SlotsOf(x[1], x[2]) THEN work[p].cells[x[1]][s] ELSE @[s]]]
    /\ put' = [put EXCEPT ![p] = @ \cup {x}]
    /\ SetJ(p, [job[p] EXCEPT !.plan.puts = @ \ {x}])
    /\ raced' = raced \cup IF GrownInto(p) THEN {"data"} ELSE {}
    /\ UNCHANGED <<managed, work, others>>

\* _metadata_payload: the workspace's document, no shorter than the target's.
NextDocument(p, a) ==
    /\ At(p, "put") /\ job[p].plan.puts = {} /\ job[p].at = "none" /\ a \in job[p].plan.documents
    /\ SetJ(p, [job[p] EXCEPT !.at = a, !.pc = "merge",
                              !.doc = [length |-> Max({work[p].length[a], target.length[a]}),
                                       marks |-> work[p].marks[a]]])
    /\ UNCHANGED <<target, managed, work, others, put, raced>>

\* _merge_promoted_document: the longer extent, the target's attributes and the new ones.
Merged(doc, current) ==
    [length |-> Max({doc.length, current.length}), marks |-> doc.marks \cup current.marks]

\* update_document reads the target's document under a lock of this process ...
ReadCurrent(p) ==
    /\ At(p, "merge")
    /\ SetJ(p, [job[p] EXCEPT !.pc = "publish", !.current = Doc(target, job[p].at),
                              !.doc = Merged(@, Doc(target, job[p].at))])
    /\ UNCHANGED <<target, managed, work, others, put, raced>>

\* ... and puts the merged one if it differs; another process may have changed it since.
PutDocument(p) ==
    /\ At(p, "publish")
    /\ LET a == job[p].at
       IN /\ target' = IF job[p].doc = job[p].current THEN target
                       ELSE [target EXCEPT !.length[a] = job[p].doc.length,
                                           !.marks[a] = job[p].doc.marks]
          /\ raced' = raced \cup IF Doc(target, a) # job[p].current THEN {a} ELSE {}
          /\ SetJ(p, [job[p] EXCEPT !.pc = "put", !.at = "none", !.plan.documents = @ \ {a},
                                    !.doc = NoDoc, !.current = NoDoc])
    /\ UNCHANGED <<managed, work, others, put>>

Published(p) ==
    /\ At(p, "put") /\ job[p].plan = NoPlan /\ Go(p, "done")
    /\ UNCHANGED <<target, managed, work, others, put, raced>>

\* An operation fails, or the run dies: what is not done stays undone.
PromotionFails(p) ==
    /\ job[p].pc \in {"put", "merge", "publish"}
    /\ SetJ(p, [job[p] EXCEPT !.pc = "failed", !.at = "none", !.plan = NoPlan,
                              !.doc = NoDoc, !.current = NoDoc])
    /\ UNCHANGED <<target, managed, work, others, put, raced>>

-----------------------------------------------------------------------------
(* Other processes.                                                        *)

\* A direct run makes the arrays longer and writes the slot it has gained.
OtherGrows ==
    /\ ~managed /\ "growth" \notin others /\ target.length["data"] \in 1..(Slots - 1)
    /\ target' = [target EXCEPT !.length = [a \in Arrays |-> @["data"] + 1],
                                !.cells = [a \in Arrays |-> [@[a] EXCEPT
                                              ![target.length["data"]] = "new"]]]
    /\ others' = others \cup {"growth"}
    /\ UNCHANGED <<managed, work, job, put, raced>>

\* An attribute is added to the target's array.
OtherMarks ==
    /\ "mark" \notin others /\ target.length["data"] > 0
    /\ target' = [target EXCEPT !.marks["data"] = {"mark"}]
    /\ others' = others \cup {"mark"}
    /\ UNCHANGED <<managed, work, job, put, raced>>

-----------------------------------------------------------------------------

Seeding(p) == SetUp(p) \/ (\E a \in Arrays : SeedDocument(p, a)) \/ SeedCoordinate(p) \/ Seeded(p)
Writing(p) ==
    \/ \E s \in Axis : WriteFails(p, s) \/ \E value \in {p, "fill"} : WriteSlot(p, s, value)
    \/ Verify(p)
Planning(p) == Prove(p) \/ Plan(p)
Publishing(p) ==
    \/ \E x \in job[p].plan.puts : PutObject(p, x)
    \/ (\E a \in Arrays : NextDocument(p, a)) \/ ReadCurrent(p) \/ PutDocument(p)
    \/ Published(p) \/ PromotionFails(p)

PromotionNext ==
    \/ \E p \in Runs : Seeding(p) \/ Writing(p) \/ Planning(p) \/ Publishing(p)
    \/ OtherGrows \/ OtherMarks

-----------------------------------------------------------------------------
(* What promotion promises.  The coordinate of an unmanaged product is     *)
(* copied whole and left out where another process writes it.              *)

Kept(a) == a = "data" \/ managed

\* A run changes a cell of the target only to the value it wrote there itself: it never
\* reverts what another run or the engine stored, through a stale seed or a padded unit.
OwnCellsOnly ==
    \A p \in Runs : put'[p] # put[p] =>
        \A a \in Arrays, s \in Axis :
            Kept(a) /\ target'.cells[a][s] # target.cells[a][s] =>
                a = "data" /\ (s \in job[p].written \/ "data" \in raced')

\* No array gets shorter and no marker is lost, whoever promotes.
NothingShrinks ==
    \A a \in Arrays : a \notin raced' =>
        target.length[a] <= target'.length[a] /\ target.marks[a] \subseteq target'.marks[a]

\* A run whose promotion returned is in the target: its values where nobody has written
\* since, fill where it wrote fill, within the length of the array.
PublishedIsThere ==
    \A p \in Runs : At(p, "done") =>
        \A s \in job[p].written :
            /\ \/ target.cells["data"][s] \in {work[p].cells["data"][s], "new"}
               \/ \E q \in Runs \ {p} : <<"data", s \div DataUnit>> \in put[q]
            /\ "data" \notin raced => s < target.length["data"]

\* A refused run has left the target alone.
RefusedIsUntouched == \A p \in Runs : At(p, "refused") => put[p] = {}

\* The target grows by a promotion only once the data of the run is there.
DataBeforeLength ==
    \A p \in Runs : At(p, "publish") =>
        \A s \in job[p].written : <<"data", s \div DataUnit>> \in put[p]

PromotionInvariant == PublishedIsThere /\ RefusedIsUntouched /\ DataBeforeLength
PromotionStep == OwnCellsOnly /\ NothingShrinks

\* The promise of staged promotion (publish_plan, _metadata_payload, staged_promotion_units).
PromotionIsSafe == []PromotionInvariant /\ [][PromotionStep]_pvars
=============================================================================
