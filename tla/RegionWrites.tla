---------------------------- MODULE RegionWrites ----------------------------
(***************************************************************************)
(* Batches that write regions of one array (IndexedRegionStrategy,         *)
(* RegionZarrWriter, guarded_write, _unit_locks): a run whose worker       *)
(* threads write at the same time into an array that grows, or pods, each  *)
(* a process with a window of slots of its own.                            *)
(*                                                                         *)
(* The array is stored in units of StoredUnit slots by one row; a write of *)
(* one slot reads its unit and writes it back.  Threads of a process are   *)
(* kept apart by unit locks, which no other process sees; slots by claims; *)
(* pods by windows that own whole units.  The static array is written once *)
(* and then carries a marker.                                              *)
(***************************************************************************)
EXTENDS Integers, FiniteSets, FiniteSetsExt

CONSTANTS
    Processes,    \* pods, or the one process of a run
    WorkersOf,    \* the worker threads of each process
    Slots,        \* number of slots of the axis
    Rows,         \* rows of a slot, one region write each
    StoredUnit,   \* slots of a stored unit
    DeclaredUnit, \* slots of a unit as the schema declares it
    Plans,        \* windows handed to the pods: process to <<first, end>>, disjoint
    SlotSets,     \* slots a batch may write
    Concurrency,  \* zarr_region_write_concurrency
    MaxBatches    \* batches of one worker

VARIABLES
    window,     \* window of each process, <<>> for a run that grows the array
    suppress,   \* suppress_static_emission_for_non_owner
    length,     \* length of the array's time axis
    cells,      \* what each slot and row holds
    static,     \* the static array: value, and whether it carries the marker
    slotClaim,  \* claim of each slot
    locks,      \* locks held: process and unit, or the whole static array
    worker,     \* each worker: place, slots left, slot, write tasks
    image,      \* the unit a write task read
    landed,     \* history: writer whose write of a cell returned last
    covered,    \* coverage recorded for successful batches
    batches     \* batches begun by each worker

gvars == <<window, suppress, length, cells, static, slotClaim, locks, worker, image, landed, covered, batches>>

Workers == UNION {WorkersOf[p] : p \in Processes}
ProcessOf(t) == CHOOSE p \in Processes : t \in WorkersOf[p]
Window(t) == window[ProcessOf(t)]
InWindow(t) == Window(t) # <<>>
Axis == 0..(Slots - 1)
UnitOf(slot, row) == <<slot \div StoredUnit, row>>
SlotsOfUnit(slot) == {s \in Axis : s \div StoredUnit = slot \div StoredUnit}
Statics == {"a", "b"}
NoTasks == [row \in Rows |-> "none"]
Resting == [pc |-> "idle", todo |-> {}, done |-> {}, slot |-> 0, task |-> NoTasks, failing |-> FALSE]

\* A product is written by one run that grows it, or by pods with disjoint windows in
\* arrays that setup has created whole.
RegionsInit ==
    /\ suppress \in BOOLEAN
    /\ \/ \E p \in Processes : window = [q \in {p} |-> <<>>] /\ length = 0 /\ ~suppress
       \/ window \in Plans /\ length = Slots
    /\ cells = [c \in Axis \X Rows |-> "fill"] /\ static = [value |-> "fill", marked |-> FALSE]
    /\ slotClaim = [s \in Axis |-> "none"] /\ locks = {}
    /\ worker = [t \in Workers |-> Resting]
    /\ image = [t \in Workers |-> [row \in Rows |-> <<>>]]
    /\ landed = cells /\ covered = {} /\ batches = [t \in Workers |-> 0]

Active(t) == ProcessOf(t) \in DOMAIN window
At(t, l) == worker[t].pc = l
SetW(t, r) == worker' = [worker EXCEPT ![t] = r]
Go(t, l) == SetW(t, [worker[t] EXCEPT !.pc = l])

\* Mutant: the units the schema declares are compared instead of the stored ones.
OwnsDeclaredUnits(w) ==
    \A s \in w[1]..(w[2] - 1) : \A u \in Axis :
        u \div DeclaredUnit = s \div DeclaredUnit => u \in w[1]..(w[2] - 1)

\* require_window_owns_stored_units: no stored unit straddles the window.
OwnsUnits(w) == \A s \in w[1]..(w[2] - 1) : SlotsOfUnit(s) \subseteq w[1]..(w[2] - 1)

\* The owner of the static arrays is the pod whose window starts first.
StaticOwner(t) == Window(t)[1] = Min({window[p][1] : p \in DOMAIN window})

-----------------------------------------------------------------------------
(* A batch.                                                                *)

\* _write_groups: in a window, intents outside it, and windows that split stored units,
\* are refused; a run grows the array first.
Begin(t, slots) ==
    /\ Active(t) /\ At(t, "idle") /\ batches[t] < MaxBatches
    /\ batches' = [batches EXCEPT ![t] = @ + 1]
    /\ InWindow(t) => slots \subseteq Window(t)[1]..(Window(t)[2] - 1) /\ OwnsUnits(Window(t))
    /\ SetW(t, [Resting EXCEPT !.pc = IF InWindow(t) THEN "static" ELSE "grow", !.todo = slots])
    /\ UNCHANGED <<window, suppress, length, cells, static, slotClaim, locks, image, landed, covered>>

\* create_or_open_array under the node's lock: the length read there never shrinks.
Grow(t) ==
    /\ At(t, "grow") /\ length' = Max({length, Max(worker[t].todo) + 1})
    /\ Go(t, "static")
    /\ UNCHANGED <<window, suppress, cells, static, slotClaim, locks, image, landed, covered, batches>>

\* _dispatch_static_intent: under the process's lock of the whole array, a marked one is
\* compared and an unmarked one written and marked.  _should_suppress_static_intent: pods
\* that do not own the static arrays may be told to leave them out.
Suppressed(t) == InWindow(t) /\ suppress /\ ~StaticOwner(t)
StaticLock(t) == <<ProcessOf(t), <<>>>>
SkipStatic(t) ==
    /\ At(t, "static") /\ Suppressed(t) /\ Go(t, "slot")
    /\ UNCHANGED <<window, suppress, length, cells, static, slotClaim, locks, image, landed, covered, batches>>

CompareStatic(t, value) ==
    /\ At(t, "static") /\ ~Suppressed(t) /\ StaticLock(t) \notin locks /\ static.marked
    /\ IF static.value = value THEN Go(t, "slot") ELSE SetW(t, Resting)
    /\ UNCHANGED <<window, suppress, length, cells, static, slotClaim, locks, image, landed, covered, batches>>

StartStatic(t, value) ==
    /\ At(t, "static") /\ ~Suppressed(t) /\ StaticLock(t) \notin locks /\ ~static.marked
    /\ locks' = locks \cup {StaticLock(t)} /\ static' = [static EXCEPT !.value = "torn"]
    /\ Go(t, value)
    /\ UNCHANGED <<window, suppress, length, cells, slotClaim, image, landed, covered, batches>>

WriteStatic(t) ==
    /\ worker[t].pc \in Statics /\ static' = [static EXCEPT !.value = worker[t].pc]
    /\ Go(t, "mark")
    /\ UNCHANGED <<window, suppress, length, cells, slotClaim, locks, image, landed, covered, batches>>

MarkStatic(t) ==
    /\ At(t, "mark") /\ static' = [static EXCEPT !.marked = TRUE]
    /\ locks' = locks \ {StaticLock(t)} /\ Go(t, "slot")
    /\ UNCHANGED <<window, suppress, length, cells, slotClaim, image, landed, covered, batches>>

\* The next slot is claimed; a conflict fails the batch.  Its writes go to the pool.
ClaimSlot(t, s) ==
    /\ At(t, "slot") /\ s \in worker[t].todo
    /\ IF slotClaim[s] = "none"
       THEN /\ slotClaim' = [slotClaim EXCEPT ![s] = t]
            /\ SetW(t, [worker[t] EXCEPT !.pc = "write", !.slot = s, !.task = NoTasks])
       ELSE SetW(t, Resting) /\ UNCHANGED slotClaim
    /\ UNCHANGED <<window, suppress, length, cells, static, locks, image, landed, covered, batches>>

\* _wait_for_region_capacity bounds the tasks that are submitted and not done.
SetTask(t, row, s) == SetW(t, [worker[t] EXCEPT !.task[row] = s])
Pending(t) == {row \in Rows : worker[t].task[row] \in {"queued", "busy"}}
Submit(t, row) ==
    /\ At(t, "write") /\ ~worker[t].failing /\ worker[t].task[row] = "none"
    /\ Cardinality(Pending(t)) < Concurrency /\ SetTask(t, row, "queued")
    /\ UNCHANGED <<window, suppress, length, cells, static, slotClaim, locks, image, landed, covered, batches>>

\* guarded_write: the unit's lock is taken and the array opened again; a unit of more
\* than the slot is read.
UnitLock(t, row) == <<ProcessOf(t), UnitOf(worker[t].slot, row)>>
StartTask(t, row) ==
    /\ worker[t].task[row] = "queued" /\ UnitLock(t, row) \notin locks
    /\ worker[t].slot < length
    /\ locks' = locks \cup {UnitLock(t, row)} /\ SetTask(t, row, "busy")
    /\ image' = [image EXCEPT ![t][row] = [s \in SlotsOfUnit(worker[t].slot) |-> cells[s, row]]]
    /\ UNCHANGED <<window, suppress, length, cells, static, slotClaim, landed, covered, batches>>

\* The unit is written back, with the slot replaced.
EndTask(t, row) ==
    /\ worker[t].task[row] = "busy"
    /\ LET slot == worker[t].slot
       IN  /\ cells' = [c \in DOMAIN cells |->
                          IF c = <<slot, row>> THEN t
                          ELSE IF c[2] = row /\ c[1] \in SlotsOfUnit(slot) THEN image[t][row][c[1]]
                          ELSE cells[c]]
           /\ landed' = [landed EXCEPT ![<<slot, row>>] = t]
    /\ image' = [image EXCEPT ![t][row] = <<>>]
    /\ locks' = locks \ {UnitLock(t, row)} /\ SetTask(t, row, "done")
    /\ UNCHANGED <<window, suppress, length, static, slotClaim, covered, batches>>

\* A task raises: tasks that have not started are cancelled.
Cancelled(t, row) ==
    [r \in Rows |-> IF r = row \/ worker[t].task[r] = "queued" THEN "none" ELSE worker[t].task[r]]
FailTask(t, row) ==
    /\ worker[t].task[row] = "busy"
    /\ SetW(t, [worker[t] EXCEPT !.failing = TRUE, !.task = Cancelled(t, row)])
    /\ image' = [image EXCEPT ![t][row] = <<>>] /\ locks' = locks \ {UnitLock(t, row)}
    /\ UNCHANGED <<window, suppress, length, cells, static, slotClaim, landed, covered, batches>>

\* The slot ends when no task is under way: its claim is released, and a batch that
\* failed stops.  The last slot of a good batch hands its coverage over.
EndSlot(t) ==
    LET w == worker[t]
        left == w.todo \ {w.slot}
        done == w.done \cup {w.slot}
    IN  /\ At(t, "write") /\ Pending(t) = {}
        /\ w.failing \/ \A row \in Rows : w.task[row] = "done"
        /\ slotClaim' = [slotClaim EXCEPT ![w.slot] = "none"]
        /\ SetW(t, IF w.failing \/ left = {} THEN Resting
                   ELSE [w EXCEPT !.pc = "slot", !.todo = left, !.done = done])
        /\ covered' = IF w.failing \/ left # {} THEN covered ELSE covered \cup done
        /\ UNCHANGED <<window, suppress, length, cells, static, locks, image, landed, batches>>

\* The process dies: its locks go with it, its claims are cleared later.
Die(p) ==
    /\ p \in DOMAIN window /\ \E t \in WorkersOf[p] : ~At(t, "idle")
    /\ worker' = [t \in Workers |-> IF t \in WorkersOf[p] THEN Resting ELSE worker[t]]
    /\ image' = [t \in Workers |-> IF t \in WorkersOf[p] THEN [r \in Rows |-> <<>>] ELSE image[t]]
    /\ locks' = {l \in locks : l[1] # p}
    /\ UNCHANGED <<window, suppress, length, cells, static, slotClaim, landed, covered, batches>>

ClearSlotClaim(s) ==
    /\ slotClaim[s] # "none" /\ At(slotClaim[s], "idle")
    /\ slotClaim' = [slotClaim EXCEPT ![s] = "none"]
    /\ UNCHANGED <<window, suppress, length, cells, static, locks, worker, image, landed, covered, batches>>

RegionsNext ==
    \/ \E t \in Workers :
        \/ \E slots \in SlotSets : Begin(t, slots)
        \/ Grow(t) \/ SkipStatic(t)
        \/ \E value \in Statics : CompareStatic(t, value) \/ StartStatic(t, value)
        \/ WriteStatic(t) \/ MarkStatic(t)
        \/ \E s \in Axis : ClaimSlot(t, s)
        \/ \E row \in Rows : Submit(t, row) \/ StartTask(t, row) \/ EndTask(t, row) \/ FailTask(t, row)
        \/ EndSlot(t)
    \/ \E p \in Processes : Die(p)
    \/ \E s \in Axis : ClearSlotClaim(s)

-----------------------------------------------------------------------------
(* Properties.                                                             *)

\* Type correctness of the array, claims and workers.
RegionsTypeOK ==
    /\ length \in 0..Slots /\ covered \subseteq Axis
    /\ \A s \in Axis : slotClaim[s] \in Workers \cup {"none"}
    /\ \A t \in Workers : worker[t].todo \subseteq Axis

\* A cell holds what was written to it last: no read and write back of the unit it
\* shares with other slots loses it, between threads of a process and between pods.
NoCellIsLost == \A c \in DOMAIN cells : cells[c] = landed[c]

\* A write is under way only while its worker holds the claim of its slot, and below the
\* length of the array: a failing batch waits for its other writes before it lets go.
WritesAreClaimed ==
    \A t \in Workers, row \in Rows : worker[t].task[row] = "busy" =>
        slotClaim[worker[t].slot] = t /\ worker[t].slot < length

\* Coverage that was recorded is of slots every row of which has been written.
CoverageIsLanded == \A s \in covered, row \in Rows : cells[s, row] # "fill"

\* A static array that carries its marker holds a whole value and never changes: among
\* the batches of a run, and among pods of which one emits it.
OneEmitter == suppress \/ Cardinality(DOMAIN window) = 1
MarkedIsWhole == static.marked /\ OneEmitter => static.value \in Statics
StaticIsWriteOnce == static.marked /\ OneEmitter => static' = static

RegionsInvariant ==
    /\ RegionsTypeOK
    /\ NoCellIsLost
    /\ WritesAreClaimed
    /\ CoverageIsLanded
    /\ MarkedIsWhole

\* What the region writer promises.
RegionsAreKept == []RegionsInvariant /\ [][StaticIsWriteOnce]_gvars

=============================================================================
