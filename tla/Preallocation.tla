---------------------------- MODULE Preallocation ----------------------------
(***************************************************************************)
(* Preallocation of a product and its time coordinate (preallocate.py,     *)
(* coord_materialization.py, coord_rematerialization.py, and               *)
(* claim_coord_materialization_window in manager.py), with the ingests     *)
(* that write or verify timestamps (write_timestamp in region_writer.py).  *)
(* A preallocation claims its window, looks for live runs on its           *)
(* coordinate chunks, registers, runs the refusals that must come before   *)
(* any write, negotiates the index, and sets the group up under the        *)
(* group's claim.  A slot is written by rewriting its stored chunk; locks  *)
(* on the array exclude the threads of one process only.                   *)
(*                                                                         *)
(* One group.  The negotiation of the index is one step here (IndexRecord  *)
(* shows why), and engine-owned arrays are in EngineOwned.  An ingest runs *)
(* over whole coordinate chunks, as validate_chunk_alignment demands.      *)
(***************************************************************************)
EXTENDS Integers, FiniteSets

CONSTANTS
    Preallocators,  \* preallocating processes
    Ingests,        \* ingesting processes
    Length,         \* slots of the group
    CoordChunk,     \* slots per chunk of the coordinate
    Axis,           \* Axis[i]: policy (grid, observed or calendar) and mixed, by index
    Jobs,           \* what a preallocation may be asked: index, window, input values
    Loads           \* what an ingest may be asked: index, window, values

VARIABLES
    index,     \* the recorded index
    coord,     \* the time coordinate: made, values, encoded units, markers, identity stamp
    runState,  \* status of the run of each process
    winClaim,  \* holder of the coordinate materialization claim
    setup,     \* holder of the group's setup claim
    apc,       \* where each process is
    task,      \* its request
    copy,      \* the values it has read
    sees,      \* history: live runs that a preallocation did not see when it registered
    lostSlots  \* history: marked slots whose value was changed

avars == <<index, coord, runState, winClaim, setup, apc, task, copy, sees, lostSlots>>

Procs == Preallocators \cup Ingests
CoordSlots == 0 .. Length - 1
NoIndex == "none"
NaT == "NaT"
NoTask == [index |-> NoIndex, from |-> 0, to |-> 0, values |-> <<>>]
Window(p) == task[p].from .. task[p].to - 1
ChunksOf(slots) == {t \div CoordChunk : t \in slots}
Whole(slots) == {t \in CoordSlots : t \div CoordChunk \in ChunksOf(slots)}
Policy(p) == Axis[task[p].index].policy

PreallocationInit ==
    /\ index = NoIndex
    /\ coord = [made |-> FALSE, values |-> [t \in CoordSlots |-> NaT], units |-> NoIndex,
                preallocated |-> FALSE, managed |-> FALSE, stamp |-> NoIndex]
    /\ runState = [p \in Procs |-> "none"] /\ winClaim = NoIndex /\ setup = NoIndex
    /\ apc = [p \in Procs |-> "idle"] /\ task = [p \in Procs |-> NoTask]
    /\ copy = [p \in Procs |-> coord.values] /\ sees = {} /\ lostSlots = {}

GoTo(p, at) == apc' = [apc EXCEPT ![p] = at]
SetRun(p, how) == runState' = [runState EXCEPT ![p] = how]
Live == {p \in Procs : runState[p] = "running"}

\* A marked coordinate may never change a value it has.
Marked == coord.preallocated \/ coord.managed
Changed(new) == {t \in CoordSlots : Marked /\ coord.values[t] \notin {NaT, new[t]}}

\* p stores want in slots; the rest of their chunks is written back as p read it.
WriteSlots(p, slots, want) ==
    LET new == [t \in CoordSlots |-> IF t \in slots THEN want[t]
                                     ELSE IF t \in Whole(slots) THEN copy[p][t]
                                     ELSE coord.values[t]]
    IN  coord' = [coord EXCEPT !.made = TRUE, !.values = new] /\ lostSlots' = lostSlots \cup Changed(new)

\* The run ends: its terminal state is recorded, then its claims are released.
EndRun(p, how) ==
    /\ GoTo(p, "done") /\ SetRun(p, how)
    /\ winClaim' = IF winClaim = p THEN NoIndex ELSE winClaim
    /\ setup' = IF setup = p THEN NoIndex ELSE setup

-----------------------------------------------------------------------------
(* Admission: claim_coord_materialization_window.                          *)

Request(p, j) ==
    /\ p \in Preallocators /\ apc[p] = "idle" /\ task' = [task EXCEPT ![p] = j] /\ GoTo(p, "window")
    /\ UNCHANGED <<index, coord, runState, winClaim, setup, copy, sees, lostSlots>>

ClaimWindow(p) ==
    /\ apc[p] = "window"
    /\ \/ winClaim = NoIndex /\ winClaim' = p /\ GoTo(p, "peers")
       \/ winClaim # NoIndex /\ GoTo(p, "done") /\ UNCHANGED winClaim
    /\ UNCHANGED <<index, coord, runState, setup, task, copy, sees, lostSlots>>

\* Live runs over the whole product, and those on the same coordinate chunks,
\* refuse the window; the run was not registered then and records nothing.
InTheWay(p, q) ==
    \/ Window(q) = CoordSlots /\ q \in Ingests
    \/ ChunksOf(Window(p)) \cap ChunksOf(Window(q)) # {}
ListPeers(p) ==
    /\ apc[p] = "peers"
    /\ \/ /\ \E q \in Live \ {p} : InTheWay(p, q)
          /\ GoTo(p, "done") /\ winClaim' = NoIndex
       \/ /\ ~\E q \in Live \ {p} : InTheWay(p, q)
          /\ GoTo(p, "register") /\ UNCHANGED winClaim
    /\ UNCHANGED <<index, coord, runState, setup, task, copy, sees, lostSlots>>

Register(p) ==
    /\ apc[p] = "register" /\ SetRun(p, "running") /\ GoTo(p, "preflight")
    /\ sees' = sees \cup {q \in Live : InTheWay(p, q)}
    /\ UNCHANGED <<index, coord, winClaim, setup, task, copy, lostSlots>>

-----------------------------------------------------------------------------
(* Set-up.                                                                 *)

\* _coord_is_established.
Established == Marked \/ coord.stamp # NoIndex \/ \E t \in CoordSlots : coord.values[t] # NaT

\* _coordinate_relabel_conflicts: where encoded time is stored or declared, an
\* established coordinate keeps its units and its identity.
UnitsOf(i) == IF Axis[i].policy = "calendar" THEN i ELSE NoIndex
Relabels(i) ==
    /\ coord.units # NoIndex \/ UnitsOf(i) # NoIndex
    /\ Established
    /\ coord.units # UnitsOf(i) \/ coord.stamp \notin {NoIndex, i}

\* Another value in a slot of the window, or in any slot of an encoded coordinate.
Diverged(values, slots, want) == \E t \in slots : values[t] # NaT /\ want[t] # NaT /\ values[t] # want[t]
Nominal(i) == [t \in CoordSlots |-> i]

\* _preflight_coordinates: a relabel, and the divergence of an encoded coordinate,
\* are refused before the index is written.
PreflightRefuses(i) ==
    /\ coord.made
    /\ \/ Relabels(i)
       \/ /\ Axis[i].policy = "calendar"
          /\ coord.managed \/ Diverged(coord.values, CoordSlots, Nominal(i))

Preflight(p) ==
    /\ apc[p] = "preflight"
    /\ \/ PreflightRefuses(task[p].index) /\ EndRun(p, "failed")
       \/ /\ ~PreflightRefuses(task[p].index)
          /\ GoTo(p, "index") /\ UNCHANGED <<runState, winClaim, setup>>
    /\ UNCHANGED <<index, coord, task, copy, sees, lostSlots>>

\* A declaration with unbounded groups records no index.
Negotiate(p) ==
    /\ apc[p] = "index"
    /\ \/ /\ Axis[task[p].index].mixed
          /\ GoTo(p, "setup") /\ UNCHANGED <<index, runState, winClaim, setup>>
       \/ /\ ~Axis[task[p].index].mixed /\ index \in {NoIndex, task[p].index}
          /\ index' = task[p].index /\ GoTo(p, "setup") /\ UNCHANGED <<runState, winClaim, setup>>
       \/ /\ ~Axis[task[p].index].mixed /\ index \notin {NoIndex, task[p].index}
          /\ EndRun(p, "failed") /\ UNCHANGED index
    /\ UNCHANGED <<coord, task, copy, sees, lostSlots>>

\* The group is set up under its claim (_group_setup_authority).
SetUp(p) ==
    /\ apc[p] = "setup"
    /\ \/ setup = NoIndex /\ setup' = p /\ GoTo(p, "coord") /\ UNCHANGED <<runState, winClaim>>
       \/ setup # NoIndex /\ EndRun(p, "failed")
    /\ UNCHANGED <<index, coord, task, copy, sees, lostSlots>>

-----------------------------------------------------------------------------
(* The coordinate: materialize_regular_coord_array.                        *)

HasInput(p) == \E t \in Window(p) : task[p].values[t] # NaT

\* Mutant: a grid takes over a coordinate that engines manage.
ExistingRefusesObserved(p) ==
    \/ coord.preallocated /\ coord.managed
    \/ Relabels(task[p].index)
    \/ Policy(p) = "observed" /\ HasInput(p) /\ (coord.preallocated \/ ~coord.managed)

\* The refusals of an existing coordinate.
ExistingRefuses(p) ==
    \/ coord.preallocated /\ coord.managed
    \/ Relabels(task[p].index)
    \/ CASE Policy(p) \in {"grid", "calendar"} -> coord.managed
         [] Policy(p) = "observed" /\ HasInput(p) -> coord.preallocated \/ ~coord.managed
         [] OTHER -> ~coord.managed

\* A missing coordinate is created: an observed one is marked before it has values.
CreateCoord(p) ==
    /\ apc[p] = "coord" /\ ~coord.made
    /\ coord' = [coord EXCEPT !.made = TRUE, !.units = UnitsOf(task[p].index)]
    /\ GoTo(p, IF Policy(p) = "observed" THEN "mark" ELSE "blank")
    /\ UNCHANGED <<index, runState, winClaim, setup, task, copy, sees, lostSlots>>

OpenCoord(p) ==
    /\ apc[p] = "coord" /\ coord.made
    /\ \/ ExistingRefuses(p) /\ EndRun(p, "failed") /\ UNCHANGED coord
       \/ /\ ~ExistingRefuses(p)
          /\ coord' = [coord EXCEPT !.units = UnitsOf(task[p].index)]
          /\ GoTo(p, IF Policy(p) = "observed" /\ ~HasInput(p) THEN "end" ELSE "read")
          /\ UNCHANGED <<runState, winClaim, setup>>
    /\ UNCHANGED <<index, task, copy, sees, lostSlots>>

\* stamp_coord_managed_marker.
MarkManaged(p) ==
    /\ apc[p] = "mark" /\ coord' = [coord EXCEPT !.managed = TRUE]
    /\ GoTo(p, IF HasInput(p) THEN "read" ELSE "stamp")
    /\ UNCHANGED <<index, runState, winClaim, setup, task, copy, sees, lostSlots>>

\* What the window is to hold, and over which slots: calendar coordinates are
\* written whole, whatever the window.
Wanted(p) == IF Policy(p) = "observed" THEN task[p].values ELSE Nominal(task[p].index)
Target(p) == IF Policy(p) = "calendar" THEN CoordSlots ELSE Window(p)

\* The stored values are read and, unless p has just made a grid, compared:
\* a slot that has another value refuses.
ReadSlots(p) ==
    /\ apc[p] \in {"read", "blank"}
    /\ LET refused == apc[p] = "read" /\ Diverged(coord.values, Target(p), Wanted(p))
       IN  \/ refused /\ EndRun(p, "failed") /\ UNCHANGED copy
           \/ /\ ~refused /\ copy' = [copy EXCEPT ![p] = coord.values]
              /\ GoTo(p, IF apc[p] = "read" THEN "fill" ELSE "write")
              /\ UNCHANGED <<runState, winClaim, setup>>
    /\ UNCHANGED <<index, coord, task, sees, lostSlots>>

\* Missing slots of an existing coordinate get their value; a grid writes its whole
\* window back.  A new grid is written as it is to be.
FillSlots(p) ==
    /\ apc[p] \in {"fill", "write"}
    /\ LET wanted == {t \in Target(p) : Wanted(p)[t] # NaT}
           missing == {t \in wanted : copy[p][t] = NaT \/ apc[p] = "write"}
           slots == IF Policy(p) = "observed" THEN missing ELSE wanted
           filled == [t \in CoordSlots |-> IF t \in missing THEN Wanted(p)[t] ELSE copy[p][t]]
       IN  IF missing = {} THEN UNCHANGED <<coord, lostSlots>> ELSE WriteSlots(p, slots, filled)
    /\ GoTo(p, "stamp")
    /\ UNCHANGED <<index, runState, winClaim, setup, task, copy, sees>>

\* The seal comes last: a coordinate that was to be filled is marked as such only
\* once it is, and takes the identity of its index.
StampCoord(p) ==
    /\ apc[p] = "stamp"
    /\ coord' = [coord EXCEPT !.preallocated = @ \/ Policy(p) # "observed", !.stamp = task[p].index]
    /\ GoTo(p, "end")
    /\ UNCHANGED <<index, runState, winClaim, setup, task, copy, sees, lostSlots>>

\* The run is recorded complete once every group is set up.
CompleteRun(p) ==
    /\ apc[p] = "end" /\ EndRun(p, "complete")
    /\ UNCHANGED <<index, coord, task, copy, sees, lostSlots>>

-----------------------------------------------------------------------------
(* Ingest.                                                                 *)

\* The guard and the start of an ingest, in one step (ResumeGuard has the gap
\* between them).  The index is negotiated, or the stamp of a mixed declaration
\* compared; a calendar coordinate has to be there.
StartIngest(q, l) ==
    /\ q \in Ingests /\ apc[q] = "idle"
    /\ LET slots == l.from .. l.to - 1
       IN  ~\E p \in Live : Window(p) \cap slots # {} \/ (p \in Preallocators /\ slots = CoordSlots)
    /\ Axis[l.index].policy = "calendar" => coord.preallocated
    /\ \/ Axis[l.index].mixed /\ coord.stamp \in {NoIndex, l.index} /\ UNCHANGED index
       \/ ~Axis[l.index].mixed /\ index \in {NoIndex, l.index} /\ index' = l.index
    /\ task' = [task EXCEPT ![q] = l] /\ GoTo(q, "look") /\ SetRun(q, "running")
    /\ UNCHANGED <<coord, winClaim, setup, copy, sees, lostSlots>>

\* write_timestamp: a marked or encoded coordinate is only compared, one without a
\* marker is created, or grown, and written.
Verified(q) ==
    \A t \in Window(q) : /\ coord.values[t] = Wanted(q)[t]
                         /\ coord.managed => coord.values[t] # NaT
Look(q) ==
    /\ apc[q] = "look"
    /\ \/ /\ Marked \/ coord.units # NoIndex
          /\ EndRun(q, IF Marked /\ Verified(q) THEN "complete" ELSE "failed")
       \/ /\ ~Marked /\ coord.units = NoIndex
          /\ GoTo(q, "chunk") /\ UNCHANGED <<runState, winClaim, setup>>
    /\ UNCHANGED <<index, coord, task, copy, sees, lostSlots>>

ReadChunk(q) ==
    /\ apc[q] = "chunk" /\ copy' = [copy EXCEPT ![q] = coord.values] /\ GoTo(q, "timestamp")
    /\ UNCHANGED <<index, coord, runState, winClaim, setup, task, sees, lostSlots>>

WriteTimestamp(q) ==
    /\ apc[q] = "timestamp"
    /\ WriteSlots(q, {t \in Window(q) : Wanted(q)[t] # NaT}, Wanted(q))
    /\ EndRun(q, "complete")
    /\ UNCHANGED <<index, task, copy, sees>>

-----------------------------------------------------------------------------
CrashRun(p) ==
    /\ apc[p] \notin {"idle", "done", "dead"} /\ GoTo(p, "dead")
    /\ UNCHANGED <<index, coord, runState, winClaim, setup, task, copy, sees, lostSlots>>

\* The operator abandons the run of a dead process, or clears its claim when it has
\* none.
AbandonDead(p) ==
    /\ apc[p] = "dead" /\ GoTo(p, "done")
    /\ SetRun(p, IF runState[p] = "running" THEN "abandoned" ELSE runState[p])
    /\ winClaim' = (IF winClaim = p THEN NoIndex ELSE winClaim)
    /\ setup' = (IF setup = p THEN NoIndex ELSE setup)
    /\ UNCHANGED <<index, coord, task, copy, sees, lostSlots>>

PreallocationNext ==
    \/ \E p \in Preallocators, j \in Jobs : Request(p, j)
    \/ \E p \in Preallocators : \/ ClaimWindow(p) \/ ListPeers(p) \/ Register(p) \/ Preflight(p)
                                \/ Negotiate(p) \/ SetUp(p) \/ CreateCoord(p) \/ OpenCoord(p)
                                \/ MarkManaged(p) \/ ReadSlots(p) \/ FillSlots(p) \/ StampCoord(p)
                                \/ CompleteRun(p)
    \/ \E q \in Ingests, l \in Loads : StartIngest(q, l)
    \/ \E q \in Ingests : Look(q) \/ ReadChunk(q) \/ WriteTimestamp(q)
    \/ \E p \in Procs : CrashRun(p) \/ AbandonDead(p)

-----------------------------------------------------------------------------
\* Type correctness of the product, the coordinate and the processes.
PreallocationTypeOK ==
    /\ index \in DOMAIN Axis \cup {NoIndex}
    /\ DOMAIN coord.values = CoordSlots
    /\ runState \in [Procs -> {"none", "running", "complete", "failed", "abandoned"}]
    /\ winClaim \in Preallocators \cup {NoIndex} /\ setup \in Preallocators \cup {NoIndex}
    /\ lostSlots \subseteq CoordSlots

\* The two lifecycles exclude each other (_coord_lifecycle.py): whatever is
\* requested, and wherever processes die, no coordinate carries both markers.
MarkersExclude == ~(coord.preallocated /\ coord.managed)

\* No run has a declaration that records no index.
AllRecorded == \A p \in Procs : ~Axis[task[p].index].mixed

\* A value under a marker never changes: concurrent materializations and ingests
\* that rewrite chunks of one coordinate do not undo each other, as long as no run
\* starts between a preallocation's look at its peers and its own registration, and
\* every declaration records its index.
SettledSlotsStay == sees = {} /\ AllRecorded => lostSlots = {}

\* One coordinate has one meaning: with declarations that record their index, every
\* nominal value stored is of the recorded index, and so are units and stamp.
OneMeaning ==
    AllRecorded =>
        /\ coord.stamp \in {NoIndex, index}
        /\ coord.preallocated => \A t \in CoordSlots : coord.values[t] \in {NaT, index}

\* A preallocation is recorded complete only when its window holds the values it was
\* asked for, under the marker of its lifecycle.
CompleteMeansMaterialized ==
    \A p \in Preallocators :
        runState[p] = "complete" /\ apc[p] = "done" /\ sees = {} /\ AllRecorded =>
            /\ \A t \in Target(p) : Wanted(p)[t] # NaT => coord.values[t] = Wanted(p)[t]
            /\ IF Policy(p) = "observed" THEN coord.managed ELSE coord.preallocated

\* No rewrite of a shared chunk forgets a slot that has a value, marked or not.
NoSlotForgotten ==
    sees' = {} /\ AllRecorded' =>
      \A t \in CoordSlots : coord.values[t] # NaT => coord'.values[t] # NaT

PreallocationInvariant ==
    /\ PreallocationTypeOK
    /\ MarkersExclude
    /\ SettledSlotsStay
    /\ OneMeaning
    /\ CompleteMeansMaterialized

\* What preallocation promises of a product's coordinate.
CoordinateIsSettled == []PreallocationInvariant /\ [][NoSlotForgotten]_avars

=============================================================================
