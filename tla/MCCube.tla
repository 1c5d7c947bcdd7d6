------------------------------- MODULE MCCube -------------------------------
(***************************************************************************)
(* What writes the arrays of a product, checked in one run: negotiation of *)
(* the index, preallocation of the coordinate, its consolidation, values   *)
(* the engine owns, region writes, the write buffer of a slot, the plan of *)
(* slot ranges, appends, and the operations on metadata documents.  They   *)
(* share no state in the model; `part` is the one whose steps a behaviour  *)
(* takes, while the variables of the others keep their initial values.     *)
(*                                                                         *)
(* a1 and a2 are interchangeable: processes, the threads of one pod, or    *)
(* the spellings of one array.                                             *)
(***************************************************************************)
EXTENDS Integers, Sequences, TLC

CONSTANTS a1, a2

Actors == {a1, a2}
ActorSymmetry == Permutations(Actors)

VARIABLES
    part,
    \* IndexRecord
    record, mirror, legacy, idxClaim, npc, declared, seen, retries, outcome, rootCopy, begun,
    \* Preallocation
    index, coord, runState, winClaim, setup, apc, task, copy, sees, lostSlots,
    \* EngineOwned
    owned, values, written, complete, opc, source, added, settled, pending, finished,
    given, last, verdicts, ownedRuns,
    \* RegionWrites
    window, suppress, length, cells, static, slotClaim, locks, worker, image, landed,
    coverage, batches,
    \* UnitBuffer
    elides, array, open, spoiled, held, taken, units, todo, recorded, phase, wanted,
    \* SlotPlan
    pod, raced,
    \* Append
    store, holder, pc, run, call, job, cache, order, covered, tainted, left,
    \* Consolidation
    timeCoord, temp, reference, snapshot, events, commands, cmd, torn,
    \* MetadataAuthority
    docs, entries, nodeLocks, stack, active, inFlight, deferred, releasing, asked, exits,
    load, foreign

indexVars == <<record, mirror, legacy, idxClaim, npc, declared, seen, retries, outcome,
               rootCopy, begun>>
coordVars == <<index, coord, runState, winClaim, setup, apc, task, copy, sees, lostSlots>>
ownedVars == <<owned, values, written, complete, opc, source, added, settled, pending,
               finished, given, last, verdicts, ownedRuns>>
regionVars == <<window, suppress, length, cells, static, slotClaim, locks, worker, image,
                landed, coverage, batches>>
bufferVars == <<elides, array, open, spoiled, held, taken, units, todo, recorded, phase, wanted>>
planVars == <<pod, raced>>
appendVars == <<store, holder, pc, run, call, job, cache, order, covered, tainted, left>>
sealVars == <<timeCoord, temp, reference, snapshot, events, commands, cmd, torn>>
nodeVars == <<docs, entries, nodeLocks, stack, active, inFlight, deferred, releasing, asked,
              exits, load, foreign>>

vars == <<part, indexVars, coordVars, ownedVars, regionVars, bufferVars, planVars,
          appendVars, sealVars, nodeVars>>

-----------------------------------------------------------------------------
(* Index negotiation: i1 and i2 extend models of an earlier version, i3    *)
(* does not.                                                               *)

I == INSTANCE IndexRecord WITH
    Negotiators <- Actors,
    Idents <- {"i1", "i2", "i3"},
    LegacyOf <- [i1 |-> "m1", i2 |-> "m2", i3 |-> "none"],
    MaxRetries <- 1,
    MaxStarts <- 3

(* Preallocation: every policy, single and mixed declarations; windows     *)
(* that overlap, touch or share a chunk of two slots.                      *)

Policy(policy, mixed) == [policy |-> policy, mixed |-> mixed]
Asked(i, from, to, values0) == [index |-> i, from |-> from, to |-> to, values |-> values0]
\* Input values by slot: `even` in slots 0 and 2, `odd` in the others.
ByParity(even, odd) == [t \in 0 .. 3 |-> IF t % 2 = 0 THEN even ELSE odd]
NoValues == ByParity("NaT", "NaT")

P == INSTANCE Preallocation WITH
    Preallocators <- Actors,
    Ingests <- {"q1"},
    Length <- 4,
    CoordChunk <- 2,
    Axis <- [g1 |-> Policy("grid", FALSE), g2 |-> Policy("grid", FALSE),
             m1 |-> Policy("grid", TRUE), m2 |-> Policy("grid", TRUE),
             o1 |-> Policy("observed", FALSE),
             c1 |-> Policy("calendar", FALSE), c2 |-> Policy("calendar", FALSE),
             none |-> Policy("grid", FALSE)],
    Jobs <- {Asked("g1", 0, 4, NoValues), Asked("g1", 0, 3, NoValues),
             Asked("g2", 2, 4, NoValues),
             Asked("m1", 1, 2, NoValues), Asked("m2", 2, 4, NoValues),
             Asked("o1", 0, 2, ByParity("x", "NaT")), Asked("o1", 0, 3, ByParity("y", "x")),
             Asked("o1", 0, 4, NoValues),
             Asked("c1", 0, 4, NoValues), Asked("c2", 0, 2, NoValues)},
    Loads <- {Asked("g1", 0, 2, NoValues), Asked("m1", 2, 4, NoValues),
              Asked("o1", 0, 2, ByParity("x", "NaT")), Asked("o1", 0, 4, ByParity("y", "x")),
              Asked("c1", 2, 4, NoValues)}

(* Engine-owned values: three slots in two chunks, the fill value among    *)
(* the values, sources that agree, disagree and contradict themselves.     *)

E == INSTANCE EngineOwned WITH
    OwnedSlots <- {0, 1, 2},
    OwnedValues <- {"f", "a", "b"},
    Fill <- "f",
    ChunkOf <- [t \in {0, 1, 2} |-> t \div 2],
    ItemSets <- {{<<0, "a">>, <<1, "f">>}, {<<0, "a">>, <<2, "b">>}, {<<1, "a">>, <<2, "f">>},
                 {<<0, "a">>, <<1, "f">>, <<2, "b">>}, {<<0, "a">>, <<0, "b">>}},
    MaxOwnedRuns <- 3

(* Region writes: a pod of two threads and one of one thread, whose        *)
(* windows meet inside a stored unit; and a run without windows.           *)

G == INSTANCE RegionWrites WITH
    Processes <- {"p", "q"},
    WorkersOf <- [p |-> Actors, q |-> {"t3"}],
    Slots <- 3,
    Rows <- {1, 2},
    StoredUnit <- 2,
    DeclaredUnit <- 1,
    Plans <- {[p |-> <<2, 3>>, q |-> <<0, 2>>], [p |-> <<0, 1>>, q |-> <<1, 2>>]},
    SlotSets <- {{0}, {0, 1}, {1}, {2}},
    Concurrency <- 2,
    MaxBatches <- 1,
    covered <- coverage

(* Buffered writes: two stored units of two cells; pieces that fill a      *)
(* unit, part of one or parts of both, with values, the fill and bits      *)
(* that pass for it.                                                       *)

Piece(at, first, rest) == [cells |-> at, first |-> first, rest |-> rest]

U == INSTANCE UnitBuffer WITH
    Cells <- 0 .. 3,
    UnitCells <- 2,
    ChunkCells <- 2,
    Keys <- Actors,
    Pieces <- {Piece({0}, "new", "new"), Piece({1}, "new", "new"), Piece({1}, "odd", "odd"),
               Piece({0}, "fill", "fill"), Piece({0, 1}, "odd", "new"),
               Piece({0, 1}, "odd", "odd"), Piece({1, 2}, "new", "new"),
               Piece({2, 3}, "new", "odd"), Piece({0, 1, 2}, "odd", "fill")},
    MaxPieces <- 3,
    cells <- array,
    tainted <- spoiled,
    pending <- units,
    landed <- recorded

(* Plans: a group of seven slots with units of two, and one without.       *)

S == INSTANCE SlotPlan WITH
    Total <- [g |-> 7, h |-> 1],
    Unit <- [g |-> 2],
    SlotSizes <- {2, 4},
    Ceiling <- 2,
    Pods <- Actors,
    BatchSlots <- {{0}, 0 .. 1, 0 .. 3, {2}, 2 .. 3, 4 .. 6, 5 .. 6},
    MaxBatches <- 1

(* Appends: resumed and forced batches with a fault; deletions between     *)
(* resumed ones; plain ones to two groups, in two runs of a process; and   *)
(* a repair that fails too.                                                *)

AppendLoad(calls, runs, faults, deletions, modes, lists, batchesOf) ==
    [calls |-> calls, runs |-> runs, faults |-> faults, deletions |-> deletions,
     modes |-> modes, lists |-> lists, batches |-> batchesOf]

A == INSTANCE Append WITH
    Processes <- Actors,
    Groups <- {"g", "h"},
    Timestamps <- {1, 2, 3},
    Loads <- {AppendLoad(3, 0, 1, 0, {"resume", "force"}, {<<"g">>}, {<<1>>, <<1, 2>>}),
              AppendLoad(2, 0, 0, 1, {"resume"}, {<<"g">>},
                         {<<1>>, <<2, 1>>, <<1, 2>>, <<1, 2, 3>>, <<1, 3>>, <<2, 3>>}),
              AppendLoad(2, 1, 1, 0, {"plain"}, {<<"h", "g">>, <<"g">>}, {<<1, 2>>, <<2>>}),
              AppendLoad(1, 0, 2, 0, {"plain"}, {<<"g">>}, {<<1>>})}

(* Consolidation: a product with a coordinate in its root and one in a     *)
(* group, of every kind; three runs of the command.                        *)

TimeCoord(kind, indexed) == [kind |-> kind, reference |-> indexed]

T == INSTANCE Consolidation WITH
    Walk <- <<"root", "child">>,
    Covers <- [root |-> {"root", "child"}, child |-> {"child"}],
    Chunks <- {1, 2},
    Coords <- {TimeCoord("legacy", "none"), TimeCoord("legacy", "agrees"),
               TimeCoord("legacy", "differs"), TimeCoord("managed", "none"),
               TimeCoord("preallocated", "agrees"), TimeCoord("none", "absent")},
    MaxRuns <- 3,
    coord <- timeCoord,
    image <- snapshot,
    runs <- commands

(* Operations on documents: an array below a group, an authority over a    *)
(* claimed store and a local one over the group; two calls of any kind     *)
(* with every release, or three without.                                   *)

Op(kind, node, grow, check) == [kind |-> kind, node |-> node, grow |-> grow, check |-> check]
Edit(kind) == Op(kind, "a", 0, "none")
NodeLoad(calls, releases, operations) ==
    [calls |-> calls, releases |-> releases, operations |-> operations]

M == INSTANCE MetadataAuthority WITH
    Threads <- Actors,
    Path <- [root |-> <<"root">>, g |-> <<"root", "g">>, a |-> <<"root", "g", "a">>],
    Prefix <- [h |-> "root", d |-> "g"],
    Claimed <- {"h"},
    Loads <- {NodeLoad(2, {"block", "revoke"},
                       {Op("ensure", "g", 0, "none"), Op("open", "a", 1, "none"),
                        Op("open", "a", 2, "stamp"), Op("open", "a", 2, "leave"),
                        Edit("attrs"), Edit("publish"), Edit("publish_if_absent"),
                        Edit("raw")}),
              NodeLoad(3, {}, {Edit("attrs"), Edit("merge")})},
    LockIds <- 1 .. 3,
    locks <- nodeLocks

-----------------------------------------------------------------------------
Parts == {"index", "coordinate", "owned", "regions", "buffer", "plan", "append",
          "consolidation", "metadata"}

\* The initial state in which a component stays while another one moves.
Still(name, choice) == part # name => choice

Init ==
    /\ part \in Parts
    /\ \E old \in {"none", "m1"} : I!InitWith(old) /\ Still("index", old = "none")
    /\ P!PreallocationInit
    /\ E!OwnedInit
    /\ G!RegionsInit /\ Still("regions", ~suppress /\ DOMAIN window = {"p"})
    /\ U!BufferInit /\ Still("buffer", elides /\ array[0] = U!Fill)
    /\ S!SlotsInit
    /\ A!AppendInit /\ Still("append", left.calls = 1)
    /\ T!ConsolidationInit
    /\ Still("consolidation", \A g \in T!Groups : reference[g] = "absent" /\ ~T!HasImage(g))
    /\ M!AuthorityInit
    /\ Still("metadata", load.calls = 2 /\ \A n \in M!Nodes : docs[n] = M!Absent)

Negotiates ==
    /\ part = "index" /\ I!IndexNext
    /\ UNCHANGED <<coordVars, ownedVars, regionVars, bufferVars, planVars, appendVars, sealVars,
                   nodeVars>>
Preallocates ==
    /\ part = "coordinate" /\ P!PreallocationNext
    /\ UNCHANGED <<indexVars, ownedVars, regionVars, bufferVars, planVars, appendVars, sealVars,
                   nodeVars>>
StoresOwned ==
    /\ part = "owned" /\ E!OwnedNext
    /\ UNCHANGED <<indexVars, coordVars, regionVars, bufferVars, planVars, appendVars, sealVars,
                   nodeVars>>
WritesRegions ==
    /\ part = "regions" /\ G!RegionsNext
    /\ UNCHANGED <<indexVars, coordVars, ownedVars, bufferVars, planVars, appendVars, sealVars,
                   nodeVars>>
BuffersUnits ==
    /\ part = "buffer" /\ U!BufferNext
    /\ UNCHANGED <<indexVars, coordVars, ownedVars, regionVars, planVars, appendVars, sealVars,
                   nodeVars>>
PlansSlots ==
    /\ part = "plan" /\ S!SlotsNext
    /\ UNCHANGED <<indexVars, coordVars, ownedVars, regionVars, bufferVars, appendVars, sealVars,
                   nodeVars>>
Appends ==
    /\ part = "append" /\ A!AppendNext
    /\ UNCHANGED <<indexVars, coordVars, ownedVars, regionVars, bufferVars, planVars, sealVars,
                   nodeVars>>
Consolidates ==
    /\ part = "consolidation" /\ T!ConsolidationNext
    /\ UNCHANGED <<indexVars, coordVars, ownedVars, regionVars, bufferVars, planVars, appendVars,
                   nodeVars>>
ChangesDocuments ==
    /\ part = "metadata" /\ M!AuthorityNext
    /\ UNCHANGED <<indexVars, coordVars, ownedVars, regionVars, bufferVars, planVars, appendVars,
                   sealVars>>

Next ==
    /\ UNCHANGED part
    /\ \/ Negotiates \/ Preallocates \/ StoresOwned \/ WritesRegions \/ BuffersUnits
       \/ PlansSlots \/ Appends \/ Consolidates \/ ChangesDocuments

Spec == Init /\ [][Next]_vars

-----------------------------------------------------------------------------
(* The contracts: those of the components' modules, each said of the       *)
(* behaviours of its component.                                            *)

IndexIsSettledOnce ==
    /\ [](part = "index" => I!IndexInvariant)
    /\ [][part = "index" => I!RecordIsFinal]_vars

CoordinateIsSettled ==
    /\ [](part = "coordinate" => P!PreallocationInvariant)
    /\ [][part = "coordinate" => P!NoSlotForgotten]_vars

OwnedValuesAreSafe ==
    /\ [](part = "owned" => E!OwnedInvariant)
    /\ [][part = "owned" => E!ListedSlotsStay]_vars

RegionsAreKept ==
    /\ [](part = "regions" => G!RegionsInvariant)
    /\ [][part = "regions" => G!StaticIsWriteOnce]_vars

BufferKeepsOrder ==
    /\ [](part = "buffer" => U!BufferInvariant)
    /\ [][part = "buffer" => U!OthersStay]_vars

PlansAreExecutable ==
    /\ [](part = "plan" => S!SlotsInvariant)
    /\ [][part = "plan" => S!StartsOnFreeSlots]_vars

AppendsAreAccountedFor ==
    /\ [](part = "append" => A!AppendInvariant)
    /\ [][part = "append" => A!AppendStep]_vars

ConsolidationIsRepeatable ==
    /\ [](part = "consolidation" => T!ConsolidationInvariant)
    /\ [][part = "consolidation" => T!ConsolidationStep]_vars

MetadataIsNotReverted ==
    /\ [](part = "metadata" => M!AuthorityInvariant)
    /\ [][part = "metadata" => M!AuthorityStep]_vars
=============================================================================
