----------------------------- MODULE UnitBuffer -----------------------------
(***************************************************************************)
(* The write buffer of one time slot (unit_buffer.py, UnitWriteBuffer),    *)
(* and the feeder that hands it the slot's intents (_buffered_regions.py). *)
(* Pieces of one array are collected per stored unit; a unit that was      *)
(* supplied whole is published as one object, any other one is written     *)
(* box by box in the order of arrival.                                     *)
(*                                                                         *)
(* The cells of the slot lie on a line.  A group and an array may be       *)
(* spelled in two ways (Keys) and mean one array: the buffer keeps them    *)
(* apart, the feeder brings them together.  What the buffer does to the    *)
(* store is a queue of operations; each may fail, and then the buffer is   *)
(* discarded.                                                              *)
(***************************************************************************)
EXTENDS Integers, FiniteSets, Sequences, SequencesExt

CONSTANTS
    Cells,      \* cells of the slot: 0 .. n - 1
    UnitCells,  \* cells of a stored unit
    ChunkCells, \* cells of what zarr drops at once: the inner chunk, else the unit
    Keys,       \* spellings of the array
    Pieces,     \* pieces an intent may ask for: cells, and what the first and the others hold
    MaxPieces   \* bound: intents of the slot

\* Values: what intent n writes is n.  Odd has other bits than the fill and passes
\* zarr's fill test for it.
Fill == 0
Odd == -1
Old == -2
Passes(v) == v \in {Fill, Odd}

VARIABLES
    elides,   \* write_empty_chunks is off and the fill has values of other bits
    cells,    \* the array in the store
    open,     \* the open units: key and unit, with fragments and scratch
    tainted,  \* keys and units that take no more pieces
    held,     \* spelling the open units are held under, or NoKey
    taken,    \* the intents so far, with what they wrote
    pending,  \* pending[n]: units of intent n that have not landed
    todo,     \* what the call under way has still to do
    landed,   \* intents reported, in order
    phase,    \* taking, closing, closed or failed
    wanted    \* history: the array if every intent had been written at once

bvars == <<elides, cells, open, tainted, held, taken, pending, todo, landed, phase, wanted>>

NoKey == "none"
UnitOf(c) == c \div UnitCells
ChunkOf(c) == c \div ChunkCells
CellsOf(u) == {c \in Cells : UnitOf(c) = u}
UnitsOf(cs) == {UnitOf(c) : c \in cs}

\* The cells of piece `p`: values told apart by the number of the intent.
Data(p, n) ==
    LET first == CHOOSE c \in p.cells : \A d \in p.cells : c <= d
        style == [c \in p.cells |-> IF c = first THEN p.first ELSE p.rest]
    IN [c \in p.cells |-> CASE style[c] = "new" -> n [] style[c] = "odd" -> Odd [] style[c] = "fill" -> Fill]

\* A write to an array or a scratch: zarr drops a chunk whose cells all pass.
WriteTo(array, data) ==
    LET merged == [c \in DOMAIN array |-> IF c \in DOMAIN data THEN data[c] ELSE array[c]]
        chunk(c) == {d \in DOMAIN array : ChunkOf(d) = ChunkOf(c)}
        touched(c) == chunk(c) \cap DOMAIN data # {}
    IN [c \in DOMAIN array |->
          IF elides /\ touched(c) /\ \A d \in chunk(c) : Passes(merged[d])
          THEN Fill ELSE merged[c]]

BufferInit ==
    /\ elides \in BOOLEAN
    /\ \E v \in {Old, Fill} : cells = [c \in Cells |-> v]
    /\ wanted = cells
    /\ open = <<>> /\ tainted = {} /\ held = NoKey
    /\ taken = <<>> /\ pending = <<>> /\ todo = <<>> /\ landed = <<>>
    /\ phase = "taking"

-----------------------------------------------------------------------------
(* What a call does to the store.                                          *)

Box(data) == [op |-> "box", data |-> data]
Publish(data) == [op |-> "publish", data |-> data]
Land(fragments) == [op |-> "land", fragments |-> fragments]

\* _flush_units: the fragments of the units, read back from their scratches and
\* ordered by piece and unit; then all of them have landed.
Flushing(units) ==
    LET fragments == UNION {{<<n, h>> : n \in DOMAIN open[h].boxes} : h \in units}
        order == SetToSortSeq(fragments, LAMBDA x, y :
                    x[1] < y[1] \/ (x[1] = y[1] /\ x[2][2] < y[2][2]))
        box(f) == Box([c \in open[f[2]].boxes[f[1]] |-> open[f[2]].scratch[c]])
    IN [i \in 1 .. Len(order) |-> box(order[i])]
       \o <<Land({<<f[1], f[2][2]>> : f \in fragments})>>

Without(units) == [h \in DOMAIN open \ units |-> open[h]]

\* _elision_changes_bits: some chunk's part of the piece passes the fill test in all
\* its cells, one of them with other bits than the fill.
LosesBits(data) ==
    elides /\ \E c \in DOMAIN data :
        /\ data[c] = Odd
        /\ \A d \in DOMAIN data : ChunkOf(d) = ChunkOf(c) => Passes(data[d])

\* Mutant: only a piece that lies inside another one counts as overlapping.
OverlappedInside(key, data) ==
    {h \in DOMAIN open : /\ h[1] = key
                         /\ \E n \in DOMAIN open[h].boxes : DOMAIN data \subseteq open[h].boxes[n]
                                                            /\ DOMAIN data # open[h].boxes[n]}

\* Open units of which the piece touches cells that are held already.
Overlapped(key, data) ==
    {h \in DOMAIN open : h[1] = key /\ \E n \in DOMAIN open[h].boxes :
                                          DOMAIN data \cap open[h].boxes[n] # {}}

\* The scratch of a unit not open yet: the fill everywhere.
Unit(h) ==
    IF h \in DOMAIN open THEN open[h]
    ELSE [boxes |-> <<>>, scratch |-> [c \in CellsOf(h[2]) |-> Fill]]

\* Encodes the part of piece `n` that lies in the unit into its scratch.
WithPiece(h, n, data) ==
    LET part == [c \in DOMAIN data \cap CellsOf(h[2]) |-> data[c]]
        unit == Unit(h)
    IN [boxes |-> [m \in DOMAIN unit.boxes \cup {n} |->
                     IF m = n THEN DOMAIN part ELSE unit.boxes[m]],
        scratch |-> WriteTo(unit.scratch, part)]

\* Completeness is the volume supplied, whatever cells it was.
Supplied(unit) == FoldLeft(LAMBDA sum, n : sum + Cardinality(unit.boxes[n]), 0,
                           SetToSeq(DOMAIN unit.boxes))

-----------------------------------------------------------------------------
(* Calls.                                                                  *)

Ready == phase = "taking" /\ todo = <<>>
Number == Len(taken) + 1

Take(key, data) ==
    /\ taken' = Append(taken, data)
    /\ held' = key
    /\ wanted' = WriteTo(wanted, data)
    /\ UNCHANGED <<elides, cells, landed, phase>>

\* The feeder flushes the units held under another spelling before it hands on a
\* piece; the next call of the feeder begins when that is done.
Respell(key) ==
    /\ Ready /\ held \notin {NoKey, key} /\ Len(taken) < MaxPieces
    /\ LET units == {h \in DOMAIN open : h[1] = held}
       IN todo' = Flushing(units) /\ open' = Without(units)
    /\ held' = key
    /\ UNCHANGED <<elides, cells, tainted, taken, pending, landed, phase, wanted>>

\* put of a piece that goes out as one box write, after the units it touches.
PutBox(key, piece) ==
    LET n == Number
        data == Data(piece, n)
        touched == {<<key, u>> : u \in UnitsOf(DOMAIN data)}
        refused == Overlapped(key, data) # {} \/ LosesBits(data)
    IN  /\ Ready /\ n <= MaxPieces /\ held \in {NoKey, key}
        /\ refused \/ touched \cap tainted # {}
        /\ Take(key, data)
        /\ tainted' = IF refused THEN tainted \cup touched ELSE tainted
        /\ LET units == touched \cap DOMAIN open
           IN todo' = Flushing(units) \o <<Box(data), Land({<<n, u>> : u \in UnitsOf(DOMAIN data)})>>
              /\ open' = Without(units)
        /\ pending' = Append(pending, UnitsOf(DOMAIN data))

\* put of a piece into the scratches; the units it completes are published.
PutScratch(key, piece) ==
    LET n == Number
        data == Data(piece, n)
        touched == {<<key, u>> : u \in UnitsOf(DOMAIN data)}
        after == [h \in DOMAIN open \cup touched |->
                    IF h \in touched THEN WithPiece(h, n, data) ELSE open[h]]
        whole == {h \in touched : Supplied(after[h]) = Cardinality(CellsOf(h[2]))}
        order == SetToSortSeq(whole, LAMBDA g, h : g[2] < h[2])
        publishing(h) == <<Publish(after[h].scratch), Land({<<m, h[2]>> : m \in DOMAIN after[h].boxes})>>
    IN  /\ Ready /\ n <= MaxPieces /\ held \in {NoKey, key}
        /\ Overlapped(key, data) = {} /\ ~LosesBits(data) /\ touched \cap tainted = {}
        /\ Take(key, data)
        /\ open' = [h \in DOMAIN after \ whole |-> after[h]]
        /\ todo' = FlattenSeq([i \in 1 .. Len(order) |-> publishing(order[i])])
        /\ pending' = Append(pending, UnitsOf(DOMAIN data))
        /\ UNCHANGED tainted

\* An intent that is no piece for the buffer: it is written at once, after the open
\* units of its array.  One whose data do not fit its box has its spelling held.
Dispatch(key, piece) ==
    LET n == Number
        data == Data(piece, n)
        units == {h \in DOMAIN open : h[1] = held}
    IN  /\ Ready /\ n <= MaxPieces
        /\ taken' = Append(taken, data)
        /\ wanted' = WriteTo(wanted, data)
        /\ todo' = Flushing(units) \o <<Box(data), Land({<<n, u>> : u \in UnitsOf(DOMAIN data)})>>
        /\ open' = Without(units)
        /\ pending' = Append(pending, UnitsOf(DOMAIN data))
        /\ held' \in {held, key}
        /\ UNCHANGED <<elides, cells, tainted, landed, phase>>

\* close: every unit still open, of every spelling.
Close ==
    /\ Ready
    /\ todo' = Flushing(DOMAIN open) /\ open' = <<>>
    /\ phase' = "closing"
    /\ UNCHANGED <<elides, cells, tainted, held, taken, pending, landed, wanted>>

-----------------------------------------------------------------------------
(* Steps of a call.                                                        *)

\* _land and _report: the intents of which this was the last unit.
Landing(fragments) ==
    LET left(n) == pending[n] \ {f[2] : f \in {g \in fragments : g[1] = n}}
        numbers == {f[1] : f \in fragments}
    IN  /\ pending' = [n \in DOMAIN pending |-> left(n)]
        /\ landed' = landed \o SetToSortSeq({n \in numbers : left(n) = {}}, <)

\* A box write merges into what is stored; a publish replaces the object.
Step ==
    /\ todo # <<>> /\ phase # "failed"
    /\ LET do == Head(todo) IN
         \/ /\ do.op = "box"
            /\ cells' = WriteTo(cells, do.data)
            /\ UNCHANGED <<pending, landed>>
         \/ /\ do.op = "publish"
            /\ cells' = [c \in Cells |-> IF c \in DOMAIN do.data THEN do.data[c] ELSE cells[c]]
            /\ UNCHANGED <<pending, landed>>
         \/ /\ do.op = "land"
            /\ Landing(do.fragments)
            /\ UNCHANGED cells
    /\ todo' = Tail(todo)
    /\ UNCHANGED <<elides, open, tainted, held, taken, phase, wanted>>

Closed ==
    /\ phase = "closing" /\ todo = <<>>
    /\ phase' = "closed"
    /\ UNCHANGED <<elides, cells, open, tainted, held, taken, pending, todo, landed, wanted>>

\* The sink or the record of an intent raises: the slot's batch fails, and what the
\* buffer holds is neither written nor recorded.
Fails ==
    /\ todo # <<>> /\ phase # "failed"
    /\ phase' = "failed" /\ todo' = <<>> /\ open' = <<>>
    /\ UNCHANGED <<elides, cells, tainted, held, taken, pending, landed, wanted>>

BufferNext ==
    \/ \E key \in Keys : Respell(key)
    \/ \E key \in Keys, piece \in Pieces :
         PutBox(key, piece) \/ PutScratch(key, piece) \/ Dispatch(key, piece)
    \/ Close \/ Step \/ Closed \/ Fails

BufferSpec == BufferInit /\ [][BufferNext]_bvars

-----------------------------------------------------------------------------
(* Properties.                                                             *)

\* Open units hold only cells of theirs; what has landed was taken.
BufferTypeOK ==
    /\ \A h \in DOMAIN open : /\ h[1] = held
                              /\ \A n \in DOMAIN open[h].boxes : open[h].boxes[n] \subseteq CellsOf(h[2])
    /\ Len(pending) = Len(taken) /\ ToSet(landed) \subseteq DOMAIN taken
    /\ phase \in {"taking", "closing", "closed", "failed"}

\* Buffering cannot be seen: when no unit is open the array is, bit for bit, what the
\* intents would have made of it one by one.
BufferIsInvisible == DOMAIN open = {} /\ todo = <<>> /\ phase # "failed" => cells = wanted

\* An intent that was recorded is in the store, whatever failed since: each of its
\* cells holds its value, up to the bits of a fill, or that of a later intent.
LandedIsStored ==
    \A n \in ToSet(landed) : \A c \in DOMAIN taken[n] :
        \E m \in n .. Len(taken) :
            /\ c \in DOMAIN taken[m]
            /\ cells[c] = taken[m][c] \/ (Passes(cells[c]) /\ Passes(taken[m][c]))

\* A piece is recorded once, and a slot that closed has recorded all of them.
EachLandsOnce ==
    /\ Cardinality(ToSet(landed)) = Len(landed)
    /\ phase = "closed" => ToSet(landed) = DOMAIN taken

\* Cells that no intent asked for keep their content, also in a unit that is published.
OthersStay ==
    \A c \in Cells : (cells'[c] # cells[c] /\ ~(Passes(cells'[c]) /\ Passes(cells[c]))) =>
        \E n \in DOMAIN taken' : c \in DOMAIN taken'[n]

BufferInvariant ==
    BufferTypeOK /\ BufferIsInvisible /\ LandedIsStored /\ EachLandsOnce

\* What the buffer promises to the slot.
BufferKeepsOrder == []BufferInvariant /\ [][OthersStay]_bvars
=============================================================================
