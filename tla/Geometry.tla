------------------------------- MODULE Geometry -------------------------------
(***************************************************************************)
(* The stored units of an array (chunk_geometry.py, unit_ownership.py) and *)
(* the slots of its time axis (index_resolve.py, index_binding.py):        *)
(* which units a box of cells touches, whether boxes cover a unit, which   *)
(* units a slot window shares with others, and which slot a coordinate     *)
(* has.  Each is computed from edges and indices alone; the definitions    *)
(* of reference below go by the cells and the instants.                    *)
(*                                                                         *)
(* An array has two axes, time and rows.  A box is a pair of half-open     *)
(* intervals, and instants are whole seconds since the epoch of the axis.  *)
(***************************************************************************)
EXTENDS Integers, FiniteSets, FiniteSetsExt, Sequences

CONSTANT Inputs     \* what is asked of the operators, see IsInput

VARIABLE input

\* chunk_axis_range.
ChunkAxisRange(start, stop, size) ==
    IF stop <= start THEN {} ELSE (start \div size)..((stop - 1) \div size)

\* units_touched.
UnitsTouched(box, unit) ==
    ChunkAxisRange(box[1][1], box[1][2], unit[1]) \X ChunkAxisRange(box[2][1], box[2][2], unit[2])

\* unit_bounds and chunk_index_to_region: the cells of a unit within the array.
UnitBounds(u, unit, shape) ==
    [dim \in 1..2 |-> <<u[dim] * unit[dim], Min({(u[dim] + 1) * unit[dim], shape[dim]})>>]

Within(inner, outer) ==
    \A dim \in 1..2 : outer[dim][1] <= inner[dim][1] /\ inner[dim][2] <= outer[dim][2]
IsEmpty(box) == \E dim \in 1..2 : box[dim][1] >= box[dim][2]
Intersection(b, t) ==
    [dim \in 1..2 |-> <<Max({b[dim][1], t[dim][1]}), Min({b[dim][2], t[dim][2]})>>]

\* The intervals between neighbouring edges.
Pairwise(cuts) ==
    {p \in cuts \X cuts : p[1] < p[2] /\ ~\E c \in cuts : p[1] < c /\ c < p[2]}

\* Mutant: the target is not cut at the edges of the boxes.
CoveredByOneBox(target, boxes) ==
    IsEmpty(target) \/ \E b \in boxes : Within(target, b)

\* bounds_cover: the target is cut at every edge, and each block lies within some box.
BoundsCover(target, boxes) ==
    LET clipped == {b \in {Intersection(x, target) : x \in boxes} : ~IsEmpty(b)}
        Cuts(dim) == {target[dim][1], target[dim][2]}
                     \cup UNION {{b[dim][1], b[dim][2]} : b \in clipped}
    IN IF clipped = {} THEN IsEmpty(target)
       ELSE \A rows \in Pairwise(Cuts(1)), columns \in Pairwise(Cuts(2)) :
                \E b \in clipped : Within(<<rows, columns>>, b)

\* incompletely_written_units.
IncompletelyWritten(shape, unit, touched, written) ==
    {u \in UNION {UnitsTouched(b, unit) : b \in touched} :
        ~BoundsCover(UnitBounds(u, unit, shape), {b \in written : u \in UnitsTouched(b, unit)})}

\* window_straddling_units looks at the first and the last unit of the window.
WindowStraddling(size, length, window) ==
    LET start == Max({window[1], 0})
        stop == Min({window[2], length})
        Span(i) == <<i * size, Min({(i + 1) * size, length})>>
        ends == {start \div size, (stop - 1) \div size}
    IN IF start >= stop THEN {}
       ELSE {s \in {Span(i) : i \in ends} : s[1] < window[1] \/ s[2] > window[2]}

\* axis_selection_is_chunk_aligned.
IsAligned(start, stop, length, size) ==
    start % size = 0 /\ (stop = length \/ stop % size = 0)

\* physical_chunk_keys_for_region: the chunks of one slot's rows, and whether they are whole.
ChunkKeys(slot, rows, shape, chunks) ==
    [keys |-> UnitsTouched(<<<<slot, slot + 1>>, rows>>, chunks),
     aligned |-> chunks[1] = 1 /\ IsAligned(rows[1], rows[2], shape[2], chunks[2])]

-----------------------------------------------------------------------------
(* Time axes: regular (exact or floor), irregular, integer.                *)

Refused == -1

\* RegularTimeResolver.size, IrregularTimeResolver.size, IntegerResolver.size.
SizeOf(axis) ==
    CASE axis.kind = "regular" -> axis.extent \div axis.cadence
      [] axis.kind = "irregular" -> Len(axis.values)
      [] axis.kind = "integer" -> axis.slots

\* RegularTimeResolver.position does not look at the extent; the other axes refuse what they
\* do not hold.  The values of an irregular axis keep their order; of an instant held twice
\* the first is taken, or it is refused if it comes with a calendar.
Held(axis, c) == {i \in 1..Len(axis.values) : axis.values[i] = c}
Position(axis, c) ==
    CASE axis.kind = "regular" ->
            IF c < 0 \/ (axis.mode = "exact" /\ c % axis.cadence # 0) THEN Refused
            ELSE c \div axis.cadence
      [] axis.kind = "irregular" ->
            IF Held(axis, c) = {} \/ (axis.calendar /\ \E i, j \in Held(axis, c) : i # j)
            THEN Refused
            ELSE Min(Held(axis, c)) - 1
      [] axis.kind = "integer" -> IF c \in 0..(axis.slots - 1) THEN c ELSE Refused

Coordinate(axis, i) ==
    CASE axis.kind = "regular" -> i * axis.cadence
      [] axis.kind = "irregular" -> axis.values[i + 1]
      [] axis.kind = "integer" -> i

\* filter_items_by_index of a pod: a coordinate without a position refuses the run.
KeptBy(axis, window, coordinates) ==
    {c \in coordinates : window[1] <= Position(axis, c) /\ Position(axis, c) < window[2]}
FilterRefuses(axis, coordinates) == \E c \in coordinates : Position(axis, c) = Refused

-----------------------------------------------------------------------------
(* What is asked of them: whether the writes of a run cover the units they *)
(* touch, which units a window shares, which chunks two region writes      *)
(* have, and how an axis places items.                                     *)

Positive == Nat \ {0}
Intervals(n) == {i \in (0..n) \X (0..n) : i[1] <= i[2]}
Boxes(shape) == Intervals(shape[1]) \X Intervals(shape[2])
Regions(shape) == [slot : 0..(shape[1] - 1), rows : Intervals(shape[2])]

IsAxis(axis) ==
    \/ axis \in [kind : {"regular"}, mode : {"exact", "floor"}, cadence : Positive, extent : Nat]
    \/ axis \in [kind : {"irregular"}, values : Seq(Int), calendar : BOOLEAN]
    \/ axis \in [kind : {"integer"}, slots : Nat]

AsksCoverage(i) ==
    /\ i.kind = "cover" /\ i.shape \in Positive \X Positive /\ i.unit \in Positive \X Positive
    /\ i.touched \subseteq Boxes(i.shape) /\ i.written \subseteq Boxes(i.shape)
AsksWindow(i) ==
    i.kind = "window" /\ i.size \in Positive /\ i.length \in Nat /\ i.window \in Int \X Int
AsksKeys(i) ==
    /\ i.kind = "keys" /\ i.shape \in Positive \X Positive /\ i.chunks \in Positive \X Positive
    /\ i.w \in Regions(i.shape) /\ i.v \in Regions(i.shape)
AsksAxis(i) ==
    i.kind = "axis" /\ IsAxis(i.axis) /\ i.coordinates \subseteq Int /\ i.cut \in 0..SizeOf(i.axis)

IsInput(i) == AsksCoverage(i) \/ AsksWindow(i) \/ AsksKeys(i) \/ AsksAxis(i)

ASSUME GeometryAssumption == \A i \in Inputs : IsInput(i)

GeometryInit == input \in Inputs
GeometrySpec == GeometryInit /\ [][UNCHANGED input]_input

-----------------------------------------------------------------------------
(* The reference.                                                          *)

Cells(box) == (box[1][1]..(box[1][2] - 1)) \X (box[2][1]..(box[2][2] - 1))
UnitOf(cell, unit) == <<cell[1] \div unit[1], cell[2] \div unit[2]>>

\* A unit is promoted only if every cell of it within the array was written.
CoverageIsExact(shape, unit, touched, written) ==
    LET All == Cells(<<<<0, shape[1]>>, <<0, shape[2]>>>>)
        Done == UNION {Cells(b) : b \in written}
    IN IncompletelyWritten(shape, unit, touched, written) =
           {UnitOf(c, unit) : c \in UNION {Cells(b) : b \in touched}}
           \cap {UnitOf(c, unit) : c \in All \ Done}

\* A window shares exactly the units that hold a slot of the array inside it and one outside.
SharedUnitsAreExact(size, length, window) ==
    LET Slots(s) == s[1]..(s[2] - 1)
        units == {<<i * size, Min({(i + 1) * size, length})>> : i \in 0..((length - 1) \div size)}
    IN WindowStraddling(size, length, window) =
           {s \in units : /\ \E t \in Slots(s) : window[1] <= t /\ t < window[2]
                          /\ \E t \in Slots(s) : t < window[1] \/ t >= window[2]}

\* Aligned writes of different cells never meet in a chunk, and a write's chunks are those of
\* its cells.
AlignedWritesKeepApart(shape, chunks, w, v) ==
    LET One(x) == ChunkKeys(x.slot, x.rows, shape, chunks)
        CellsOf(x) == Cells(<<<<x.slot, x.slot + 1>>, x.rows>>)
    IN /\ One(w).keys = {UnitOf(c, chunks) : c \in CellsOf(w)}
       /\ One(w).aligned /\ One(v).aligned /\ CellsOf(w) \cap CellsOf(v) = {} =>
              One(w).keys \cap One(v).keys = {}

\* A coordinate lies in its slot, and a slot's own coordinate has that slot unless another
\* slot has it, too.
PositionsAreExact(axis, c) ==
    /\ Position(axis, c) # Refused /\ Position(axis, c) < SizeOf(axis) =>
        LET at == Coordinate(axis, Position(axis, c))
        IN IF axis.kind = "regular" /\ axis.mode = "floor"
           THEN at <= c /\ c < at + axis.cadence
           ELSE at = c
    /\ \A i \in 0..(SizeOf(axis) - 1) :
        (\A j \in 0..(SizeOf(axis) - 1) : Coordinate(axis, j) = Coordinate(axis, i) => j = i)
            => Position(axis, Coordinate(axis, i)) = i

\* Pods whose windows tile the axis share its items out: each item the axis has a slot for
\* goes to one pod, and every pod refuses the same lists.
ItemsAreSharedOut(axis, cut, coordinates) ==
    LET Mine == KeptBy(axis, <<0, cut>>, coordinates)
        Theirs == KeptBy(axis, <<cut, SizeOf(axis)>>, coordinates)
    IN ~FilterRefuses(axis, coordinates) =>
        /\ Mine \cap Theirs = {}
        /\ Mine \cup Theirs = {c \in coordinates : Position(axis, c) < SizeOf(axis)}

\* The algorithms on edges and indices agree with their definition by cells and instants
\* (chunk_geometry.py, index_resolve.py, filter_items_by_index).
GeometryIsExact ==
    CASE input.kind = "cover" ->
            CoverageIsExact(input.shape, input.unit, input.touched, input.written)
      [] input.kind = "window" -> SharedUnitsAreExact(input.size, input.length, input.window)
      [] input.kind = "keys" -> AlignedWritesKeepApart(input.shape, input.chunks, input.w, input.v)
      [] input.kind = "axis" ->
            /\ \A c \in input.coordinates : PositionsAreExact(input.axis, c)
            /\ ItemsAreSharedOut(input.axis, input.cut, input.coordinates)
=============================================================================
