------------------------------ MODULE SlotPlan ------------------------------
(***************************************************************************)
(* Ranges of slots for pods that write one product at the same time        *)
(* (slot_plan.py, planning.py, parallel_gate.py, planned_range.py): a plan *)
(* partitions what the complete runs have not covered; a pod starts on a   *)
(* window of some plan, however old, or on one given by hand, which may be *)
(* any.  The gate checks the window against the layout, the guard against  *)
(* the runs it sees, and only then is the start recorded.                  *)
(*                                                                         *)
(* Units of a group are the lcm of what its pod-written arrays declare and *)
(* store; groups without units plan their whole axis.  Which slots of its  *)
(* window a pod has inputs for is its own business.                        *)
(***************************************************************************)
EXTENDS Integers, FiniteSets, FiniteSetsExt

CONSTANTS
    Total,     \* slots of each group
    Unit,      \* unit of each group that has one
    SlotSizes, \* explicit slot sizes that are asked for
    Ceiling,   \* PLAN_RANGE_CEILING
    Pods,      \* processes
    BatchSlots, \* slots a batch may have written
    MaxBatches \* bound: batches a pod records

VARIABLES
    pod,     \* each pod: place, window, slots recorded, batches, runs seen by its guard
    raced    \* history: pairs of which one started between the other's guard and start

svars == <<pod, raced>>

Groups == DOMAIN Total
None == 0    \* no slot size
Axis(g) == 0..(Total[g] - 1)
SlotsIn(a, b) == a..(b - 1)
CeilDiv(n, d) == (n + d - 1) \div d
Lcm(ns) == CHOOSE m \in 1..ProductSet(ns) :
    /\ \A n \in ns : m % n = 0
    /\ \A k \in 1..(m - 1) : \E n \in ns : k % n # 0
Units == {Unit[g] : g \in DOMAIN Unit}

SlotsInit ==
    /\ pod = [p \in Pods |-> [pc |-> "new", window |-> <<>>, spans |-> {}, batches |-> 0, seen |-> {}]]
    /\ raced = {}

\* _query_slots_coverage: the spans of complete runs.
Covered(g) == UNION {pod[p].spans : p \in {q \in Pods : pod[q].pc = "complete" /\ pod[q].window[1] = g}}

-----------------------------------------------------------------------------
(* The plan.                                                               *)

\* merge_intervals and complement_intervals: the maximal intervals of a set of slots.
Intervals(slots) ==
    {i \in slots \X {s + 1 : s \in slots} :
        /\ i[1] < i[2] /\ SlotsIn(i[1], i[2]) \subseteq slots
        /\ i[1] - 1 \notin slots /\ i[2] \notin slots}

AlignedStart(i, size) == CeilDiv(i[1], size) * size

\* Mutant: only intervals that leave nothing aligned are blocked.
BlockedWhole(ivs, size) == {i \in ivs : AlignedStart(i, size) >= i[2]}

\* chunk_aligned_remaining.
Aligned(ivs, size) == {<<AlignedStart(i, size), i[2]>> : i \in {j \in ivs : AlignedStart(j, size) < j[2]}}
Blocked(ivs, size) == {<<i[1], Min({AlignedStart(i, size), i[2]})>> : i \in {j \in ivs : j[1] % size # 0}}

\* iter_partitions and partition_count.
Pieces(i, size) ==
    {<<i[1] + k * size, Min({i[1] + (k + 1) * size, i[2]})>> : k \in 0..(CeilDiv(i[2] - i[1], size) - 1)}
Partitions(ivs, size) == UNION {Pieces(i, size) : i \in ivs}
PartitionCount(ivs, size) ==
    MapThenSumSet(LAMBDA i : CeilDiv(i[2] - i[1], size), ivs)

\* resolve_per_group_slot_sizes: an explicit size must be a multiple of every unit.
SizesFor(explicit) ==
    [g \in Groups |-> IF g \notin DOMAIN Unit THEN Total[g]
                      ELSE IF explicit = None THEN Unit[g] ELSE explicit]
SizeIsValid(explicit) == explicit # None => \A g \in DOMAIN Unit : explicit % Unit[g] = 0

CountAt(left, sizes) ==
    MapThenSumSet(LAMBDA g : PartitionCount(Aligned(left[g], sizes[g]), sizes[g]), Groups)

\* smallest_executable_slot_size: multiples of every unit.  Where an interval starts after
\* 0 the size must divide the starts, which leaves their divisors; otherwise the count of
\* ranges falls with the size, and the smallest is found by bisection.
LeftOfSized(left) == UNION {{<<g, i[1], i[2]>> : i \in left[g]} : g \in DOMAIN Unit}
FixedCount(left) ==
    MapThenSumSet(LAMBDA g : PartitionCount(Aligned(left[g], Total[g]), Total[g]), Groups \ DOMAIN Unit)
Count(left, size) ==
    FixedCount(left) + MapThenSumSet(LAMBDA i : CeilDiv(i[3] - i[2], size), LeftOfSized(left))
Bisected(left, step, widest) ==
    LET narrow[r \in (1..widest) \X (1..widest)] ==
          LET middle == (r[1] + r[2]) \div 2
          IN  IF r[1] = r[2] THEN r[1]
              ELSE IF Count(left, middle * step) <= Ceiling THEN narrow[<<r[1], middle>>]
              ELSE narrow[<<middle + 1, r[2]>>]
    IN  narrow[<<1, widest>>]
Suggested(left) ==
    LET step == Lcm(Units)
        starts == {i[2] : i \in LeftOfSized(left)}
        hopeless ==
            \/ \E g \in Groups \ DOMAIN Unit : Blocked(left[g], Total[g]) # {}
            \/ FixedCount(left) > Ceiling
            \/ \E i \in LeftOfSized(left) : i[3] # Total[i[1]] /\ i[3] % Unit[i[1]] # 0
        widest == CeilDiv(Max({step} \cup {i[3] - i[2] : i \in LeftOfSized(left)}), step)
        common == {k \in 1..Max({1} \cup starts) : \A s \in starts : s % k = 0}
        divisors == {k \in common : k % step = 0 /\ Count(left, k) <= Ceiling}
    IN  IF hopeless THEN None
        ELSE IF starts \subseteq {0}
        THEN IF Count(left, widest * step) > Ceiling THEN None ELSE Bisected(left, step, widest) * step
        ELSE IF divisors = {} THEN None ELSE Min(divisors)

\* plan_slots reads the coverage and writes nothing: blocked intervals, then too many
\* ranges, refuse the plan.
Left(resume) == [g \in Groups |-> Intervals(Axis(g) \ (IF resume THEN Covered(g) ELSE {}))]
IsBlocked(left, sizes) == \E g \in Groups : Blocked(left[g], sizes[g]) # {}
PlanRanges(left, sizes) ==
    UNION {{<<g, r[1], r[2]>> : r \in Partitions(Aligned(left[g], sizes[g]), sizes[g])} : g \in Groups}
Plan(left, sizes, above) ==
    IF IsBlocked(left, sizes) THEN [kind |-> "blocked"]
    ELSE IF CountAt(left, sizes) > Ceiling /\ ~above
    THEN [kind |-> "ceiling", suggested |-> Suggested(left)]
    ELSE [kind |-> "plan", ranges |-> PlanRanges(left, sizes)]

-----------------------------------------------------------------------------
(* Pods.                                                                   *)

At(p, l) == pod[p].pc = l
Goto(p, l) == pod' = [pod EXCEPT ![p].pc = l]
Overlap(w, v) == w[1] = v[1] /\ w[2] < v[3] /\ v[2] < w[3]

\* validate_chunk_alignment: both ends on a unit, or the end at the group's total.
IsAligned(w) ==
    w[1] \in DOMAIN Unit =>
        w[2] % Unit[w[1]] = 0 /\ (w[3] % Unit[w[1]] = 0 \/ w[3] = Total[w[1]])

\* validate_parallel_capability on a window; the guard then refuses windows of runs under
\* way and slots of complete ones.
Windows == {w \in UNION {{g} \X Axis(g) \X (1..Total[g]) : g \in Groups} : w[2] < w[3]}
Live(q) == pod[q].pc \in {"running", "dead"}
Started == {q \in Pods : pod[q].pc \notin {"new", "passed"}}
Enter(p, w) ==
    /\ At(p, "new") /\ IsAligned(w)
    /\ \A q \in Pods : Live(q) => ~Overlap(w, pod[q].window)
    /\ SlotsIn(w[2], w[3]) \cap Covered(w[1]) = {}
    /\ pod' = [pod EXCEPT ![p] = [@ EXCEPT !.pc = "passed", !.window = w, !.seen = Started]]
    /\ UNCHANGED raced

\* register_run_started, after the guard: pods that started meanwhile were not seen.
Start(p) ==
    /\ At(p, "passed") /\ Goto(p, "running")
    /\ raced' = raced \cup {{p, q} : q \in Started \ pod[p].seen}

\* A batch records the coverage of slots of the window.
Record(p, slots) ==
    /\ At(p, "running") /\ slots \subseteq SlotsIn(pod[p].window[2], pod[p].window[3])
    /\ pod[p].batches < MaxBatches /\ slots \cap pod[p].spans = {}
    /\ pod' = [pod EXCEPT ![p].spans = @ \cup slots, ![p].batches = @ + 1]
    /\ UNCHANGED raced

\* A run that dies stays in the way until an operator abandons it.
End(p, l) ==
    /\ \/ At(p, "running") /\ l \in {"complete", "failed", "dead"}
       \/ At(p, "dead") /\ l = "failed"
    /\ Goto(p, l) /\ UNCHANGED raced

SlotsNext ==
    \E p \in Pods :
        \/ (\E w \in Windows : Enter(p, w)) \/ Start(p)
        \/ \E l \in {"complete", "failed", "dead"} : End(p, l)
        \/ \E slots \in BatchSlots : Record(p, slots)

-----------------------------------------------------------------------------
(* Properties.                                                             *)

\* Type correctness of pods and plans.
SlotsTypeOK ==
    /\ \A pair \in raced : pair \subseteq Pods
    /\ \A p \in Pods : pod[p].pc \in {"new", "passed", "running", "dead", "failed", "complete"}

\* A plan that is made hands out every slot that is left and no other, in ranges that do
\* not overlap, each from a multiple of the slot size.
IsExact(plan, left, sizes) ==
    plan.kind = "plan" => \A g \in Groups :
        LET ranges == {r \in plan.ranges : r[1] = g}
        IN  /\ UNION {SlotsIn(r[2], r[3]) : r \in ranges} = UNION {SlotsIn(i[1], i[2]) : i \in left[g]}
            /\ \A r, q \in ranges : r # q => ~Overlap(r, q)
            /\ \A r \in ranges : r[2] % sizes[g] = 0 /\ r[3] - r[2] <= sizes[g]

\* What is planned at a size runs: nothing is blocked, every range passes the gate, and
\* there are no more than the ceiling.
Executable(left, size) ==
    LET sizes == SizesFor(size)
    IN  /\ SizeIsValid(size) /\ CountAt(left, sizes) <= Ceiling
        /\ \A g \in Groups :
            /\ Blocked(left[g], sizes[g]) = {}
            /\ \A r \in Partitions(Aligned(left[g], sizes[g]), sizes[g]) : IsAligned(<<g, r[1], r[2]>>)

\* The slot size a refusal names is the least that is executable; it names none only
\* where none is.
MaxSize == Lcm(Units) * Max({Total[g] : g \in Groups})
NamesTheLeast(plan, left) ==
    plan.kind = "ceiling" =>
        LET sizes == {size \in 1..MaxSize : Executable(left, size)}
        IN  plan.suggested = IF sizes = {} THEN None ELSE Min(sizes)

\* Whatever the coverage is, every plan and every refusal that may be asked for.  Plans
\* depend on the complete runs alone, so states with other runs repeat the question.
PlansAreRight ==
    (\A p \in Pods : pod[p].pc \in {"new", "complete"}) =>
    \A resume, above \in BOOLEAN : LET left == Left(resume) IN
        \A explicit \in {size \in SlotSizes \cup {None} : SizeIsValid(size)} :
            LET sizes == SizesFor(explicit)
                plan == Plan(left, sizes, above)
            IN  IsExact(plan, left, sizes) /\ NamesTheLeast(plan, left)

\* Pods under way share no unit of a group, unless both passed the guard before either
\* start was recorded.
UnitsOf(w) == {s \div Unit[w[1]] : s \in SlotsIn(w[2], w[3])}
PodsShareNoUnit ==
    \A p, q \in Pods :
        (/\ p # q /\ At(p, "running") /\ At(q, "running") /\ {p, q} \notin raced
         /\ pod[p].window[1] = pod[q].window[1] /\ pod[p].window[1] \in DOMAIN Unit)
        => UnitsOf(pod[p].window) \cap UnitsOf(pod[q].window) = {}

\* A run never starts over slots of a complete run, unless that one started between its
\* guard and its start.
StartsOnFreeSlots ==
    \A p, q \in Pods :
      (At(p, "passed") /\ pod'[p].pc = "running" /\ At(q, "complete") /\ {p, q} \notin raced')
      => pod[q].window[1] # pod[p].window[1]
         \/ pod[q].spans \cap SlotsIn(pod[p].window[2], pod[p].window[3]) = {}

SlotsInvariant ==
    SlotsTypeOK /\ PlansAreRight /\ PodsShareNoUnit

\* What the planner and the gate promise.
PlansAreExecutable == []SlotsInvariant /\ [][StartsOnFreeSlots]_svars

=============================================================================
