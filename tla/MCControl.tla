------------------------------ MODULE MCControl ------------------------------
(***************************************************************************)
(* What the runs of a product share, checked in one run: admission under   *)
(* the exclusive claim, the guarded file a claim is kept in, the promotion *)
(* of staged runs, the geometry of stored units it is proved with, and the *)
(* claims of one run.                                                      *)
(* The parts share no state in the model; `part` is the one whose steps a  *)
(* behaviour takes.                                                        *)
(***************************************************************************)
EXTENDS Maintenance, Geometry, TLC

CONSTANTS
    x1, x2, y1, x, y,       \* threads and processes of the guard
    Absent, Nobody,
    a1, a2,                 \* staged runs
    b1, b2                  \* batches of one run

VARIABLES part,
          file, mutex, flock, call, made,
          target, managed, work, job, others, put, raced,
          record, handle, beat, guard, entry, setup, batch, latch, main, evicted, excused

guardVars == <<file, mutex, flock, call, made>>
promotionVars == <<target, managed, work, job, others, put, raced>>
runVars == <<record, handle, beat, guard, entry, setup, batch, latch, main, evicted, excused>>

\* Two threads of a process and one of another, one call each.
Ask(kind, expected, data) == [kind |-> kind, expected |-> expected, data |-> data]
G == INSTANCE GuardFile WITH
    Processes <- {x, y}, ThreadsOf <- (x :> {x1, x2} @@ y :> {y1}),
    Values <- {"A", "B"}, MaxCalls <- 1,
    Requests <- {Ask("create", Absent, "A"), Ask("replace", "A", "B"),
                 Ask("replace", "B", "A"), Ask("delete", "A", Absent)}

ASSUME G!GuardAssumption

\* Pods with whole and with broken units, lone runs on an empty, a short and a growing product.
Product(isManaged, isStrict, n, of1, of2) ==
    [managed |-> isManaged, strict |-> isStrict, length |-> [data |-> n, time |-> n],
     writes |-> (a1 :> of1 @@ a2 :> of2)]
P == INSTANCE Promotion WITH
    Runs <- {a1, a2}, Slots <- 4, DataUnit <- 2,
    Products <- {Product(TRUE, TRUE, 4, {0, 1}, {2, 3}), Product(TRUE, FALSE, 4, {0, 1}, {2}),
                 Product(FALSE, FALSE, 0, {0, 1, 2}, {}), Product(FALSE, FALSE, 3, {2}, {}),
                 Product(FALSE, TRUE, 3, {2, 3}, {})}

\* Two batches share the schema claim, or take it one after the other.
C == INSTANCE RunClaims WITH Batches <- {b1, b2}, MaxHandles <- 2

-----------------------------------------------------------------------------
(* The inputs of the geometry: every list of up to three slot writes of a  *)
(* 3 x 3 array and the ones of them that succeeded, every window over up   *)
(* to seven slots, every pair of region writes, and axes of each kind.     *)

Shape == <<3, 3>>
SlotWrites == {<<<<t, t + 1>>, i>> : t \in 0..2, i \in {i \in Intervals(3) : i[1] < i[2]}}
Axes ==
    [kind : {"regular"}, mode : {"exact", "floor"}, cadence : 1..3, extent : {6, 12}]
    \cup [kind : {"irregular"}, values : {<<0, 2, 5>>, <<5, 1, 3>>, <<2, 0, 2>>, <<4>>},
          calendar : BOOLEAN]
    \cup [kind : {"integer"}, slots : 1..4]
Instants == {-1, 0, 1, 2, 3, 5, 6, 11, 12, 13}

Coverages ==
    UNION {[kind : {"cover"}, shape : {Shape}, unit : {<<2, 2>>, <<3, 2>>, <<1, 2>>},
            touched : {touched}, written : SUBSET touched] :
           touched \in UNION {kSubset(k, SlotWrites) : k \in 1..3}}
Windows == [kind : {"window"}, size : 1..4, length : 1..7, window : (-1..8) \X (-1..8)]
Keys == [kind : {"keys"}, shape : {Shape}, chunks : (1..2) \X (1..3),
         w : Regions(Shape), v : Regions(Shape)]
Placements ==
    UNION {[kind : {"axis"}, axis : {axis}, cut : 0..SizeOf(axis),
            coordinates : UNION {kSubset(k, Instants) : k \in 1..2}] : axis \in Axes}

GeometryInputs == Coverages \cup Windows \cup Keys \cup Placements
NoInput == [kind |-> "window", size |-> 1, length |-> 1, window |-> <<0, 0>>]

-----------------------------------------------------------------------------
(* One of the parts; the others stay at an initial state.                  *)

Of(p) == part = p

MCInit ==
    /\ part \in {"maintenance", "guard", "promotion", "run claims", "geometry"}
    /\ Init
    /\ G!GInit /\ (~Of("guard") => file = Absent)
    /\ P!PromotionInit
    /\ C!RunClaimsInit
    /\ ~Of("promotion") => managed /\ job[a2].todo = {2}
    /\ IF Of("geometry") THEN GeometryInit ELSE input = NoInput

MCNext ==
    /\ UNCHANGED <<part, input>>
    /\ \/ Of("maintenance") /\ Next /\ UNCHANGED <<guardVars, promotionVars, runVars>>
       \/ Of("guard") /\ G!GuardNext /\ UNCHANGED <<vars, promotionVars, runVars>>
       \/ Of("promotion") /\ P!PromotionNext /\ UNCHANGED <<vars, guardVars, runVars>>
       \/ Of("run claims") /\ C!RunClaimsNext /\ UNCHANGED <<vars, guardVars, promotionVars>>

MCVars == <<part, input, vars, guardVars, promotionVars, runVars>>
MCSpec == MCInit /\ [][MCNext]_MCVars

\* The fairness of the part that moves: FairSpec of Maintenance, and threads that run on.
MCFairSpec ==
    /\ MCSpec
    /\ \A w \in Writers : /\ WF_vars(Of("maintenance") /\ WriterStep(w))
                          /\ SF_vars(Of("maintenance") /\ RecordTerminal(w))
    /\ \A c \in Claimants : WF_vars(Of("maintenance") /\ ClaimantStep(c))
    /\ \A m \in Maintainers : WF_vars(Of("maintenance") /\ MaintainerStep(m))
    /\ WF_vars(Of("maintenance") /\ OperatorStep)
    /\ \A t \in {x1, x2, y1} : WF_guardVars(Of("guard") /\ G!Proceed(t))

-----------------------------------------------------------------------------
(* The properties of the parts; the others hold where they stand still.    *)

\* A conditional write takes effect at one instant, and nobody waits for the guard for ever
\* (conditional.py: "every compare runs under the guard"; _hold_guard gives it up however the
\* call ends): ActsAtOnce and CallsReturn of GuardFile.
GuardKeepsItsWord ==
    /\ G!F!FInit /\ [][Of("guard") => G!F!FNext]_guardVars
    /\ G!CallsReturn

\* What a staged run publishes is what it wrote, whoever else writes (publish_plan).
PromotionIsSafe ==
    /\ [](Of("promotion") => P!PromotionInvariant)
    /\ [][Of("promotion") => P!PromotionStep]_promotionVars

\* A run shares its schema claim among its batches without meeting or dropping it, and is
\* recorded complete only if no claim it held was seen lost (RunSchemaClaims, ClaimLossLatch).
RunKeepsItsClaims ==
    /\ [](Of("run claims") => C!RunClaimsInvariant)
    /\ [][Of("run claims") => C!RunClaimsStep]_runVars
=============================================================================
