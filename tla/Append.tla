------------------------------- MODULE Append -------------------------------
(***************************************************************************)
(* Appends to the groups of a Zarr product (append_time_groups and         *)
(* _write_batch in append.py, AppendResumeService in append_services.py,   *)
(* AppendOrder in append_order.py, repair_failed_group in                  *)
(* append_failure.py, write_dataset_to_zarr in write.py).  A call appends  *)
(* one batch to each of its groups in turn: under the group's claim it     *)
(* finds the end of the axis, decides what the batch overwrites and what   *)
(* it appends, writes, and hands its coverage on.  A write that raises is  *)
(* repaired after the claim is released.                                   *)
(*                                                                         *)
(* Direct writes; the batch of a call goes to each group whole, as         *)
(* GenericZarr passes it.  A group has a time coordinate, one payload      *)
(* array and the timestamp states; xarray grows each array from that       *)
(* array's own end.  What is done to a group in conditions no append can   *)
(* undo is kept in the history variable tainted.                           *)
(***************************************************************************)
EXTENDS Integers, FiniteSets, Sequences, SequencesExt

CONSTANTS
    Processes,   \* ingesting processes
    Groups,      \* Zarr groups
    Timestamps,  \* values of the append coordinate (naturals from 1)
    Loads        \* bounds, one chosen at the start: numbers of calls, further runs, faults and
                 \* deletions; modes of runs (plain, resume, force), lists of groups and
                 \* sequences of timestamps of calls

VARIABLES
    store,     \* the groups: which arrays each has, and their contents
    holder,    \* the process that holds the claim of each group
    pc,        \* where each process is
    run,       \* its run: mode and the latch of its claims
    call,      \* its call: groups, position, timestamps, version of the payloads, whether it wrote
    job,       \* what it does to the current group
    cache,     \* its process-wide resume cache: the cursor of each group
    order,     \* the prefix of each coordinate that its run has validated
    covered,   \* history: slots reported as written, by group, index and timestamp
    tainted,   \* history: what happened to a group that its appends do not undo
    left       \* what is left of the load

pvars == <<store, holder, pc, run, call, job, cache, order, covered, tainted, left>>

Arrays == {"coord", "data", "state"}
NoProc == "none"
NoEntry == -1
Present == 1
Deleted == 2
Failed == 3
Torn == [t |-> 0, v |-> 0]                    \* fill values, or part of a payload
NoGroup == [has |-> {}, coord |-> <<>>, data |-> <<>>, state |-> <<>>]
NoBound == [len |-> 0, max |-> 0]
NoCall == [groups |-> <<>>, at |-> 1, ts |-> <<>>, v |-> 0, wrote |-> FALSE, some |-> FALSE]
NoJob == [region |-> <<>>, tail |-> <<>>, lo |-> 0, cursor |-> 0, len |-> 0, fresh |-> FALSE,
          touched |-> FALSE, cov |-> {}, before |-> NoGroup]

AppendInit ==
    /\ store = [g \in Groups |-> NoGroup] /\ holder = [g \in Groups |-> NoProc]
    /\ pc = [p \in Processes |-> "idle"]
    /\ call = [p \in Processes |-> NoCall] /\ job = [p \in Processes |-> NoJob]
    /\ cache = [p \in Processes |-> [g \in Groups |-> NoEntry]]
    /\ order = [p \in Processes |-> [g \in Groups |-> NoBound]]
    /\ covered = {} /\ tainted = [g \in Groups |-> {}] /\ left \in Loads
    /\ run \in [Processes -> {[mode |-> m, latch |-> FALSE] : m \in left.modes}]

Busy == {"held", "ready", "tail", "written", "broken", "repair"}
Group(p) == call[p].groups[call[p].at]
Here(p, g) == pc[p] \in Busy /\ Group(p) = g
GoTo(p, at) == pc' = [pc EXCEPT ![p] = at]
Increasing(s) == \A i \in 1 .. Len(s) - 1 : s[i] < s[i + 1]
Payloads(p, ts) == [i \in 1 .. Len(ts) |-> [t |-> ts[i], v |-> call[p].v]]
Taint(g, why) == tainted' = [tainted EXCEPT ![g] = @ \cup why]
Spend(what) == left[what] > 0 /\ left' = [left EXCEPT ![what] = @ - 1]

---------------------------------------------------------------------------
(* Runs and calls.                                                         *)

\* A new run of the process: its own mode, order and latch, the same cache.
NewRun(p) ==
    /\ pc[p] \in {"idle", "refused", "failed"} /\ Spend("runs")
    /\ \E m \in left.modes : run' = [run EXCEPT ![p] = [mode |-> m, latch |-> FALSE]]
    /\ order' = [order EXCEPT ![p] = [g \in Groups |-> NoBound]]
    /\ GoTo(p, "idle") /\ call' = [call EXCEPT ![p] = NoCall]
    /\ UNCHANGED <<store, holder, job, cache, covered, tainted>>

\* The next batch of the run; a run that lost a claim admits none, and one batch that failed is the last.
Begin(p) ==
    /\ pc[p] = "idle" /\ ~run[p].latch /\ Spend("calls")
    /\ \E gs \in left.lists, b \in left.batches :
           call' = [call EXCEPT ![p] = [NoCall EXCEPT !.groups = gs, !.ts = b, !.v = left.calls]]
    /\ GoTo(p, "calling")
    /\ UNCHANGED <<store, holder, run, job, cache, order, covered, tainted>>

\* The call ends without its remaining groups: refused if it wrote nothing and reports nothing.
GiveUp(p, touched) == /\ GoTo(p, IF touched \/ call[p].some THEN "failed" ELSE "refused")
                      /\ job' = [job EXCEPT ![p] = NoJob]

\* The claim of the next group.  A group whose last writer has lost its claim, or has released it
\* and not yet repaired its write, can be taken.
Unsettled(g, p) == \E q \in Processes \ {p} :
    Here(q, g) /\ pc[q] # "written" /\ (pc[q] \in {"broken", "repair"} => job[q].touched)
Acquire(p) ==
    LET g == Group(p) IN
    /\ pc[p] = "calling"
    /\ IF holder[g] = NoProc
       THEN /\ holder' = [holder EXCEPT ![g] = p] /\ GoTo(p, "held") /\ UNCHANGED job
            /\ Taint(g, IF Unsettled(g, p) THEN {"raced"} ELSE {})
       ELSE GiveUp(p, FALSE) /\ UNCHANGED <<holder, tainted>>
    /\ UNCHANGED <<store, run, call, cache, order, covered, left>>

---------------------------------------------------------------------------
(* The decision: what a batch overwrites and what it appends.              *)

\* A group of the time before the states gets them, every slot of it present.
Upgraded(s, cursor, fromCache) ==
    IF "state" \in s.has \/ cursor = 0 \/ fromCache THEN s
    ELSE [s EXCEPT !.has = @ \cup {"state"}, !.state = [i \in 1 .. cursor |-> Present]]

\* Timestamps a resumed run drops: the store holds them, in state 1.
SkipSet(s, ts) ==
    {ts[k] : k \in {j \in 1 .. Len(ts) : \E i \in 1 .. Len(s.coord) :
        s.coord[i] = ts[j] /\ i <= Len(s.state) /\ s.state[i] = Present}}

\* The slots of a batch that the store has, and the positions in the batch of what it has not.
Overlap(s, ts) == {i \in 1 .. Len(s.coord) : \E k \in 1 .. Len(ts) : ts[k] = s.coord[i]}
Unknown(s, ts) == {k \in 1 .. Len(ts) : \A i \in 1 .. Len(s.coord) : s.coord[i] # ts[k]}

\* A batch may overwrite a contiguous run of slots and add timestamps after the last one; it never
\* inserts.  (The refusal of a run of slots before the end, followed by new timestamps, cannot
\* apply: what is new is already known to lie beyond the end.)
Classifiable(s, ts) ==
    /\ {"coord", "state"} \subseteq s.has /\ Overlap(s, ts) \subseteq 1 .. Len(s.state)
    /\ \A i, j \in 1 .. Len(s.coord) : i < j => s.coord[i] < s.coord[j]
    /\ \A k \in Unknown(s, ts) : s.coord # <<>> => ts[k] >= Last(s.coord)
    /\ \A i, j \in Overlap(s, ts) : i .. j \subseteq Overlap(s, ts)
    /\ \A j \in 1 .. Len(ts), k \in Unknown(s, ts) : j > k => j \in Unknown(s, ts)

\* AppendOrder: only what was added since the last look is read; the rest is remembered.
Bound(p, g) ==
    LET s == store[g].coord IN
    IF "coord" \notin store[g].has THEN NoBound
    ELSE IF order[p][g].len > Len(s) THEN NoBound ELSE order[p][g]
Unread(p, g) == SubSeq(store[g].coord, Bound(p, g).len + 1, Len(store[g].coord))
ReadInOrder(p, g) ==
    /\ Increasing(Unread(p, g))
    /\ Unread(p, g) # <<>> => Head(Unread(p, g)) > Bound(p, g).max
NewBound(p, g) == [len |-> Len(store[g].coord),
                   max |-> IF Unread(p, g) = <<>> THEN Bound(p, g).max ELSE Last(Unread(p, g))]
MayAppend(p, g, tail) == ReadInOrder(p, g) /\ Head(tail) > NewBound(p, g).max

\* The plan of a batch for the group as it is: the slots it overwrites, then the timestamps it appends.
Plan(s, ts, cursor, exists, overwrites) ==
    LET slots == IF exists /\ overwrites THEN Overlap(s, ts) ELSE {}
        n     == Cardinality(slots)
    IN  [NoJob EXCEPT !.region = SubSeq(ts, 1, n), !.tail = SubSeq(ts, n + 1, Len(ts)),
                      !.lo = IF n = 0 THEN 0 ELSE CHOOSE i \in slots : \A j \in slots : i <= j,
                      !.cursor = cursor, !.len = Len(s.data), !.fresh = ~exists, !.before = s]

\* A loss found in time, an unsorted batch, a batch that may not be classified or appended: the write
\* raises before it began.
Refuse(p) == GoTo(p, "broken") /\ UNCHANGED job

\* The end of the axis: as the process last left it, else the length of the payload array.
Exists(g) == "data" \in store[g].has
Cursor(p, g) == IF cache[p][g] # NoEntry THEN cache[p][g] ELSE Len(store[g].data)

Prepare(p) ==
    LET g      == Group(p)
        exists == Exists(g)
        cursor == IF exists THEN Cursor(p, g) ELSE 0
        s      == Upgraded(store[g], cursor, cache[p][g] # NoEntry)
        mode   == run[p].mode
        skip   == IF exists /\ mode = "resume" THEN SkipSet(s, call[p].ts) ELSE {}
        ts     == SelectSeq(call[p].ts, LAMBDA x : x \notin skip)
        plan   == Plan(s, ts, cursor, exists, mode # "plain")
        sound  == (exists /\ mode # "plain") => Classifiable(s, ts)
    IN
    /\ pc[p] = "held"
    /\ IF run[p].latch \/ ~Increasing(call[p].ts)
       THEN Refuse(p) /\ UNCHANGED <<store, cache, order>>
       ELSE /\ store' = [store EXCEPT ![g] = s]
            /\ cache' = [cache EXCEPT ![p][g] = IF exists /\ cursor > 0 THEN cursor ELSE @]
            /\ IF ts = <<>> THEN GoTo(p, "written") /\ UNCHANGED <<job, order>>
               ELSE IF ~sound THEN Refuse(p) /\ UNCHANGED order
               ELSE /\ order' = [order EXCEPT ![p][g] = IF plan.tail # <<>> /\ ReadInOrder(p, g)
                                                        THEN NewBound(p, g) ELSE @]
                    /\ IF plan.tail = <<>> \/ MayAppend(p, g, plan.tail)
                       THEN job' = [job EXCEPT ![p] = plan] /\ GoTo(p, "ready")
                       ELSE Refuse(p)
    /\ UNCHANGED <<holder, run, call, covered, tainted, left>>

---------------------------------------------------------------------------
(* The writes.                                                             *)

\* A cursor read from a cache that other writers have left behind.
Stale(p) == IF job[p].cursor # job[p].len THEN {"stale"} ELSE {}
Region(p) == job[p].lo .. job[p].lo + Len(job[p].region) - 1
Put(seq, slots, f) == [i \in 1 .. Len(seq) |-> IF i \in slots THEN f[i] ELSE seq[i]]
Slots(g, at, ts) == {[g |-> g, i |-> at + k, t |-> ts[k]] : k \in 1 .. Len(ts)}
Touch(p, cov) ==
    /\ job' = [job EXCEPT ![p].touched = TRUE, ![p].cov = @ \cup cov]
    /\ call' = [call EXCEPT ![p].wrote = TRUE]

\* The overwritten slots: the payload, then their state.  The coordinate must still be what was classified.
WriteRegion(p) ==
    LET g == Group(p)
        s == store[g]
        new == [i \in Region(p) |-> [t |-> job[p].region[i - job[p].lo + 1], v |-> call[p].v]]
    IN
    /\ pc[p] = "ready" /\ job[p].region # <<>>
    /\ IF /\ Len(s.coord) >= job[p].lo + Len(job[p].region) - 1
          /\ SubSeq(s.coord, job[p].lo, job[p].lo + Len(job[p].region) - 1) = job[p].region
       THEN /\ store' = [store EXCEPT ![g].data = Put(@, Region(p), new),
                                      ![g].state = Put(@, Region(p), [i \in Region(p) |-> Present])]
            /\ Touch(p, Slots(g, job[p].lo - 1, job[p].region))
            /\ GoTo(p, IF job[p].tail = <<>> THEN "written" ELSE "tail")
       ELSE UNCHANGED <<store, call>> /\ job' = [job EXCEPT ![p].touched = TRUE] /\ GoTo(p, "broken")
    /\ UNCHANGED <<holder, run, cache, order, covered, tainted, left>>

\* It raises part-way: any of its slots may be torn.
BreakRegion(p) ==
    LET g == Group(p) IN
    /\ pc[p] = "ready" /\ job[p].region # <<>> /\ Spend("faults")
    /\ \E torn \in SUBSET Region(p) :
           store' = [store EXCEPT ![g].data = Put(@, torn, [i \in torn |-> Torn])]
    /\ Touch(p, {}) /\ GoTo(p, "broken")
    /\ UNCHANGED <<holder, run, cache, order, covered, tainted>>

\* An append: a new group replaces what is there, else each array grows at its own end.  grown are the
\* arrays resized so far, filled those that hold their values.
Grow(s, p, grown, filled) ==
    LET old == IF job[p].fresh THEN NoGroup ELSE s
        ts == job[p].tail
        values(a) == IF a = "coord" THEN IF a \in filled THEN ts ELSE [k \in 1 .. Len(ts) |-> 0]
                     ELSE IF a = "data" THEN IF a \in filled THEN Payloads(p, ts)
                                             ELSE [k \in 1 .. Len(ts) |-> Torn]
                     ELSE [k \in 1 .. Len(ts) |-> IF a \in filled THEN Present ELSE 0]
        next(a, seq) == IF a \in grown THEN seq \o values(a) ELSE seq
    IN  [has |-> old.has \cup grown, coord |-> next("coord", old.coord),
         data |-> next("data", old.data), state |-> next("state", old.state)]
AtTail(p) == pc[p] = "tail" \/ (pc[p] = "ready" /\ job[p].region = <<>>)

WriteTail(p) ==
    LET g == Group(p) IN
    /\ AtTail(p)
    /\ store' = [store EXCEPT ![g] = Grow(@, p, Arrays, Arrays)]
    /\ Touch(p, Slots(g, job[p].cursor, job[p].tail))
    /\ Taint(g, Stale(p)) /\ GoTo(p, "written")
    /\ UNCHANGED <<holder, run, cache, order, covered, left>>

BreakTail(p) ==
    LET g == Group(p) IN
    /\ AtTail(p) /\ Spend("faults")
    /\ \E grown \in SUBSET Arrays : \E filled \in SUBSET grown :
           /\ filled # Arrays
           /\ store' = [store EXCEPT ![g] = Grow(@, p, grown, filled)]
    /\ Touch(p, {}) /\ GoTo(p, "broken")
    /\ UNCHANGED <<holder, run, cache, order, covered, tainted>>

---------------------------------------------------------------------------
(* The end of a group: the claim is released, the outcome recorded.        *)

\* The release of a claim that is gone sets the run's latch.
Leave(p) ==
    LET g == Group(p) IN
    /\ holder' = [holder EXCEPT ![g] = IF @ = p THEN NoProc ELSE @]
    /\ run' = [run EXCEPT ![p].latch = @ \/ holder[g] # p]

\* The batch of the group is written: the cache follows the cursor and the coverage is handed on,
\* unless the claim turns out to be lost.
Finish(p) ==
    LET g == Group(p)
        done == call[p].at = Len(call[p].groups)
        lost == run'[p].latch
        wrote == job[p].touched
    IN
    /\ pc[p] = "written" /\ Leave(p)
    /\ cache' = [cache EXCEPT ![p][g] = IF wrote THEN job[p].cursor + Len(job[p].tail) ELSE @]
    /\ IF lost THEN UNCHANGED <<call, covered>> /\ GiveUp(p, wrote)
       ELSE /\ covered' = covered \cup job[p].cov
            /\ job' = [job EXCEPT ![p] = NoJob]
            /\ call' = IF done THEN [call EXCEPT ![p] = NoCall]
                       ELSE [call EXCEPT ![p].at = @ + 1, ![p].some = @ \/ wrote]
            /\ GoTo(p, IF done THEN "idle" ELSE "calling")
    /\ UNCHANGED <<store, order, tainted, left>>

\* The exception leaves the claim; what was touched is repaired, but not after a lost claim.
Unwind(p) ==
    /\ pc[p] = "broken" /\ Leave(p)
    /\ IF job[p].touched /\ ~run'[p].latch THEN GoTo(p, "repair") /\ UNCHANGED <<job, tainted>>
       ELSE GiveUp(p, job[p].touched) /\ Taint(Group(p), IF job[p].touched THEN {"lost"} ELSE {})
    /\ UNCHANGED <<store, call, cache, order, covered, left>>

\* The repair: a new group goes; else the arrays are cut back to the cursor and the region is marked.
Cut(seq, n) == IF Len(seq) > n THEN SubSeq(seq, 1, n) ELSE seq
TruncatedPayload(s, n, arrays) == [s EXCEPT !.coord = Cut(@, n), !.data = Cut(@, n)]
Truncated(s, n, arrays) ==
    [s EXCEPT !.coord = IF "coord" \in arrays THEN Cut(@, n) ELSE @,
              !.data = IF "data" \in arrays THEN Cut(@, n) ELSE @,
              !.state = IF "state" \in arrays THEN Cut(@, n) ELSE @]
Marked(s, slots) == [s EXCEPT !.state = Put(@, slots, [i \in slots |-> Failed])]
Rewound(entry, n, removed) == IF entry = NoEntry \/ removed THEN NoEntry ELSE n

Repair(p) ==
    LET g == Group(p)
        fresh == job[p].fresh
        fixed == IF fresh THEN NoGroup
                 ELSE Marked(Truncated(store[g], job[p].cursor, Arrays), Region(p))
    IN
    /\ pc[p] = "repair"
    /\ store' = [store EXCEPT ![g] = fixed]
    /\ cache' = [cache EXCEPT ![p][g] = Rewound(@, job[p].cursor, fresh)]
    /\ Taint(g, Stale(p)) /\ GiveUp(p, TRUE)
    /\ UNCHANGED <<holder, run, call, order, covered, left>>

\* A step of the repair fails, the others are tried: the store may still hold the partial write.
RepairFails(p) ==
    LET g == Group(p) IN
    /\ pc[p] = "repair" /\ Spend("faults")
    /\ \E cut \in SUBSET Arrays, slots \in {{}, Region(p)} :
           /\ job[p].fresh => cut = {} /\ slots = {}
           /\ cut # Arrays \/ slots # Region(p)
           /\ store' = [store EXCEPT ![g] = Marked(Truncated(@, job[p].cursor, cut), slots)]
    /\ cache' = [cache EXCEPT ![p][g] = Rewound(@, job[p].cursor, FALSE)]
    /\ Taint(g, {"unrepaired"}) /\ GiveUp(p, TRUE)
    /\ UNCHANGED <<holder, run, call, order, covered>>

---------------------------------------------------------------------------
(* The surroundings: crashes, lost claims, deletions.                      *)

\* A process dies; its claim stays.  A write it left unfinished stays too.
Crash(p) ==
    /\ pc[p] \in Busy \cup {"calling"} /\ Spend("faults") /\ GoTo(p, "dead")
    /\ tainted' = [g \in Groups |-> tainted[g] \cup
           IF Here(p, g) /\ pc[p] \in {"broken", "repair"} /\ job[p].touched THEN {"crashed"} ELSE {}]
    /\ UNCHANGED <<store, holder, run, call, job, cache, order, covered>>

\* The claim of a dead process is cleared.
ClearDead(g) ==
    /\ holder[g] \in Processes /\ pc[holder[g]] = "dead"
    /\ holder' = [holder EXCEPT ![g] = NoProc]
    /\ UNCHANGED <<store, pc, run, call, job, cache, order, covered, tainted, left>>

\* A live process loses its claim; its heartbeat may or may not have noticed.
Lose(p) ==
    /\ pc[p] \in Busy /\ holder[Group(p)] = p /\ Spend("faults")
    /\ holder' = [holder EXCEPT ![Group(p)] = NoProc]
    /\ \E noticed \in BOOLEAN : run' = [run EXCEPT ![p].latch = @ \/ noticed]
    /\ UNCHANGED <<store, pc, call, job, cache, order, covered, tainted>>

\* A deletion takes the payload of a slot away and marks the slot.
Delete(g) ==
    /\ holder[g] = NoProc /\ (\A p \in Processes : ~Here(p, g))
    /\ "state" \in store[g].has /\ Spend("deletions")
    /\ \E i \in 1 .. Len(store[g].state) :
           /\ i <= Len(store[g].data)
           /\ store' = [store EXCEPT ![g].data[i] = Torn, ![g].state[i] = Deleted]
    /\ UNCHANGED <<holder, pc, run, call, job, cache, order, covered, tainted>>

AppendNext ==
    \/ \E p \in Processes :
           \/ NewRun(p) \/ Begin(p) \/ Acquire(p) \/ Prepare(p)
           \/ WriteRegion(p) \/ BreakRegion(p) \/ WriteTail(p) \/ BreakTail(p)
           \/ Finish(p) \/ Unwind(p) \/ Repair(p) \/ RepairFails(p) \/ Crash(p) \/ Lose(p)
    \/ \E g \in Groups : ClearDead(g) \/ Delete(g)

AppendSpec == AppendInit /\ [][AppendNext]_pvars

---------------------------------------------------------------------------
(* Properties.                                                             *)

Payload == [t : Timestamps, v : Nat] \cup {Torn}
AppendTypeOK ==
    /\ \A g \in Groups : /\ store[g].has \subseteq Arrays /\ holder[g] \in Processes \cup {NoProc}
                         /\ \A i \in 1 .. Len(store[g].coord) : store[g].coord[i] \in Timestamps \cup {0}
                         /\ \A i \in 1 .. Len(store[g].data) : store[g].data[i] \in Payload
                         /\ \A i \in 1 .. Len(store[g].state) : store[g].state[i] \in 0 .. Failed
    /\ \A p \in Processes : pc[p] \in Busy \cup {"idle", "calling", "refused", "failed", "dead"}

\* No exception is waiting for its repair in the group.
Settled(g) == \A p \in Processes : ~(Here(p, g) /\ pc[p] \in {"broken", "repair"} /\ job[p].touched)

\* However writes fail and are repaired, the arrays of a group are equally long, its timestamps
\* increase, and a slot in state 1 holds the whole payload of its own timestamp - also for a
\* writer whose cached cursor is stale, unless a claim, a repair or a process was lost on the way.
GroupsAreWhole == \A g \in Groups : Settled(g) /\ tainted[g] \subseteq {"stale"} =>
    LET s == store[g] IN
    /\ s.has \in {{}, Arrays} /\ Len(s.coord) = Len(s.data) /\ Len(s.state) = Len(s.data)
    /\ Increasing(s.coord)
    /\ \A i \in 1 .. Len(s.state) : s.state[i] = Present => s.data[i].t = s.coord[i]

\* What a call reports as written is in the store, at the index and for the timestamp it reports:
\* no repair cuts away or moves what another batch or another process has handed on.
CoverageIsStored == \A c \in covered : tainted[c.g] = {} =>
    c.i <= Len(store[c.g].coord) /\ store[c.g].coord[c.i] = c.t

\* A call refused before it reported anything has written nothing.
RefusalWritesNothing == \A p \in Processes : pc[p] = "refused" => ~call[p].wrote

\* A repair that reports no error leaves the group as it was before the batch, except that the
\* slots the batch meant to overwrite are marked as failed.
FailedBatchIsUndone == \A p \in Processes :
    LET g == Group(p)
        was == job[p].before
        now == store'[g]
    IN  pc[p] = "repair" /\ pc'[p] = "failed" /\ tainted'[g] = {} =>
            /\ now.has = was.has /\ now.coord = was.coord
            /\ Len(now.data) = Len(was.data) /\ Len(now.state) = Len(was.state)
            /\ \A i \in 1 .. Len(was.data) :
                   IF i \in Region(p) THEN now.state[i] = Failed
                   ELSE now.data[i] = was.data[i] /\ now.state[i] = was.state[i]

\* A resumed run never replaces the payload of a timestamp whose state is 1.
ResumeKeepsPresent == \A p \in Processes :
    LET g == Group(p) IN
    (run[p].mode = "resume" /\ pc[p] \in {"ready", "tail"} /\ pc'[p] \notin {pc[p], "dead"}) =>
        \A i \in 1 .. Len(store[g].data) :
            i <= Len(store[g].state) /\ store[g].state[i] = Present /\ ~job[p].fresh =>
                store'[g].data[i] = store[g].data[i]

AppendInvariant ==
    AppendTypeOK /\ GroupsAreWhole /\ CoverageIsStored /\ RefusalWritesNothing

AppendStep ==
    FailedBatchIsUndone /\ ResumeKeepsPresent

\* Appends lose nothing that was written, report what is there, and undo what failed.
AppendsAreAccountedFor == []AppendInvariant /\ [][AppendStep]_pvars

\* The resume cache is best effort and correctness does not depend on its hits: what is reported as
\* written is there, also when another process has appended since the cursor was cached.
CacheIsOnlyASpeedUp == \A c \in covered : tainted[c.g] \subseteq {"stale"} =>
    c.i <= Len(store[c.g].coord) /\ store[c.g].coord[c.i] = c.t
====
