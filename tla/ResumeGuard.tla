---------------------------- MODULE ResumeGuard ----------------------------
(***************************************************************************)
(* The start of an ingest run: ResumeGuard.enforce looks for a seal, reads *)
(* the entry of every listed run, refuses over runs that may still be      *)
(* writing and over recorded data, and only then is the start recorded     *)
(* (resume_guard.py, base.py, _wal_reader.py, _projection.py, events.py).  *)
(* Runs of several processes interleave with operators who abandon runs.   *)
(*                                                                         *)
(* One product, one plugin.  A slot stands for a time index and for its    *)
(* timestamp; a range is half-open, a recorded span inclusive.  Replaced   *)
(* and subtracted spans are the business of Ledger: here a recorded span   *)
(* of a complete run stays active.                                         *)
(***************************************************************************)
EXTENDS Integers, FiniteSets

CONSTANTS
    Runs,         \* run ids
    Groups,       \* Zarr groups
    AllGroups,    \* slot_group is None
    Sealable,     \* the groups a consolidation may seal
    Invocations,  \* the invocations that occur, see Invocation
    MaxSpans      \* bound: spans a run records

\* How a run is invoked: `from`..`to` - 1 are the slots it may write; `ranged`
\* says that they come from slot_start and slot_end; `windowed` that the slice
\* metadata has time_min and time_max; `mode` is the resume option.
Invocation(from, to, ranged, group, windowed, slice, mode) ==
    [from |-> from, to |-> to, ranged |-> ranged, group |-> group,
     windowed |-> windowed, slice |-> slice, mode |-> mode]

Modes == {"plain", "resume", "force"}

ASSUME ResumeGuardAssumption ==
    /\ AllGroups \notin Groups /\ Sealable \subseteq Groups
    /\ MaxSpans \in Nat
    /\ \A i \in Invocations :
         /\ i.from \in Nat /\ i.to \in Nat /\ i.from < i.to
         /\ i.ranged \in BOOLEAN /\ i.windowed \in BOOLEAN
         /\ i.group \in Groups \cup {AllGroups}
         /\ i.mode \in Modes

VARIABLES
    pc,      \* where the process of each run is
    inv,     \* its invocation
    entry,   \* its cache of run entries: the statuses it has read
    listed,  \* the runs its listing named and it has yet to read
    old,     \* the runs it judged stale
    status,  \* the status in each run.json, "none" before there is one
    seg,     \* the spans in the segments of each run
    buf,     \* the spans its writer has buffered
    seals,   \* groups with a ConsolidatedTimeCoord event
    doomed,  \* runs an operator has found not terminal and is abandoning
    known,   \* history: the runs whose start was recorded when enforce began
    closed,  \* history: the groups sealed when enforce began
    disowned,\* history: runs an operator abandoned
    blind    \* history: runs whose listing failed

guard == <<entry, listed, old>>
ledger == <<status, seg, buf>>
history == <<known, closed, disowned, blind>>
vars == <<pc, inv, guard, ledger, seals, doomed, history>>

Terminal == {"complete", "failed", "abandoned"}
Span(g, a, b) == [group |-> g, first |-> a, last |-> b]

-----------------------------------------------------------------------------
(* The comparisons.                                                        *)

\* _ranges_overlap: two half-open ranges.
RangesOverlap(i, j) == i.from < j.to /\ j.from < i.to

\* Mutant: the last slot of a span is taken for its open end.
SpanOverlapsHalfOpen(s, i) == s.first < i.to /\ i.from < s.last

\* _ranges_overlap_inclusive_vs_halfopen: a span and a half-open range.
SpanOverlaps(s, i) == s.first < i.to /\ i.from <= s.last

\* _meta_time_overlaps: a span and the run's window, both inclusive.
TimeOverlaps(s, i) == s.first <= i.to - 1 /\ s.last >= i.from

\* Groups differ only where both are named.
OtherGroup(g, h) == g # AllGroups /\ h # AllGroups /\ g # h

\* _check_time_coord_seal: without a slot group every seal blocks.
Sealed(i) == IF i.group = AllGroups THEN seals # {} ELSE i.group \in seals

\* _check_non_terminal_runs: does the non-terminal run invoked as j stop i?
BlockedBy(i, j, stale) ==
    CASE i.ranged /\ ~j.ranged -> ~stale
      [] i.ranged /\ j.ranged ->
           /\ ~OtherGroup(i.group, j.group)
           /\ RangesOverlap(j, i)
           /\ ~(j.from = i.from /\ j.to = i.to /\ i.mode = "resume")
      [] OTHER -> TRUE

-----------------------------------------------------------------------------
(* What the guard of r has read.                                           *)

NonTerminalRead(r) == {s \in Runs : entry[r][s] \notin Terminal \cup {"none"}}
CompleteRead(r) == {s \in Runs : entry[r][s] = "complete"}
FailedRead(r) == {s \in Runs : entry[r][s] = "failed"}

\* _check_completed_spans_for_slot_overlap.
SpanInTheWay(r) ==
    \E s \in CompleteRead(r) : \E x \in seg[s] :
        ~OtherGroup(inv[r].group, x.group) /\ SpanOverlaps(x, inv[r])

\* The spans _enforce compares an unranged run with: those that overlap its
\* window or, without a window, those of its slice.
SameGround(i, s, x) ==
    IF i.windowed THEN TimeOverlaps(x, i) ELSE inv[s].slice = i.slice

\* Mutant: only the current spans, those of complete runs, are looked at.
DataOfComplete(r) ==
    \E s \in CompleteRead(r) : \E x \in seg[s] : SameGround(inv[r], s, x)

\* existing_records of a plain run: current spans and active spans of failed runs.
DataInTheWay(r) ==
    \E s \in CompleteRead(r) \cup FailedRead(r) : \E x \in seg[s] : SameGround(inv[r], s, x)

-----------------------------------------------------------------------------
(* Initial state.                                                          *)

NoEntries == [s \in Runs |-> "none"]

Init ==
    /\ pc = [r \in Runs |-> "new"]
    /\ inv \in [Runs -> Invocations]
    /\ entry = [r \in Runs |-> NoEntries]
    /\ listed = [r \in Runs |-> {}]
    /\ old = [r \in Runs |-> {}]
    /\ status = [r \in Runs |-> "none"]
    /\ seg = [r \in Runs |-> {}]
    /\ buf = [r \in Runs |-> {}]
    /\ seals = {}
    /\ doomed = {}
    /\ known = [r \in Runs |-> {}]
    /\ closed = [r \in Runs |-> {}]
    /\ disowned = {}
    /\ blind = {}

Goto(r, l) == pc' = [pc EXCEPT ![r] = l]
PutStatus(r, s) == status' = [status EXCEPT ![r] = s]
Recorded == {s \in Runs : status[s] # "none"}

-----------------------------------------------------------------------------
(* enforce.                                                                *)

\* Mutant: force_reingest goes ahead before the seal is looked at.
EnforceForcesSeal(r) ==
    /\ pc[r] = "new"
    /\ Goto(r, IF inv[r].mode = "force" THEN "passed"
               ELSE IF Sealed(inv[r]) THEN "refused" ELSE "listing")
    /\ known' = [known EXCEPT ![r] = Recorded]
    /\ closed' = [closed EXCEPT ![r] = seals]
    /\ UNCHANGED <<inv, guard, ledger, seals, doomed, disowned, blind>>

\* _enforce begins: the seal binds every run; force_reingest skips the rest.
Enforce(r) ==
    /\ pc[r] = "new"
    /\ Goto(r, IF Sealed(inv[r]) THEN "refused"
               ELSE IF inv[r].mode = "force" THEN "passed" ELSE "listing")
    /\ known' = [known EXCEPT ![r] = Recorded]
    /\ closed' = [closed EXCEPT ![r] = seals]
    /\ UNCHANGED <<inv, guard, ledger, seals, doomed, disowned, blind>>

\* list_run_entries lists runs/ once; a run directory of a run that has not
\* written its run.json yet gives no entry.
ListRuns(r) ==
    /\ pc[r] = "listing"
    /\ listed' = [listed EXCEPT ![r] = Recorded]
    /\ Goto(r, "reading")
    /\ UNCHANGED <<inv, entry, old, ledger, seals, doomed, history>>

\* The listing raises: list_run_entries logs it and returns no entries, so the
\* guard goes on as for a product without runs.
ListFails(r) ==
    /\ pc[r] = "listing"
    /\ blind' = blind \cup {r}
    /\ Goto(r, "reading")
    /\ UNCHANGED <<inv, guard, ledger, seals, doomed, known, closed, disowned>>

\* read_run_entry, one run after the other; the cache keeps the payload for
\* the rest of enforce.
ReadEntry(r, s) ==
    /\ pc[r] = "reading" /\ s \in listed[r]
    /\ entry' = [entry EXCEPT ![r][s] = status[s]]
    /\ listed' = [listed EXCEPT ![r] = @ \ {s}]
    /\ UNCHANGED <<pc, inv, old, ledger, seals, doomed, history>>

\* The entries are read; _check_non_terminal_runs judges them by the clock, so
\* that any of them may be stale.
CheckRuns(r) ==
    /\ pc[r] = "reading" /\ listed[r] = {}
    /\ \E stale \in SUBSET NonTerminalRead(r) :
         /\ old' = [old EXCEPT ![r] = stale]
         /\ Goto(r, IF \E s \in NonTerminalRead(r) : BlockedBy(inv[r], inv[s], s \in stale)
                    THEN "refused" ELSE "spans")
    /\ UNCHANGED <<inv, entry, listed, ledger, seals, doomed, history>>

\* The rest of _enforce: the range check, or the broad check of an unranged run,
\* which resume_existing passes.
CheckSpans(r) ==
    /\ pc[r] = "spans"
    /\ Goto(r, IF \/ inv[r].ranged /\ SpanInTheWay(r)
                  \/ ~inv[r].ranged /\ inv[r].mode = "plain" /\ DataInTheWay(r)
               THEN "refused" ELSE "passed")
    /\ UNCHANGED <<inv, guard, ledger, seals, doomed, history>>

-----------------------------------------------------------------------------
(* The run.                                                                *)

\* register_run_started: the writer is created and run.json written.
Start(r) ==
    /\ pc[r] = "passed"
    /\ Goto(r, "running") /\ PutStatus(r, "started")
    /\ UNCHANGED <<inv, guard, seg, buf, seals, doomed, history>>

\* The groups a run may write: a slot group counts only with a slot range.
GroupsOf(i) == IF i.ranged /\ i.group # AllGroups THEN {i.group} ELSE Groups

\* filter_items_by_index keeps the items of the slots from..to - 1.
InRange(i, a, b) == i.from <= a /\ a <= b /\ b < i.to

\* A batch wrote slots a..b of g and recorded its span: buffered, or flushed
\* with the segment.  A flush, and a heartbeat of the metadata that is due, put
\* the writer's own status in run.json.
RecordSpan(r, g, a, b) ==
    /\ pc[r] = "running" /\ Cardinality(seg[r] \cup buf[r]) < MaxSpans
    /\ g \in GroupsOf(inv[r]) /\ InRange(inv[r], a, b)
    /\ \A x \in seg[r] \cup buf[r] : x.group = g => b < x.first \/ x.last < a
    /\ \/ /\ buf' = [buf EXCEPT ![r] = @ \cup {Span(g, a, b)}]
          /\ UNCHANGED seg
          /\ UNCHANGED status \/ PutStatus(r, "started")
       \/ /\ seg' = [seg EXCEPT ![r] = @ \cup buf[r] \cup {Span(g, a, b)}]
          /\ buf' = [buf EXCEPT ![r] = {}]
          /\ PutStatus(r, "started")
    /\ UNCHANGED <<pc, inv, guard, seals, doomed, history>>

\* record_run_terminal: the buffer is flushed, then run.json is final.
End(r, s) ==
    /\ pc[r] = "running"
    /\ seg' = [seg EXCEPT ![r] = @ \cup buf[r]]
    /\ buf' = [buf EXCEPT ![r] = {}]
    /\ Goto(r, "ended") /\ PutStatus(r, s)
    /\ UNCHANGED <<inv, guard, seals, doomed, history>>

\* The process dies; what it buffered is gone, run.json stays as it is.  Before
\* the start nothing is kept: a run that dies there takes no further step.
Crash(r) ==
    /\ pc[r] = "running"
    /\ Goto(r, "crashed")
    /\ buf' = [buf EXCEPT ![r] = {}]
    /\ UNCHANGED <<inv, guard, status, seg, seals, doomed, history>>

-----------------------------------------------------------------------------
(* Operators.                                                              *)

\* abandon_run reads the run's entry; a terminal run is left alone.
AbandonReads(s) ==
    /\ s \notin doomed /\ status[s] \notin Terminal \cup {"none"}
    /\ doomed' = doomed \cup {s}
    /\ UNCHANGED <<pc, inv, guard, ledger, seals, history>>

\* It records the terminal event by a writer of its own.
AbandonWrites(s) ==
    /\ s \in doomed
    /\ PutStatus(s, "abandoned")
    /\ doomed' = doomed \ {s}
    /\ disowned' = disowned \cup {s}
    /\ UNCHANGED <<pc, inv, guard, seg, buf, seals, known, closed, blind>>

\* zarr consolidate-time-coord records which groups it sealed; it asks for no
\* run to have ended.
Seal(g) ==
    /\ g \notin seals
    /\ seals' = seals \cup {g}
    /\ UNCHANGED <<pc, inv, guard, ledger, doomed, history>>

-----------------------------------------------------------------------------
Slots == UNION {i.from .. i.to - 1 : i \in Invocations}

Next ==
    \/ \E r \in Runs : Enforce(r)
    \/ \E r \in Runs : ListRuns(r)
    \/ \E r \in Runs : ListFails(r)
    \/ \E r, s \in Runs : ReadEntry(r, s)
    \/ \E r \in Runs : CheckRuns(r)
    \/ \E r \in Runs : CheckSpans(r)
    \/ \E r \in Runs : Start(r)
    \/ \E r \in Runs, g \in Groups : \E a, b \in Slots : RecordSpan(r, g, a, b)
    \/ \E r \in Runs, s \in {"complete", "failed"} : End(r, s)
    \/ \E r \in Runs : Crash(r)
    \/ \E s \in Runs : AbandonReads(s)
    \/ \E s \in Runs : AbandonWrites(s)
    \/ \E g \in Sealable : Seal(g)

Spec == Init /\ [][Next]_vars

-----------------------------------------------------------------------------
(* Properties.                                                             *)

Spans == [group : Groups, first : Slots, last : Slots]
Statuses == Terminal \cup {"none", "started"}
Labels == {"new", "listing", "reading", "spans", "passed", "refused", "running",
           "ended", "crashed"}

\* Every variable has its type, and a run records spans of its own slots only.
TypeOK ==
    /\ pc \in [Runs -> Labels]
    /\ inv \in [Runs -> Invocations]
    /\ entry \in [Runs -> [Runs -> Statuses]]
    /\ listed \in [Runs -> SUBSET Runs]
    /\ old \in [Runs -> SUBSET Runs]
    /\ status \in [Runs -> Statuses]
    /\ seg \in [Runs -> SUBSET Spans]
    /\ buf \in [Runs -> SUBSET Spans]
    /\ \A r \in Runs : \A x \in seg[r] \cup buf[r] : inv[r].from <= x.first /\ x.last < inv[r].to
    /\ seals \subseteq Groups
    /\ doomed \subseteq Runs
    /\ known \in [Runs -> SUBSET Runs]
    /\ closed \in [Runs -> SUBSET Groups]
    /\ disowned \subseteq Runs /\ blind \subseteq Runs

\* The guard let r go on.
Admitted(r) == pc[r] \in {"passed", "running", "ended"}

\* The places, pairs of group and slot, that an invocation may write and that a
\* run has recorded.
Ground(i) == GroupsOf(i) \X (i.from .. i.to - 1)
Written(s) == UNION {{x.group} \X (x.first .. x.last) : x \in seg[s]}

\* The runs r must have noticed: their start was recorded when its guard began,
\* no operator has taken them out of the ledger by hand, and its listing did not
\* fail.
Noticed(r) == IF r \in blind THEN {} ELSE known[r] \ disowned

SameRange(i, j) == i.from = j.from /\ i.to = j.to

\* A run with a slot range that does not force its way never starts on slots of
\* a run it must have noticed, unless that run failed, completed without
\* recording any of those slots, was active on the same range and is being
\* resumed, or has no range and was judged stale: nothing it could do between
\* the listing, the reads of the entries and the reads of the spans hides it.
RangesKeepApart ==
    \A r \in Runs : Admitted(r) /\ inv[r].ranged /\ inv[r].mode # "force" =>
        \A s \in Noticed(r) :
            \/ Ground(inv[r]) \cap Ground(inv[s]) = {}
            \/ status[s] = "failed"
            \/ status[s] = "complete" /\ Ground(inv[r]) \cap Written(s) = {}
            \/ inv[r].mode = "resume" /\ SameRange(inv[r], inv[s]) /\ entry[r][s] = "started"
            \/ ~inv[s].ranged /\ s \in old[r]

\* A run without a slot range that does not force its way starts only when all
\* the runs it must have noticed are over; a plain one only when none of them,
\* failed ones included, left a span on its ground.
PlainRunsStartClean ==
    \A r \in Runs : Admitted(r) /\ ~inv[r].ranged /\ inv[r].mode # "force" =>
        \A s \in Noticed(r) :
            /\ status[s] \in {"complete", "failed"}
            /\ inv[r].mode = "plain" =>
                 IF inv[r].windowed
                 THEN \A x \in seg[s] : (inv[r].from .. inv[r].to - 1) \cap (x.first .. x.last) = {}
                 ELSE inv[s].slice = inv[r].slice => seg[s] = {}

SealCoversGroups(i) == i.ranged \/ i.group = AllGroups

\* No run, forced or not, starts on a group that was sealed when its guard began,
\* except for a run with a slot group and no slot range: it writes every group
\* after its guard looked at the seal of one.
SealsHold ==
    \A r \in Runs : Admitted(r) /\ SealCoversGroups(inv[r]) =>
        GroupsOf(inv[r]) \cap closed[r] = {}

=============================================================================
