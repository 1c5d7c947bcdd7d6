------------------------------- MODULE Ledger -------------------------------
(***************************************************************************)
(* The chunk ledger of one product: every run appends span events to its   *)
(* own WAL directory and keeps a run.json beside them; readers replay the  *)
(* events of the complete runs, or start from the compact cache and replay *)
(* the runs that completed at or after its cutoff (_wal_writer.py,         *)
(* events.py, recording.py, _event_processor.py, _projection.py,           *)
(* _compact.py, repo.py).                                                  *)
(*                                                                         *)
(* A run records one span of one slice; a range of time indexes is a set   *)
(* of slots.  Run ids are numbers, because ties are broken by run id.      *)
(* Events a writer has buffered die with its process.                      *)
(***************************************************************************)
EXTENDS Integers, FiniteSets, Sequences, SequencesExt

CONSTANTS
    Runs,        \* run ids: a set of numbers
    Slots,       \* time indexes: a set of numbers
    Compactors,  \* processes that rebuild the compact cache
    Loads        \* what may occur, one load chosen at the start: the runs and slots
                 \* used, the kinds of operation ("ingest", "force", "delete"), whether
                 \* one process at a time touches the product (serial), whether
                 \* processes may die (crashes) and register_run raise (errors)

ASSUME LedgerAssumption ==
    /\ Runs \subseteq Nat /\ IsFiniteSet(Runs) /\ Slots \subseteq Nat
    /\ Loads \subseteq [runs : SUBSET Runs, slots : SUBSET Slots,
                         kinds : SUBSET {"ingest", "force", "delete"},
                         serial : BOOLEAN, crashes : BOOLEAN, errors : BOOLEAN]

VARIABLES
    load,    \* the load of this behaviour
    now,     \* the last reading of the clock
    run,     \* the process of each run
    seg,     \* events in the segments of each run
    meta,    \* run.json of each run
    latest,  \* compact/LATEST.json with the records it points at
    cpt      \* the compactors

vars == <<load, now, run, seg, meta, latest, cpt>>

-----------------------------------------------------------------------------
(* Records, events, run.json.                                              *)

Nothing == [status |-> "none"]

\* A span record: `cover` is what the run wrote (and so time_min, time_max),
\* `ranges` its time_index_ranges, `over` its overwrites_index_ranges.
Span(r, cover, over, t) ==
    [status |-> "active", run |-> r, cover |-> cover, ranges |-> cover,
     over |-> over, time |-> t]

SpanEvent(k, rec) == [kind |-> "span", key |-> k, rec |-> rec]
ReplacementEvent(keys) == [kind |-> "replacement", keys |-> keys]
TerminalEvent(s) == [kind |-> "terminal", status |-> s]

\* completed_at is 0 where run.json has none.
Meta(s, at) == [status |-> s, at |-> at]
TerminalStatus == {"complete", "failed", "abandoned"}

-----------------------------------------------------------------------------
(* Projection.                                                             *)

\* One iteration of apply_events; run records have keys of their own.
ApplyEvent(cur, e) ==
    CASE e.kind = "span" -> [cur EXCEPT ![e.key] = e.rec]
      [] e.kind = "replacement" ->
           [k \in Runs |-> IF k \in e.keys /\ cur[k] # Nothing
                           THEN [cur[k] EXCEPT !.status = "replaced"] ELSE cur[k]]
      [] e.kind = "terminal" -> cur

\* apply_events over the events of one run.
ApplyRun(cur, r) == FoldLeft(ApplyEvent, cur, seg[r])

\* An entry is a complete run with its completed_at.
Entries(runs) == {<<r, meta[r].at>> : r \in runs}

\* sorted_complete_runs: by completed_at, then by run id.
Before(d, e) == d[2] < e[2] \/ (d[2] = e[2] /\ d[1] < e[1])
LastOf(entries) == CHOOSE e \in entries : \A d \in entries \ {e} : Before(d, e)

\* One run after another, in that order.
ReplayOver(cur, entries) ==
    MapThenFoldSet(LAMBDA r, records : ApplyRun(records, r), cur, LAMBDA e : e[1], LastOf, entries)

\* Mutant: a run counts as complete by its events and not by its run.json.
CompleteByEvent ==
    {r \in Runs : \E n \in DOMAIN seg[r] : seg[r][n] = TerminalEvent("complete")}

Complete == {r \in Runs : meta[r].status = "complete"}

IsActive(rec) == rec.status = "active"

\* Mutant: overwritten ranges are subtracted whichever span is the later one.
EffectiveUnordered(cur) ==
    [k \in Runs |->
       IF IsActive(cur[k])
       THEN [cur[k] EXCEPT !.ranges = @ \ UNION {cur[j].over :
               j \in {i \in Runs : IsActive(cur[i]) /\ cur[i].run # cur[k].run}}]
       ELSE cur[k]]

\* _apply_overwrite_ranges_to_active_coverage: an active span loses the ranges
\* that active spans of other runs, later by (timestamp, key), overwrote.
Effective(cur) ==
    LET later(k, j) == \/ cur[k].time < cur[j].time
                       \/ cur[k].time = cur[j].time /\ k < j
        cuts(k) == {j \in Runs : IsActive(cur[j]) /\ cur[j].run # cur[k].run /\ later(k, j)}
    IN [k \in Runs |->
          IF IsActive(cur[k])
          THEN [cur[k] EXCEPT !.ranges = @ \ UNION {cur[j].over : j \in cuts(k)}]
          ELSE cur[k]]

NoRecords == [k \in Runs |-> Nothing]
NoPointer == [cutoff |-> -1]

\* Full WAL replay.
Replayed == Effective(ReplayOver(NoRecords, Entries(Complete)))

\* "Use >= to avoid missing runs that complete at the same timestamp".
ReplayRuns(cutoff) == {r \in Complete : meta[r].at >= cutoff}

\* load_current_state: the cache and the runs since, else the full replay.
Current ==
    IF latest = NoPointer THEN Replayed
    ELSE Effective(ReplayOver(latest.records, Entries(ReplayRuns(latest.cutoff))))

-----------------------------------------------------------------------------
(* Processes.                                                              *)

\* What a run is going to do: the operation, the slots it writes, and whether
\* its span is recorded per batch, before the terminal record.
Plan(kind, cover, batched) == [kind |-> kind, cover |-> cover, batched |-> batched]
NoPlan == Plan("none", {}, FALSE)
Idle == [pc |-> "new", plan |-> NoPlan, buf |-> <<>>, over |-> {}, keys |-> {}, at |-> 0]

Init ==
    /\ load \in Loads
    /\ now = 0
    /\ run = [r \in Runs |-> Idle]
    /\ seg = [r \in Runs |-> <<>>]
    /\ meta = [r \in Runs |-> Meta("none", 0)]
    /\ latest = NoPointer
    /\ cpt = [c \in Compactors |-> [pc |-> "idle"]]

At(r, l) == run[r].pc = l
Become(r, p) == run' = [run EXCEPT ![r] = p]
Goto(r, l) == Become(r, [run[r] EXCEPT !.pc = l])
PutMeta(r, s, at) == meta' = [meta EXCEPT ![r] = Meta(s, at)]
Append1(r, events) == seg' = [seg EXCEPT ![r] = @ \o events]

\* time.time(): a reading of the clock, later than every earlier one.
Clock == now + 1
Tick == now' = Clock

Resting(r) == run[r].pc \in {"new", "ended", "crashed"}
AtRest == (\A r \in Runs : Resting(r)) /\ (\A c \in Compactors : cpt[c].pc = "idle")
Alone == load.serial => AtRest

Interval(lo, hi) == {s \in load.slots : lo <= s /\ s <= hi}
Covers == {Interval(lo, hi) : lo \in load.slots, hi \in load.slots}

-----------------------------------------------------------------------------
(* A run up to its terminal record.                                        *)

\* record_run_started.  What the run will write is decided here; an empty
\* cover is a run without span coverage.
StartIngest(r, kind, cover) ==
    /\ At(r, "new") /\ Alone /\ kind \in load.kinds \ {"delete"}
    /\ Become(r, [Idle EXCEPT !.pc = "writing", !.plan = Plan(kind, cover, FALSE)])
    /\ PutMeta(r, "started", 0)
    /\ UNCHANGED <<now, seg, latest, cpt>>

\* _record_active_spans, after the run's batch.
RecordBatch(r) ==
    /\ At(r, "writing") /\ run[r].plan.kind # "delete"
    /\ run[r].plan.cover # {} /\ ~run[r].plan.batched
    /\ Tick
    /\ Become(r, [run[r] EXCEPT !.plan.batched = TRUE,
         !.buf = <<SpanEvent(r, Span(r, run[r].plan.cover, {}, Clock))>>])
    /\ UNCHANGED <<seg, meta, latest, cpt>>

\* mark_chunks_replaced: the active record of `k` is copied with its
\* effective ranges and marked replaced, in a run of its own.
StartDelete(r, k) ==
    /\ At(r, "new") /\ Alone /\ "delete" \in load.kinds /\ IsActive(Current[k])
    /\ Tick
    /\ Become(r, [Idle EXCEPT
         !.pc = "writing", !.plan = Plan("delete", {}, FALSE),
         !.buf = <<SpanEvent(k, [Current[k] EXCEPT !.status = "replaced", !.time = Clock])>>])
    /\ PutMeta(r, "started", 0)
    /\ UNCHANGED <<seg, latest, cpt>>

\* record_run_terminal seals the buffer and the terminal event in a segment ...
SealComplete(r) ==
    /\ At(r, "writing")
    /\ Append1(r, run[r].buf \o <<TerminalEvent("complete")>>)
    /\ Become(r, [run[r] EXCEPT !.pc = "sealed", !.buf = <<>>])
    /\ UNCHANGED <<now, meta, latest, cpt>>

\* ... and finalize then writes run.json.
FinalizeComplete(r) ==
    /\ At(r, "sealed")
    /\ Tick /\ PutMeta(r, "complete", Clock)
    /\ Goto(r, IF run[r].plan.kind = "delete" THEN "ended" ELSE "terminal")
    /\ UNCHANGED <<seg, latest, cpt>>

-----------------------------------------------------------------------------
(* register_run after the terminal record.                                 *)

Overlap(a, b) == \E x, y \in a, z \in b : x <= z /\ z <= y
Overlaps(a, b) == Overlap(a, b) \/ Overlap(b, a)

\* _list_prior_active_spans_for_replacement: without coverage there are no
\* time bounds, and every active span of the slice is listed.
PriorSpans(r) ==
    LET cover == run[r].plan.cover
    IN {k \in Runs \ {r} : IsActive(Current[k])
                           /\ (cover = {} \/ Overlaps(cover, Current[k].cover))}

\* _replacement_plan: what is covered in full is replaced, a part is overwritten.
ReplacedKeys(r) == {k \in PriorSpans(r) : Current[k].ranges \subseteq run[r].plan.cover}
Overwrites(r) ==
    UNION {Current[k].ranges \cap run[r].plan.cover : k \in PriorSpans(r) \ ReplacedKeys(r)}

PlanReplacement(r) ==
    /\ At(r, "terminal")
    /\ Become(r,
         IF run[r].plan.kind # "force" THEN [run[r] EXCEPT !.pc = "planned"]
         ELSE IF run[r].plan.cover = {} /\ PriorSpans(r) # {}
         THEN [run[r] EXCEPT !.pc = "raised"]
         ELSE [run[r] EXCEPT !.pc = "planned",
                 !.keys = IF run[r].plan.cover = {} THEN {} ELSE ReplacedKeys(r),
                 !.over = Overwrites(r)])
    /\ UNCHANGED <<now, seg, meta, latest, cpt>>

\* Spans not yet recorded per batch are buffered now; a batch's own span is
\* recorded again when it overwrites, found by its ranges.
RecordsSpan(r) ==
    LET p == run[r]
    IN IF p.plan.batched
       THEN p.over # {} /\ IsActive(Current[r]) /\ Current[r].ranges = p.plan.cover
       ELSE p.plan.cover # {}

RecordSpans(r) ==
    /\ At(r, "planned")
    /\ \/ /\ RecordsSpan(r)
          /\ Tick
          /\ Become(r, [run[r] EXCEPT !.pc = "recorded",
               !.buf = @ \o <<SpanEvent(r, Span(r, run[r].plan.cover, run[r].over, Clock))>>])
       \/ /\ ~RecordsSpan(r)
          /\ Goto(r, IF run[r].keys # {} THEN "recorded" ELSE "ended")
          /\ UNCHANGED now
    /\ UNCHANGED <<seg, meta, latest, cpt>>

\* Every write of run.json between two finalizations drops completed_at.
SealReplacement(r) ==
    /\ At(r, "recorded") /\ run[r].keys # {}
    /\ Append1(r, run[r].buf \o <<ReplacementEvent(run[r].keys)>>)
    /\ PutMeta(r, "complete", 0)
    /\ Become(r, [run[r] EXCEPT !.pc = "rewriting", !.buf = <<>>])
    /\ UNCHANGED <<now, latest, cpt>>

\* Here the finalization itself flushes, after it has read the clock.
SealSpans(r) ==
    /\ At(r, "recorded") /\ run[r].keys = {}
    /\ Append1(r, run[r].buf)
    /\ PutMeta(r, "complete", 0)
    /\ Tick
    /\ Become(r, [run[r] EXCEPT !.pc = "rewriting", !.buf = <<>>, !.at = Clock])
    /\ UNCHANGED <<latest, cpt>>

\* Mutant: run.json is left as the flush wrote it.
RewriteMetaSkipped(r) ==
    /\ At(r, "rewriting")
    /\ Goto(r, "ended")
    /\ UNCHANGED <<now, seg, meta, latest, cpt>>

\* _rewrite_terminal_run_metadata writes the last run.json.
RewriteMeta(r) ==
    /\ At(r, "rewriting")
    /\ \/ /\ run[r].at = 0
          /\ Tick /\ PutMeta(r, "complete", Clock)
       \/ /\ run[r].at # 0
          /\ PutMeta(r, "complete", run[r].at)
          /\ UNCHANGED now
    /\ Goto(r, "ended")
    /\ UNCHANGED <<seg, latest, cpt>>

-----------------------------------------------------------------------------
(* Failures.                                                               *)

\* A call of register_run, or of the run before it, raises.
Raises(r) ==
    /\ load.errors /\ run[r].plan.kind # "delete"
    /\ run[r].pc \in {"writing", "sealed", "terminal", "planned", "recorded", "rewriting"}
    /\ Goto(r, "raised")
    /\ UNCHANGED <<now, seg, meta, latest, cpt>>

\* register_run_failure in the except branch of run.  Nothing compares the
\* completed_at of a run that is not complete.
RecordFailure(r) ==
    /\ At(r, "raised")
    /\ PutMeta(r, "failed", now)
    /\ Append1(r, run[r].buf \o <<TerminalEvent("failed")>>)
    /\ Become(r, [run[r] EXCEPT !.pc = "ended", !.buf = <<>>])
    /\ UNCHANGED <<now, latest, cpt>>

\* Its own errors are suppressed, and the process ends as if it had crashed.
FailureUnrecorded(r) ==
    /\ At(r, "raised") /\ load.errors
    /\ Become(r, [run[r] EXCEPT !.pc = "crashed", !.buf = <<>>])
    /\ UNCHANGED <<now, seg, meta, latest, cpt>>

Crash(r) ==
    /\ load.crashes /\ ~Resting(r)
    /\ Become(r, [run[r] EXCEPT !.pc = "crashed", !.buf = <<>>])
    /\ UNCHANGED <<now, seg, meta, latest, cpt>>

\* abandon_run, once the process has stopped; a terminal run keeps its status.
Abandon(r) ==
    /\ At(r, "crashed") /\ meta[r].status = "started"
    /\ Append1(r, <<TerminalEvent("abandoned")>>)
    /\ PutMeta(r, "abandoned", now)
    /\ UNCHANGED <<now, run, latest, cpt>>

-----------------------------------------------------------------------------
(* rebuild_compact.                                                        *)

SetCpt(c, s) == cpt' = [cpt EXCEPT ![c] = s]

\* _assert_compaction_allowed.  Claims of runs before their terminal record
\* block as the runs themselves do.
AssertAllowed(c) ==
    /\ cpt[c].pc = "idle" /\ Alone
    /\ \A r \in Runs : meta[r].status \in TerminalStatus \cup {"none"}
    /\ SetCpt(c, [pc |-> "allowed"])
    /\ UNCHANGED <<now, run, seg, meta, latest>>

\* list_run_entries: the listing of runs/, then one run.json after another.
ListEntries(c) ==
    /\ cpt[c].pc = "allowed"
    /\ SetCpt(c, [pc |-> "reading", entries |-> {},
                  todo |-> {r \in Runs : meta[r].status # "none"}])
    /\ UNCHANGED <<now, run, seg, meta, latest>>

ReadEntry(c, r) ==
    /\ cpt[c].pc = "reading" /\ r \in cpt[c].todo
    /\ SetCpt(c, [cpt[c] EXCEPT !.todo = @ \ {r},
                  !.entries = IF meta[r].status = "complete"
                              THEN @ \cup {<<r, meta[r].at>>} ELSE @])
    /\ UNCHANGED <<now, run, seg, meta, latest>>

\* The runs in the order of the entries read, whatever run.json says by now.
ProjectEntries(entries) == Effective(ReplayOver(NoRecords, entries))

MaxOf(S) == CHOOSE x \in S : \A y \in S : y <= x

Project(c) ==
    /\ cpt[c].pc = "reading" /\ cpt[c].todo = {}
    /\ LET entries == cpt[c].entries
       IN SetCpt(c, [pc |-> "projected",
                     pointer |-> [cutoff |-> MaxOf({0} \cup {e[2] : e \in entries}),
                                  records |-> ProjectEntries(entries),
                                  folded |-> {e[1] : e \in entries}]])
    /\ UNCHANGED <<now, run, seg, meta, latest>>

\* The records, their meta file, then LATEST.json.
Publish(c) ==
    /\ cpt[c].pc = "projected"
    /\ latest' = cpt[c].pointer
    /\ SetCpt(c, [pc |-> "idle"])
    /\ UNCHANGED <<now, run, seg, meta>>

-----------------------------------------------------------------------------

RunStep(r) ==
    \/ \E kind \in load.kinds, cover \in Covers : StartIngest(r, kind, cover)
    \/ RecordBatch(r)
    \/ \E k \in Runs : StartDelete(r, k)
    \/ SealComplete(r) \/ FinalizeComplete(r)
    \/ PlanReplacement(r) \/ RecordSpans(r)
    \/ SealReplacement(r) \/ SealSpans(r) \/ RewriteMeta(r)
    \/ Raises(r) \/ RecordFailure(r) \/ FailureUnrecorded(r) \/ Crash(r) \/ Abandon(r)

CompactStep(c) ==
    \/ AssertAllowed(c) \/ ListEntries(c)
    \/ \E r \in Runs : ReadEntry(c, r)
    \/ Project(c) \/ Publish(c)

Next ==
    /\ UNCHANGED load
    /\ (\E r \in load.runs : RunStep(r)) \/ (\E c \in Compactors : CompactStep(c))

Spec == Init /\ [][Next]_vars

-----------------------------------------------------------------------------
(* Properties.                                                             *)

\* What a reader of active coverage is told about span `k`.
Coverage(view, k) == IF IsActive(view[k]) THEN view[k].ranges ELSE {}

\* "The cache is advisory: WAL is always authoritative" (_compact.py): whenever
\* no process is under way, a read through the cache and a full replay tell
\* the same coverage.
CacheAgrees ==
    AtRest => LET current == Current
                  replayed == Replayed
              IN \A k \in Runs : Coverage(current, k) = Coverage(replayed, k)

\* Runs, deletions and rebuilds one after another. A run may fail, but none has
\* died, or ended without a record of its failure.
InTurn == load.serial /\ \A r \in Runs : ~At(r, "crashed")

\* The runs whose overwrites no longer count: their own span was replaced.
Revoked ==
    LET replayed == Replayed
    IN {k \in Runs : replayed[k].status = "replaced" /\ replayed[k].over # {}}

\* One operation after another: as long as every span that overwrote part of
\* another one is itself active, the cache and the full replay agree, whatever
\* was replaced, overwritten or deleted before and after the cache was built
\* (load_current_state, rebuild_compact).
CacheAgreesUnlessRevoked == InTurn /\ AtRest /\ Revoked = {} => CacheAgrees

\* The complete ingest runs that cover slot `s`, and the last of them.
Writers(s) == {r \in Complete : run[r].plan.kind # "delete" /\ s \in run[r].plan.cover}
LastWriter(s) == CHOOSE r \in Writers(s) : \A q \in Writers(s) \ {r} : meta[q].at < meta[r].at

\* "projection readers subtract those ranges from the prior span's effective
\* coverage" (_replacement_plan): after forced reingestion, one run after
\* another, a slot belongs to one active span, that of the run that wrote it last.
LastWriterOwnsSlot ==
    AtRest => \A s \in Slots :
        {k \in Runs : s \in Coverage(Current, k)} =
            IF Writers(s) = {} THEN {} ELSE {LastWriter(s)}

\* The spans some complete delete run marked replaced.
Deleted ==
    {k \in Runs : \E q \in Complete : run[q].plan.kind = "delete" /\
        \E n \in DOMAIN seg[q] : seg[q][n].kind = "span" /\ seg[q][n].key = k}

\* One operation after another: no replacement or overwrite hides what is in the
\* store, and the run that wrote a slot last keeps it in its active coverage,
\* through the cache and without it, until it is deleted itself
\* (_replacement_plan, _apply_overwrite_ranges_to_active_coverage).
LastWriterKeepsSlot ==
    InTurn /\ AtRest =>
        LET current == Current
            replayed == Replayed
        IN \A s \in Slots : Writers(s) # {} /\ LastWriter(s) \notin Deleted =>
               /\ s \in Coverage(current, LastWriter(s))
               /\ s \in Coverage(replayed, LastWriter(s))

\* A run that ended complete has its span in the replay, although it sealed the
\* span after its terminal record, and a run that ended otherwise adds no active
\* coverage, although it may have sealed a terminal event and spans before
\* (register_run, register_run_failure, sorted_complete_runs).
EndedRunsAreRecorded ==
    LET replayed == Replayed IN
    \A r \in Runs : At(r, "ended") /\ run[r].plan.cover # {} =>
        IF meta[r].status = "complete" THEN replayed[r] # Nothing
                                       ELSE ~IsActive(replayed[r])
=============================================================================
