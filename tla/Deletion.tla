------------------------------ MODULE Deletion ------------------------------
(***************************************************************************)
(* Deletion of recorded spans and of chunk records (deletion.py): the      *)
(* spans of one request are deleted one after the other, by filling their  *)
(* slots where the group has a state array and by removing chunk objects   *)
(* where it has not; only then are they marked replaced.  Reads, removals, *)
(* fills and the marking can each fail, and the process can die between    *)
(* any two of them; operators repeat requests, with or without force.      *)
(*                                                                         *)
(* One product, whose claim is held throughout (Maintenance).  A slot is a *)
(* time index; the other dimensions of a chunk object do not matter.  A    *)
(* preview (dry_run) changes nothing and is left out.                      *)
(***************************************************************************)
EXTENDS Integers, FiniteSetsExt

CONSTANTS
    Spans,       \* spans of the ledger
    Ranges,      \* Ranges[s]: its time_index_ranges, pairs of first and last slot
    ArraysOf,    \* ArraysOf[s]: the time-indexed arrays it wrote
    ChunkLen,    \* ChunkLen[a]: slots per chunk along time
    Length,      \* slots of the time dimension
    StateChunk,  \* chunk length of a recorded state array outside the group
    Options,     \* force, really: confirmed, marks: update the ledger, states: the state array
    MaxTargets,  \* bound: spans of a request
    Objects,     \* chunk records that name one storage object each
    MaxRequests  \* bound: requests

VARIABLES
    hasState,  \* the group holds the state array, so that slots are filled
    data,      \* data[a]: the slots of array a that hold data
    deleted,   \* slots the state array marks as deleted
    active,    \* spans and chunk records the ledger shows as active
    stored,    \* objects in the store
    dpc,       \* where the request is
    req,       \* the request: targets and options
    todo,      \* its targets that are still to come
    span,      \* the target being deleted
    grids,     \* arrays of it whose chunk grid could be read
    listed,    \* active spans when the request began
    errs,      \* the request has reported an error
    spanErrs,  \* the target being deleted has
    gone,      \* keys to mark: targets deleted
    collateral,\* keys to mark: spans that lost data with them
    requests,  \* history: requests made
    suspect,   \* history: spans a failed request may have damaged
    lost       \* history: slots that lost data in this request

cube == <<data, deleted, stored>>
dvars == <<hasState, cube, active, dpc, req, todo, span, grids, listed, errs,
          spanErrs, gone, collateral, requests, suspect, lost>>

Arrays == UNION {ArraysOf[s] : s \in Spans}
Slots == 0 .. Length - 1
NoSpan == "none"
NoRequest == [kind |-> "none", targets |-> {}, force |-> FALSE, really |-> FALSE,
              marks |-> FALSE, states |-> FALSE]

-----------------------------------------------------------------------------
(* Chunk geometry.                                                         *)

\* _span_time_indices.
SlotsOf(s) == UNION {r[1] .. r[2] : r \in Ranges[s]}

\* The slots of the chunks a range touches, clipped to the array's length.
PhysicalRange(r, len) == {t \in Slots : r[1] \div len <= t \div len /\ t \div len <= r[2] \div len}

\* expand_time_index_ranges_to_chunk_boundaries.
Expand(s, len) == UNION {PhysicalRange(r, len) : r \in Ranges[s]}

\* _measure_span_alignment: every range of the span ends on the stored chunk
\* boundaries of every array whose grid could be read; the recorded flag, which
\* may be wrong, counts only where no grid could be.
Aligned(s, readable) ==
    \A a \in readable, r \in Ranges[s] : PhysicalRange(r, ChunkLen[a]) = r[1] .. r[2]

\* _find_collateral_spans: other active spans with data in the chunks of s.
Collateral(s, readable) ==
    {o \in listed \ req.targets : \E a \in readable \cap ArraysOf[o] :
        SlotsOf(o) \cap Expand(s, ChunkLen[a]) # {}}

\* The chunk objects of s: pairs of an array and a time chunk.
KeysOf(s, readable) ==
    {k \in readable \X Slots : \E r \in Ranges[s] :
        r[1] \div ChunkLen[k[1]] <= k[2] /\ k[2] <= r[2] \div ChunkLen[k[1]]}

-----------------------------------------------------------------------------
InitWith(stateArray) ==
    /\ hasState = stateArray
    /\ data = [a \in Arrays |-> UNION {SlotsOf(s) : s \in {o \in Spans : a \in ArraysOf[o]}}]
    /\ deleted = {}
    /\ active = Spans \cup Objects
    /\ stored = Objects
    /\ dpc = "idle" /\ req = NoRequest /\ todo = {} /\ span = NoSpan
    /\ grids = {} /\ listed = {} /\ errs = FALSE /\ spanErrs = FALSE
    /\ gone = {} /\ collateral = {} /\ requests = 0 /\ suspect = {} /\ lost = {}

\* delete_spans: claims, the start of the maintenance run, and one listing of
\* the active spans for the whole request.
DeleteSpans(targets, opts) ==
    /\ dpc = "idle" /\ requests < MaxRequests
    /\ requests' = requests + 1
    /\ req' = [kind |-> "spans", targets |-> targets, force |-> opts.force,
               really |-> opts.really, marks |-> opts.marks, states |-> opts.states]
    /\ todo' = targets /\ listed' = active \cap Spans
    /\ errs' = FALSE /\ gone' = {} /\ collateral' = {} /\ lost' = {}
    /\ dpc' = "next"
    /\ UNCHANGED <<hasState, cube, active, span, grids, spanErrs, suspect>>

\* The next target: filled in place when its group holds the state array, by
\* chunk keys otherwise.
TakeSpan(s) ==
    /\ dpc = "next" /\ s \in todo
    /\ todo' = todo \ {s} /\ span' = s /\ spanErrs' = FALSE
    /\ dpc' = IF hasState THEN "preflight" ELSE "measure"
    /\ UNCHANGED <<hasState, cube, active, req, grids, listed, errs, gone,
                   collateral, requests, suspect, lost>>

\* The outcome of a target goes into the sums; without errors it is to be marked.
Outcome(failed) ==
    /\ errs' = (errs \/ failed)
    /\ gone' = IF failed \/ ~req.marks THEN gone ELSE gone \cup {span}
    /\ span' = NoSpan /\ grids' = {} /\ spanErrs' = FALSE
    /\ dpc' = "next"

-----------------------------------------------------------------------------
(* Filling, delete_span_via_region_nan_fill.                               *)

\* The pre-flight resolves every array; it mutates nothing when it refuses.
Preflight ==
    /\ dpc = "preflight"
    /\ \/ dpc' = "fill" /\ UNCHANGED <<span, grids, spanErrs, errs, gone>>
       \/ Outcome(TRUE)
    /\ UNCHANGED <<hasState, cube, active, req, todo, listed, collateral, requests, suspect, lost>>

\* The arrays are filled over the span's slots, one after the other; a storage
\* failure leaves the rest of them and the state as they are.
Fill(filled) ==
    /\ dpc = "fill" /\ filled \subseteq ArraysOf[span]
    /\ data' = [a \in Arrays |-> IF a \in filled THEN data[a] \ SlotsOf(span) ELSE data[a]]
    /\ lost' = lost \cup UNION {data[a] \ data'[a] : a \in Arrays}
    /\ \/ /\ filled = ArraysOf[span] /\ dpc' = "fillstate"
          /\ UNCHANGED <<span, grids, spanErrs, errs, gone>>
       \/ filled # ArraysOf[span] /\ Outcome(TRUE)
    /\ UNCHANGED <<hasState, deleted, stored, active, req, todo, listed, collateral,
                   requests, suspect>>

\* The state follows the arrays.
FillState ==
    /\ dpc = "fillstate"
    /\ \/ deleted' = (IF req.states THEN deleted \cup SlotsOf(span) ELSE deleted) /\ Outcome(FALSE)
       \/ req.states /\ UNCHANGED deleted /\ Outcome(TRUE)
    /\ UNCHANGED <<hasState, data, stored, active, req, todo, listed, collateral,
                   requests, suspect, lost>>

-----------------------------------------------------------------------------
(* Chunk keys, _delete_span_by_chunk_keys.                                 *)

\* The grids are read, some perhaps not; a span that is not aligned needs
\* force, and the loss of other spans a confirmation.  No grid and a recorded
\* flag that says aligned leaves no key to remove.
Measure(readable) ==
    /\ dpc = "measure" /\ readable \subseteq ArraysOf[span]
    /\ LET aligned == Aligned(span, readable)
           others  == IF aligned THEN {} ELSE Collateral(span, readable)
           unread  == readable # ArraysOf[span]
       IN  IF \/ ~aligned /\ ~req.force
              \/ others # {} /\ ~req.really
           THEN Outcome(TRUE) /\ UNCHANGED collateral
           ELSE /\ grids' = readable
                /\ spanErrs' = unread
                /\ collateral' = collateral \cup others
                /\ dpc' = "remove"
                /\ UNCHANGED <<span, errs, gone>>
    /\ UNCHANGED <<hasState, cube, active, req, todo, listed, requests, suspect, lost>>

\* Removing the objects ks takes every slot in them.
Without(ks) == [a \in Arrays |-> {t \in data[a] : <<a, t \div ChunkLen[a]>> \notin ks}]

\* The chunk objects are removed, in batches; the ones that cannot be are errors,
\* an absent one is none.
Remove(removed) ==
    /\ dpc = "remove" /\ removed \subseteq KeysOf(span, grids)
    /\ data' = Without(removed)
    /\ lost' = lost \cup UNION {data[a] \ data'[a] : a \in Arrays}
    /\ spanErrs' = (spanErrs \/ removed # KeysOf(span, grids))
    /\ dpc' = "removestate"
    /\ UNCHANGED <<hasState, deleted, stored, active, req, todo, span, grids, listed,
                   errs, gone, collateral, requests, suspect>>

\* Mutant: the state of the other slots in the removed chunks is forgotten.
RemovedSlotsOwn == SlotsOf(span)

\* The slots whose state changes: those of whole chunks where the span was forced.
RemovedSlots ==
    IF Aligned(span, grids) THEN SlotsOf(span) ELSE Expand(span, StateChunk)

\* The recorded state array, outside the group here, is updated; the target
\* counts as deleted when it had keys and no errors.
RemoveState ==
    /\ dpc = "removestate"
    /\ \/ /\ deleted' = IF req.states THEN deleted \cup RemovedSlots ELSE deleted
          /\ Outcome(spanErrs \/ grids = {})
       \/ req.states /\ UNCHANGED deleted /\ Outcome(TRUE)
    /\ UNCHANGED <<hasState, data, stored, active, req, todo, listed, collateral,
                   requests, suspect, lost>>

-----------------------------------------------------------------------------
(* The end of a request.                                                   *)

ToIdle ==
    /\ dpc' = "idle" /\ req' = NoRequest /\ todo' = {} /\ span' = NoSpan
    /\ grids' = {} /\ listed' = {} /\ errs' = FALSE /\ spanErrs' = FALSE
    /\ gone' = {} /\ collateral' = {}

\* The spans a failed request may have touched.
Touchable == (req.targets \cup collateral) \cap Spans

\* mark_chunks_replaced for the targets deleted and for the collateral spans, in
\* one maintenance run of its own; an error of it is reported.
Mark ==
    /\ dpc = "next" /\ todo = {} /\ req.kind = "spans"
    /\ \/ /\ active' = IF req.marks THEN active \ (gone \cup collateral) ELSE active
          /\ suspect' = IF errs \/ ~req.marks THEN suspect \cup Touchable ELSE suspect
       \/ /\ req.marks /\ gone \cup collateral # {} /\ UNCHANGED active
          /\ suspect' = suspect \cup Touchable
    /\ ToIdle
    /\ UNCHANGED <<hasState, cube, requests, lost>>

\* An exception, such as dimension names that cannot be read, aborts the request:
\* nothing is marked.  A crash does the same.
Abort ==
    /\ dpc # "idle" /\ req.kind = "spans"
    /\ suspect' = suspect \cup Touchable
    /\ ToIdle
    /\ UNCHANGED <<hasState, cube, active, requests, lost>>

-----------------------------------------------------------------------------
(* execute_deletion: records that name one object each.                    *)

DeleteRecords(targets, marks) ==
    /\ dpc = "idle" /\ requests < MaxRequests
    /\ requests' = requests + 1
    /\ req' = [NoRequest EXCEPT !.kind = "records", !.targets = targets, !.marks = marks]
    /\ todo' = targets /\ dpc' = "objects" /\ errs' = FALSE
    /\ UNCHANGED <<hasState, cube, active, span, grids, listed, spanErrs, gone,
                   collateral, suspect, lost>>

\* _delete_with_filesystem: an object that cannot be deleted is an error string.
DeleteObject(o) ==
    /\ dpc = "objects" /\ o \in todo
    /\ todo' = todo \ {o}
    /\ \/ stored' = stored \ {o} /\ UNCHANGED errs
       \/ errs' = TRUE /\ UNCHANGED stored
    /\ UNCHANGED <<hasState, data, deleted, active, dpc, req, span, grids, listed,
                   spanErrs, gone, collateral, requests, suspect, lost>>

\* remove_from_manifest, whatever the storage said; it may fail, and the process
\* may die before it.
RemoveRecords ==
    /\ req.kind = "records"
    /\ \/ /\ todo = {} /\ req.marks /\ active' = active \ req.targets
          /\ suspect' = IF errs THEN suspect \cup req.targets ELSE suspect
       \/ suspect' = suspect \cup req.targets /\ UNCHANGED active
    /\ ToIdle
    /\ UNCHANGED <<hasState, cube, requests, lost>>

-----------------------------------------------------------------------------
DeletionNext ==
    \/ \E targets \in UNION {kSubset(n, Spans \cap active) : n \in 1 .. MaxTargets}, opts \in Options :
         DeleteSpans(targets, opts)
    \/ \E s \in Spans : TakeSpan(s)
    \/ Preflight
    \/ \E filled \in SUBSET Arrays : Fill(filled)
    \/ FillState
    \/ \E readable \in SUBSET Arrays : Measure(readable)
    \/ \E removed \in SUBSET (IF dpc = "remove" THEN KeysOf(span, grids) ELSE {}) : Remove(removed)
    \/ RemoveState
    \/ Mark
    \/ Abort
    \/ \E targets \in SUBSET (Objects \cap active) \ {{}}, marks \in BOOLEAN :
         DeleteRecords(targets, marks)
    \/ \E o \in Objects : DeleteObject(o)
    \/ RemoveRecords

-----------------------------------------------------------------------------
(* Properties.                                                             *)

\* Every variable has its type; a target is in hand between two stops.
DeletionTypeOK ==
    /\ hasState \in BOOLEAN /\ errs \in BOOLEAN /\ spanErrs \in BOOLEAN
    /\ data \in [Arrays -> SUBSET Slots] /\ deleted \subseteq Slots
    /\ active \subseteq Spans \cup Objects /\ stored \subseteq Objects
    /\ dpc \in {"idle", "next", "preflight", "fill", "fillstate", "measure", "remove",
               "removestate", "objects"}
    /\ span \in Spans \cup {NoSpan}
    /\ (span # NoSpan) = (dpc \notin {"idle", "next", "objects"})
    /\ req.targets \subseteq Spans \cup Objects /\ todo \subseteq req.targets
    /\ gone \subseteq req.targets /\ collateral \subseteq listed \ req.targets
    /\ requests \in 0 .. MaxRequests /\ lost \subseteq Slots /\ suspect \subseteq Spans \cup Objects

Whole(s) == \A a \in ArraysOf[s] : SlotsOf(s) \subseteq data[a]

\* A span the ledger shows as active has all its data, unless it was a target, or
\* confirmed collateral, of a request that is under way, reported an error, died,
\* or was told not to mark anything: chunks shared with a span that is deleted
\* never cost another span its data behind the ledger's back.
ActiveSpansAreWhole ==
    \A s \in (active \cap Spans) \ suspect :
        Whole(s) \/ (dpc # "idle" /\ s \in Touchable)

\* A request that was not forced and confirmed takes data of its targets only.
LossIsConfirmed ==
    \A s \in Spans : Whole(s) /\ ~Whole(s)' =>
        s \in req.targets \/ s \notin listed \/ (req.force /\ req.really)

\* A span is marked replaced only when its own data is gone, unless it was
\* confirmed collateral.
ReplacedMeansGone ==
    \A s \in (active \ active') \cap Spans :
        s \in collateral \/ \A a \in ArraysOf[s] : SlotsOf(s) \cap data[a] = {}

\* When a request without errors comes to the marking and keeps the state, every
\* slot that lost data in some array is marked deleted there, the slots of other
\* spans in the removed chunks included: readers of the state array are not sent
\* to data that is gone.
StateCoversLoss ==
    dpc = "next" /\ req.kind = "spans" /\ todo = {} /\ req.states /\ ~errs
        => lost \subseteq deleted

\* Between requests a chunk record is in the manifest exactly when its object is in
\* the store, unless a request for it reported an error, died or was told to leave
\* the manifest alone.
RecordsMatchObjects ==
    dpc = "idle" => \A o \in Objects \ suspect : (o \in active) = (o \in stored)

DeletionInvariant ==
    /\ DeletionTypeOK
    /\ ActiveSpansAreWhole
    /\ StateCoversLoss
    /\ RecordsMatchObjects

DeletionStep ==
    LossIsConfirmed /\ ReplacedMeansGone

\* What a deletion promises, over failures, crashes and repeated requests: the
\* ledger, the data and the state array tell the same story except where a request
\* said it could not keep them together.
DeletionIsAccountedFor == []DeletionInvariant /\ [][DeletionStep]_dvars

=============================================================================
