------------------------------- MODULE Claims -------------------------------
(***************************************************************************)
(* One write-domain claim of firecube's control plane (claims.py): the     *)
(* JSON record of the domain, the handles of the processes that try to     *)
(* hold it, and the operators who clear it.                                *)
(*                                                                         *)
(* The record changes only by conditional writes.  A validator names one   *)
(* stored generation; it is a digest of the record's bytes, so here it is  *)
(* the triple (incarnation, revision, state) those bytes hold.  Every call *)
(* to the store is one step; what a method does between two calls belongs  *)
(* to the step of the earlier one.  `_call_lock` lets at most one of       *)
(* heartbeat, confirm and release of a handle be under way, so a handle is *)
(* one program counter.                                                    *)
(*                                                                         *)
(* On a remote store an unanswered conditional write may still be applied  *)
(* later, and a refusal may follow a write of the same call that did       *)
(* commit (protocol.py, ConditionalWrite).  A local driver answers what it *)
(* did, and it alone offers compare_delete.                                *)
(***************************************************************************)
EXTENDS Naturals, FiniteSets

CONSTANTS
    Incs,      \* acquisitions: each call of acquire draws one incarnation
    Ops,       \* operators: clear_claim, the stale sweep, abandon
    Drivers,   \* store drivers that occur: TRUE for the local one, FALSE for S3
    MaxRev,    \* bound: revisions one acquisition draws
    MaxLate,   \* bound: unanswered requests the store may still apply
    MaxAged,   \* bound: revisions that grow stale
    NoOne      \* stands for "no acquisition" in the lease the claim implements

ASSUME ClaimsAssumption ==
    /\ Drivers \subseteq BOOLEAN
    /\ MaxRev \in Nat \ {0}
    /\ MaxLate \in Nat /\ MaxAged \in Nat
    /\ NoOne \notin Incs

VARIABLES
    rec,       \* the record of the domain, or NoRecord
    handle,    \* the state of each acquisition
    aged,      \* (acquisition, revision) pairs whose heartbeat time is past the threshold
    late,      \* conditional writes a remote store may still apply
    op,        \* the state of each operator
    evicted,   \* history: acquisitions whose held record an operator retired
    local      \* the driver of the product's root

vars == <<rec, handle, aged, late, op, evicted, local>>

-----------------------------------------------------------------------------
(* The record and the conditional store.                                   *)

Held == "held"
Released == "released"
Record == [inc : Incs, rev : 1..MaxRev, state : {Held, Released}]
NoRecord == [state |-> "none"]

\* The validator of a generation: validator_of(data).
Validator == Incs \X (1..MaxRev) \X {Held, Released}
NoValidator == <<>>
ValidatorOf(r) == <<r.inc, r.rev, r.state>>

\* _require_current: the object exists and is the generation `v`.
IsCurrent(v) == rec # NoRecord /\ ValidatorOf(rec) = v

IsHeld == rec # NoRecord /\ rec.state = Held

HeldRecord(i, r) == [inc |-> i, rev |-> r, state |-> Held]

\* ClaimInfo.stale.  The heartbeat time is part of the bytes of a revision.
IsStale == <<rec.inc, rec.rev>> \in aged

\* What _retire leaves of record `r`.  The released marker draws a revision of
\* its own in the code; its state already sets its bytes apart here.
Retired(r) == IF local THEN NoRecord ELSE [r EXCEPT !.state = Released]

\* A request a remote store may apply after its caller gave up.  `by` tells
\* the owner's own write from a clear by an operator, forced or stale-only.
Request ==
    [kind : {"create", "replace", "retire"}, by : {"handle", "operator", "sweep"},
     inc : Incs, rev : 1..MaxRev, expect : Validator \cup {NoValidator}]

\* The requests left behind by a call that raised without an answer.  Those
\* beyond MaxLate never reach the store.
Unanswered(req) ==
    IF local \/ Cardinality(late) = MaxLate THEN late ELSE late \cup {req}

-----------------------------------------------------------------------------
(* Handles.                                                                *)

NewHandle ==
    [pc |-> "new",          \* where the handle is between two store calls
     rev |-> 1,             \* info.revision, and so `validator`
     drawn |-> 1,           \* revisions drawn so far
     arg |-> 0,             \* revision the store call under way names, 0 if none is stored
     unconfirmed |-> {},    \* _unconfirmed
     lost |-> FALSE,        \* _lost
     stop |-> FALSE,        \* _stop
     beating |-> TRUE,      \* the heartbeat thread still loops
     uncertain |-> FALSE,   \* _retire_uncertain
     blind |-> FALSE,       \* history: lost on a refusal it could not re-read
     retried |-> FALSE,     \* the second of the two retire attempts
     seen |-> NoValidator]  \* the released generation acquire read

Pcs == {"new", "taking", "replacing", "failed", "held", "beating", "refused",
        "unanswered", "retiring", "rereading", "released", "crashed"}

HandleState ==
    [pc : Pcs, rev : 1..MaxRev, drawn : 1..MaxRev, arg : 0..MaxRev,
     unconfirmed : SUBSET (1..MaxRev), lost : BOOLEAN, stop : BOOLEAN,
     beating : BOOLEAN, uncertain : BOOLEAN, blind : BOOLEAN,
     retried : BOOLEAN, seen : Validator \cup {NoValidator}]

OperatorState ==
    [pc : {"idle", "listed", "clearing"}, staleOnly : BOOLEAN,
     seen : Validator \cup {NoValidator}]
IdleOperator == [pc |-> "idle", staleOnly |-> FALSE, seen |-> NoValidator]

TypeOK ==
    /\ rec \in Record \cup {NoRecord}
    /\ handle \in [Incs -> HandleState]
    /\ aged \subseteq Incs \X (1..MaxRev)
    /\ late \subseteq Request
    /\ op \in [Ops -> OperatorState]
    /\ evicted \subseteq Incs
    /\ local \in Drivers

Init ==
    /\ rec = NoRecord
    /\ handle = [i \in Incs |-> NewHandle]
    /\ aged = {}
    /\ late = {}
    /\ op = [o \in Ops |-> IdleOperator]
    /\ evicted = {}
    /\ local \in Drivers

\* No store call of the handle is under way.
Idle(h, where) ==
    [h EXCEPT !.pc = where, !.arg = 0, !.retried = FALSE, !.seen = NoValidator]

Become(i, h) == handle' = [handle EXCEPT ![i] = h]
At(i, where) == handle[i].pc = where
Own(i) == <<i, handle[i].rev, Held>>

\* A revision not drawn before (uuid4); MaxRev caps the model.
CanDraw(i) == handle[i].drawn < MaxRev
Fresh(i) == handle[i].drawn + 1

-----------------------------------------------------------------------------
(* acquire and _take_over_released.                                        *)

CreateRequest(i) ==
    [kind |-> "create", by |-> "handle", inc |-> i, rev |-> 1, expect |-> NoValidator]

AcquireCreates(i) ==
    /\ At(i, "new") /\ rec = NoRecord
    /\ rec' = HeldRecord(i, 1)
    /\ \/ Become(i, [handle[i] EXCEPT !.pc = "held"])
       \* The create committed, its answer was lost and its resend was refused.
       \/ ~local /\ Become(i, [handle[i] EXCEPT !.pc = "taking"])
    /\ UNCHANGED <<aged, late, op, evicted, local>>

AcquireFindsRecord(i) ==
    /\ At(i, "new") /\ rec # NoRecord
    /\ Become(i, [handle[i] EXCEPT !.pc = "taking"])
    /\ UNCHANGED <<rec, aged, late, op, evicted, local>>

AcquireRaises(i) ==
    /\ At(i, "new")
    /\ late' = Unanswered(CreateRequest(i))
    /\ Become(i, Idle(handle[i], "failed"))
    /\ UNCHANGED <<rec, aged, op, evicted, local>>

\* Mutant: any record that exists is taken over.
TakeOverIgnoresState(i) ==
    /\ At(i, "taking") /\ rec # NoRecord
    /\ Become(i, [handle[i] EXCEPT !.pc = "replacing", !.seen = ValidatorOf(rec)])
    /\ UNCHANGED <<rec, aged, late, op, evicted, local>>

\* A held record, stale or not, or an unreadable one refuses the acquisition.
TakeOverReads(i) ==
    /\ At(i, "taking")
    /\ \/ /\ rec # NoRecord /\ rec.state = Released
          /\ Become(i, [handle[i] EXCEPT !.pc = "replacing", !.seen = ValidatorOf(rec)])
       \/ Become(i, Idle(handle[i], "failed"))
    /\ UNCHANGED <<rec, aged, late, op, evicted, local>>

ReplaceRequest(i) ==
    [kind |-> "replace", by |-> "handle", inc |-> i, rev |-> 1, expect |-> handle[i].seen]

\* Mutant: the record is replaced whatever it holds by then.
TakeOverReplacesBlindly(i) ==
    /\ At(i, "replacing")
    /\ rec' = HeldRecord(i, 1)
    /\ Become(i, Idle(handle[i], "held"))
    /\ UNCHANGED <<aged, late, op, evicted, local>>

TakeOverReplaces(i) ==
    /\ At(i, "replacing") /\ IsCurrent(handle[i].seen)
    /\ rec' = HeldRecord(i, 1)
    /\ \/ Become(i, Idle(handle[i], "held"))
       \/ ~local /\ Become(i, Idle(handle[i], "failed"))
    /\ UNCHANGED <<aged, late, op, evicted, local>>

TakeOverFails(i) ==
    /\ At(i, "replacing")
    /\ \/ ~IsCurrent(handle[i].seen) /\ UNCHANGED late
       \/ late' = Unanswered(ReplaceRequest(i))
    /\ Become(i, Idle(handle[i], "failed"))
    /\ UNCHANGED <<rec, aged, op, evicted, local>>

-----------------------------------------------------------------------------
(* The heartbeat: _beat, _reconcile, _adopt, _lose.                        *)

MayBeat(i) == At(i, "held") /\ handle[i].beating /\ ~handle[i].stop

Adopted(h, r) == [Idle(h, "held") EXCEPT !.rev = r, !.unconfirmed = {}]
Lost(h) == [Idle(h, "held") EXCEPT !.lost = TRUE, !.beating = FALSE]

\* The loop takes _call_lock, finds _stop clear and draws a revision.  Out of
\* revisions (arg = 0) it goes on only to be refused, which stores none.
BeatStarts(i) ==
    /\ MayBeat(i) /\ (CanDraw(i) \/ ~IsCurrent(Own(i)))
    /\ Become(i, IF CanDraw(i)
                 THEN [handle[i] EXCEPT !.pc = "beating", !.drawn = Fresh(i), !.arg = Fresh(i)]
                 ELSE [handle[i] EXCEPT !.pc = "beating"])
    /\ UNCHANGED <<rec, aged, late, op, evicted, local>>

BeatCommits(i) ==
    /\ At(i, "beating") /\ handle[i].arg # 0 /\ IsCurrent(Own(i))
    /\ rec' = HeldRecord(i, handle[i].arg)
    /\ \/ Become(i, Adopted(handle[i], handle[i].arg))
       \* The write committed, its answer was lost and its resend was refused.
       \/ ~local /\ Become(i, [handle[i] EXCEPT !.pc = "refused"])
    /\ UNCHANGED <<aged, late, op, evicted, local>>

BeatRefused(i) ==
    /\ At(i, "beating") /\ ~IsCurrent(Own(i))
    /\ Become(i, [handle[i] EXCEPT !.pc = "refused", !.arg = 0])
    /\ UNCHANGED <<rec, aged, late, op, evicted, local>>

BeatRequest(i) ==
    [kind |-> "replace", by |-> "handle", inc |-> i, rev |-> handle[i].arg, expect |-> Own(i)]

BeatRaises(i) ==
    /\ At(i, "beating") /\ handle[i].arg # 0
    /\ late' = Unanswered(BeatRequest(i))
    /\ Become(i, [handle[i] EXCEPT
         !.pc = "unanswered", !.unconfirmed = @ \cup {handle[i].arg}])
    /\ UNCHANGED <<rec, aged, op, evicted, local>>

\* `mine`: a held record of this incarnation.
Mine(i) == IsHeld /\ rec.inc = i

\* Mutant: only the revision of the last write is recognised.
ReconciledLastWrite(i) ==
    LET h == handle[i]
    IN IF Mine(i) /\ rec.rev = h.arg THEN Adopted(h, rec.rev)
       ELSE IF Mine(i) /\ At(i, "unanswered") /\ rec.rev = h.rev THEN Idle(h, "held")
       ELSE Lost(h)

\* Mutant: a record of somebody else is taken for a passing error.
ReconciledForgiving(i) ==
    IF Mine(i) THEN Adopted(handle[i], rec.rev) ELSE Idle(handle[i], "held")

Reconciled(i) ==
    LET h == handle[i]
    IN CASE ~Mine(i) -> Lost(h)
         [] Mine(i) /\ rec.rev \in h.unconfirmed \cup {h.arg} -> Adopted(h, rec.rev)
         [] Mine(i) /\ rec.rev \notin h.unconfirmed \cup {h.arg}
                    /\ At(i, "unanswered") /\ rec.rev = h.rev -> Idle(h, "held")
         [] OTHER -> Lost(h)

Reconcile(i) ==
    /\ At(i, "refused") \/ At(i, "unanswered")
    /\ Become(i, Reconciled(i))
    /\ UNCHANGED <<rec, aged, late, op, evicted, local>>

ReconcileReadFails(i) ==
    /\ \/ /\ At(i, "refused")
          /\ Become(i, [Lost(handle[i]) EXCEPT !.blind = TRUE])
       \/ /\ At(i, "unanswered")
          /\ Become(i, Idle(handle[i], "held"))
    /\ UNCHANGED <<rec, aged, late, op, evicted, local>>

\* confirm: one read.  A loss it finds does not end the heartbeat loop.
Confirmed(i) ==
    LET h == handle[i]
    IN CASE Mine(i) /\ rec.rev = h.rev -> h
         [] Mine(i) /\ rec.rev # h.rev /\ rec.rev \in h.unconfirmed -> Adopted(h, rec.rev)
         [] OTHER -> [h EXCEPT !.lost = TRUE]

Confirm(i) ==
    /\ At(i, "held") /\ ~handle[i].lost
    /\ Become(i, Confirmed(i))
    /\ UNCHANGED <<rec, aged, late, op, evicted, local>>

-----------------------------------------------------------------------------
(* release, _retire_own_record, _own_validator_after_refusal.              *)

\* Mutant: release leaves _stop clear.
ReleaseStartsUnstopped(i) ==
    /\ At(i, "held")
    /\ Become(i, [handle[i] EXCEPT
         !.arg = IF handle[i].lost THEN 0 ELSE handle[i].rev,
         !.pc = IF handle[i].lost THEN "released" ELSE "retiring"])
    /\ UNCHANGED <<rec, aged, late, op, evicted, local>>

ReleaseStarts(i) ==
    /\ At(i, "held")
    /\ Become(i, [handle[i] EXCEPT
         !.stop = TRUE,
         !.arg = IF handle[i].lost THEN 0 ELSE handle[i].rev,
         !.pc = IF handle[i].lost THEN "released" ELSE "retiring"])
    /\ UNCHANGED <<rec, aged, late, op, evicted, local>>

\* _release_timed_out: a heartbeat call is still in flight; the record stays.
ReleaseTimesOut(i) ==
    /\ At(i, "beating") \/ At(i, "refused") \/ At(i, "unanswered")
    /\ ~handle[i].stop
    /\ Become(i, [handle[i] EXCEPT !.stop = TRUE])
    /\ UNCHANGED <<rec, aged, late, op, evicted, local>>

Target(i) == <<i, handle[i].arg, Held>>
LostRelease(h) == [Idle(h, "released") EXCEPT !.lost = TRUE]

RetireCommits(i) ==
    /\ At(i, "retiring") /\ IsCurrent(Target(i))
    /\ rec' = Retired(rec)
    /\ \/ Become(i, Idle(handle[i], "released"))
       \/ ~local /\ Become(i, [handle[i] EXCEPT !.pc = "rereading"])
    /\ UNCHANGED <<aged, late, op, evicted, local>>

RetireRefused(i) ==
    /\ At(i, "retiring") /\ ~IsCurrent(Target(i))
    /\ Become(i, [handle[i] EXCEPT !.pc = "rereading"])
    /\ UNCHANGED <<rec, aged, late, op, evicted, local>>

RetireRequest(i, v, who) ==
    [kind |-> "retire", by |-> who, inc |-> i, rev |-> v[2], expect |-> v]

\* The error leaves release; the owner may call it again.
RetireRaises(i) ==
    /\ At(i, "retiring")
    /\ late' = Unanswered(RetireRequest(i, Target(i), "handle"))
    /\ Become(i, [Idle(handle[i], "held") EXCEPT !.uncertain = TRUE])
    /\ UNCHANGED <<rec, aged, op, evicted, local>>

\* Mutant: a refused retire is taken for a released claim.
AfterRefusalReleased(i) == Idle(handle[i], "released")

AfterRefusal(i) ==
    LET h == handle[i]
        goneOrReleased == rec = NoRecord \/ (rec.inc = i /\ rec.state = Released)
        ours == Mine(i) /\ rec.rev \in h.unconfirmed \cup {h.rev}
    IN CASE goneOrReleased /\ h.uncertain -> Idle(h, "released")
         [] ours /\ ~h.retried ->
              [h EXCEPT !.pc = "retiring", !.arg = rec.rev, !.retried = TRUE]
         [] OTHER -> LostRelease(h)

RetireRereads(i) ==
    /\ At(i, "rereading")
    /\ \/ Become(i, AfterRefusal(i))
       \/ Become(i, Idle(handle[i], "held"))  \* the read raised
    /\ UNCHANGED <<rec, aged, late, op, evicted, local>>

\* The process ends without releasing; its unanswered writes may still land.
Crash(i) ==
    /\ handle[i].pc \notin {"new", "failed", "released", "crashed"}
    /\ Become(i, Idle(handle[i], "crashed"))
    /\ UNCHANGED <<rec, aged, late, op, evicted, local>>

-----------------------------------------------------------------------------
(* The store applies or drops an unanswered request; time passes.          *)

Applies(w) == IF w.kind = "create" THEN rec = NoRecord ELSE IsCurrent(w.expect)

LateWrite(w) ==
    /\ w \in late
    /\ late' = late \ {w}
    /\ IF ~Applies(w) THEN UNCHANGED <<rec, evicted>>
       ELSE IF w.kind = "retire"
       THEN /\ rec' = Retired(rec)
            /\ evicted' = IF w.by = "handle" THEN evicted ELSE evicted \cup {w.inc}
       ELSE rec' = HeldRecord(w.inc, w.rev) /\ UNCHANGED evicted
    /\ UNCHANGED <<handle, aged, op, local>>

\* Revision `r` of acquisition `i` is stored, or may still be.
Pending(i, r) ==
    \/ IsHeld /\ rec.inc = i /\ rec.rev = r
    \/ \E w \in late : w.kind # "retire" /\ w.inc = i /\ w.rev = r
    \/ r = 1 /\ handle[i].pc \in {"taking", "replacing"}
    \/ r = handle[i].arg /\ At(i, "beating")

\* stale_threshold_s passes since the heartbeat time of a revision.
GoStale(i, r) ==
    /\ Pending(i, r) /\ <<i, r>> \notin aged /\ Cardinality(aged) < MaxAged
    /\ aged' = aged \cup {<<i, r>>}
    /\ UNCHANGED <<rec, handle, late, op, evicted, local>>

-----------------------------------------------------------------------------
(* Operators.                                                              *)

SetOp(o, s) == op' = [op EXCEPT ![o] = s]

\* clear_claim reads the record; without force only a stale one goes on.
ClearReads(o, force) ==
    /\ op[o].pc = "idle" /\ IsHeld /\ (force \/ IsStale)
    /\ SetOp(o, [pc |-> "clearing", staleOnly |-> ~force, seen |-> ValidatorOf(rec)])
    /\ UNCHANGED <<rec, handle, aged, late, evicted, local>>

\* list_stale_claims (the sweep) or the claims of an abandoned run.
ListClaim(o, staleOnly) ==
    /\ op[o].pc = "idle" /\ IsHeld /\ (staleOnly => IsStale)
    /\ SetOp(o, [pc |-> "listed", staleOnly |-> staleOnly, seen |-> ValidatorOf(rec)])
    /\ UNCHANGED <<rec, handle, aged, late, evicted, local>>

\* Mutant: the re-read compares the owner only.
UnchangedOwner(o) == IsHeld /\ rec.inc = op[o].seen[1]

\* release_claim_if_unchanged re-reads and compares before it retires.
Unchanged(o) ==
    /\ IsHeld /\ rec.inc = op[o].seen[1]
    /\ op[o].staleOnly => ValidatorOf(rec) = op[o].seen /\ IsStale

RecheckClaim(o) ==
    /\ op[o].pc = "listed"
    /\ SetOp(o, IF Unchanged(o)
                THEN [op[o] EXCEPT !.pc = "clearing", !.seen = ValidatorOf(rec)]
                ELSE IdleOperator)
    /\ UNCHANGED <<rec, handle, aged, late, evicted, local>>

OperatorRetires(o) ==
    /\ op[o].pc = "clearing" /\ IsCurrent(op[o].seen)
    /\ rec' = Retired(rec)
    /\ evicted' = evicted \cup {rec.inc}
    /\ SetOp(o, IdleOperator)
    /\ UNCHANGED <<handle, aged, late, local>>

Clearer(o) == IF op[o].staleOnly THEN "sweep" ELSE "operator"

OperatorRefused(o) ==
    /\ op[o].pc = "clearing"
    /\ \/ ~IsCurrent(op[o].seen) /\ UNCHANGED late
       \/ late' = Unanswered(RetireRequest(op[o].seen[1], op[o].seen, Clearer(o)))
    /\ SetOp(o, IdleOperator)
    /\ UNCHANGED <<rec, handle, aged, evicted, local>>

-----------------------------------------------------------------------------

HandleStep(i) ==
    \/ AcquireCreates(i) \/ AcquireFindsRecord(i) \/ AcquireRaises(i)
    \/ TakeOverReads(i) \/ TakeOverReplaces(i) \/ TakeOverFails(i)
    \/ BeatStarts(i) \/ BeatCommits(i) \/ BeatRefused(i) \/ BeatRaises(i)
    \/ Reconcile(i) \/ ReconcileReadFails(i) \/ Confirm(i)
    \/ ReleaseStarts(i) \/ ReleaseTimesOut(i)
    \/ RetireCommits(i) \/ RetireRefused(i) \/ RetireRaises(i) \/ RetireRereads(i)
    \/ Crash(i)

OperatorStep(o) ==
    \/ \E force \in BOOLEAN : ClearReads(o, force)
    \/ \E staleOnly \in BOOLEAN : ListClaim(o, staleOnly)
    \/ RecheckClaim(o) \/ OperatorRetires(o) \/ OperatorRefused(o)

Next ==
    \/ \E i \in Incs : HandleStep(i)
    \/ \E o \in Ops : OperatorStep(o)
    \/ \E w \in late : LateWrite(w)
    \/ \E i \in Incs, r \in 1..MaxRev : GoStale(i, r)

Spec == Init /\ [][Next]_vars

\* The heartbeat thread of a live handle keeps running, and the store does not
\* leave every heartbeat and every re-read of a handle without an answer.
Fairness ==
    \A i \in Incs : SF_vars(BeatStarts(i)) /\ SF_vars(BeatRefused(i)) /\ SF_vars(Reconcile(i))
FairSpec == Spec /\ Fairness

-----------------------------------------------------------------------------
(* Properties.                                                             *)

\* The owner still acts on the claim: nothing told it to stop.
Holds(i) ==
    /\ handle[i].pc \in {"held", "beating", "refused", "unanswered"}
    /\ ~handle[i].lost /\ ~handle[i].stop

\* Whatever answers were lost, an owner that still acts on its claim has the
\* held record of its incarnation, unless an operator cleared it; so two owners
\* never both act on one domain without a clear (ClaimHandle, acquire).
HolderOwnsRecord == \A i \in Incs : Holds(i) => Mine(i) \/ i \in evicted

\* While it was not told to stop, a handle gives its claim up only because an
\* operator cleared it or because a refused write could not be re-read: lost
\* answers and late heartbeats alone never cost it the claim (_reconcile, confirm).
NoSpuriousLoss ==
    \A i \in Incs : handle[i].lost /\ ~handle[i].stop =>
                      i \in evicted \/ handle[i].blind

\* Once release returned, the record never shows the claim as held again: no
\* heartbeat still under way at the release brings it back, and two retire
\* attempts are enough (release, _retire_own_record).
ReleaseLeavesNoClaim ==
    \A i \in Incs : At(i, "released") /\ ~handle[i].blind => ~Mine(i)

\* A stale-only clear never removes a claim renewed after it was judged stale:
\* whenever its retire would still be applied, the record is still stale
\* (release_claim_if_unchanged, clear_claim without force).
SweepSparesLiveClaims ==
    /\ \A o \in Ops : op[o].pc = "clearing" /\ op[o].staleOnly /\ IsCurrent(op[o].seen)
                        => IsStale
    /\ \A w \in late : w.by = "sweep" /\ IsCurrent(w.expect) => IsStale

\* A held claim passes to another acquisition only through a release or a
\* clear: no acquire, takeover or late write displaces it (_take_over_released).
NoDisplacement == [][IsHeld /\ IsHeld' => rec'.inc = rec.inc]_vars

\* An owner whose claim was cleared finds out (heartbeat loop, _reconcile).
EvictionIsNoticed == \A i \in Incs : (Holds(i) /\ ~Mine(i)) ~> ~Holds(i)

-----------------------------------------------------------------------------
(* The claim implements the lease.                                         *)

Lease == INSTANCE Lease WITH
    holder <- IF IsHeld THEN rec.inc ELSE NoOne,
    active <- {i \in Incs : Holds(i)},
    evicted <- evicted

\* Every step of record, handles, operators and late writes is a grant, a
\* retreat, a return or an eviction of the lease, or changes nothing of it.
ImplementsLease == Lease!LeaseSpec

=============================================================================
