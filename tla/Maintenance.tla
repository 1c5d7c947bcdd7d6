----------------------------- MODULE Maintenance -----------------------------
(***************************************************************************)
(* Admission to one product under the exclusive maintenance claim          *)
(* (manager.py, deletion.py, archive.py):                                  *)
(*   - a writer (ingest, preallocate, restore) records its run started,    *)
(*     then reads the exclusive claim; a claim of another owner makes it   *)
(*     record the run failed and stop;                                     *)
(*   - a claimant (chunk deletion, archive create; index rebuild) lists    *)
(*     the claims, takes a claim of its own, then reads the exclusive one; *)
(*   - a maintainer (migration, release) takes the exclusive claim, then   *)
(*     lists the other claims and the runs and reads them one by one.      *)
(* Each reads the other's mark only after setting its own.  A claim is     *)
(* here what Claims.tla promises of it: held by one owner until its owner  *)
(* releases it or, the owner having ended, an operator clears it.          *)
(***************************************************************************)
EXTENDS Naturals, FiniteSets

CONSTANTS
    Writers,       \* runs gated by record_run_started
    Claimants,     \* operations gated by a maintenance claim of their own
    ListsFirst,    \* claimants that list the claims before they take theirs
    Maintainers,   \* runs that take the exclusive claim
    NoOne          \* no holder of the exclusive claim

ASSUME MaintenanceAssumption ==
    /\ ListsFirst \subseteq Claimants
    /\ Writers \cap Claimants = {}
    /\ Writers \cap Maintainers = {}
    /\ Claimants \cap Maintainers = {}
    /\ NoOne \notin Maintainers

VARIABLES
    excl,      \* owner of <product>:maintenance:exclusive, or NoOne
    claims,    \* owners of the product's other held claims
    run,       \* status of each recorded run
    wpc, cpc, mpc,
    serving,   \* the maintainer a claimant runs under (holder_run_id), or NoOne
    todo       \* what a maintainer's listing showed and it has not read yet

vars == <<excl, claims, run, wpc, cpc, mpc, serving, todo>>

Runs == Writers \cup Maintainers
Terminal == {"complete", "failed", "abandoned"}
Blocking(r) == run[r] \notin Terminal \cup {"none"}

TypeOK ==
    /\ excl \in Maintainers \cup {NoOne}
    /\ claims \subseteq Writers \cup Claimants
    /\ run \in [Runs -> Terminal \cup {"none", "started"}]
    /\ wpc \in [Writers -> {"new", "recorded", "refusing", "writing", "ended", "crashed"}]
    /\ cpc \in [Claimants -> {"new", "listed", "claimed", "working", "ended", "crashed"}]
    /\ mpc \in [Maintainers -> {"new", "holding", "claims", "runs", "refusing",
                                "admitted", "working", "ended", "crashed"}]
    /\ serving \in [Claimants -> Maintainers \cup {NoOne}]
    /\ todo \in [Maintainers -> SUBSET (Runs \cup Claimants)]

Init ==
    /\ excl = NoOne /\ claims = {}
    /\ run = [r \in Runs |-> "none"]
    /\ wpc = [w \in Writers |-> "new"]
    /\ cpc = [c \in Claimants |-> "new"]
    /\ mpc = [m \in Maintainers |-> "new"]
    /\ serving = [c \in Claimants |-> NoOne]
    /\ todo = [m \in Maintainers |-> {}]

-----------------------------------------------------------------------------
(* Writers: record_run_started, then check_exclusive_maintenance.          *)

WGoto(w, l) == wpc' = [wpc EXCEPT ![w] = l]
SetRun(r, s) == run' = [run EXCEPT ![r] = s]

RecordStarted(w) ==
    /\ wpc[w] = "new"
    /\ SetRun(w, "started") /\ WGoto(w, "recorded")
    /\ UNCHANGED <<excl, claims, cpc, mpc, serving, todo>>

\* An absent exclusive claim passes; another owner's, or an unreadable one, refuses.
CheckExclusive(w) ==
    /\ wpc[w] = "recorded"
    /\ \/ excl = NoOne /\ WGoto(w, "writing")
       \/ WGoto(w, "refusing")
    /\ UNCHANGED <<excl, claims, run, cpc, mpc, serving, todo>>

\* _record_refused_start: a failed record is logged and the run stays started.
RecordRefused(w) ==
    /\ wpc[w] = "refusing"
    /\ SetRun(w, "failed") \/ UNCHANGED run
    /\ WGoto(w, "ended")
    /\ UNCHANGED <<excl, claims, cpc, mpc, serving, todo>>

\* The write claims a run takes and releases around its batches.
TakeWriteClaim(w) ==
    /\ wpc[w] = "writing" /\ w \notin claims
    /\ claims' = claims \cup {w}
    /\ UNCHANGED <<excl, run, wpc, cpc, mpc, serving, todo>>

ReleaseWriteClaim(w) ==
    /\ wpc[w] = "writing" /\ w \in claims
    /\ claims' = claims \ {w}
    /\ UNCHANGED <<excl, run, wpc, cpc, mpc, serving, todo>>

RecordTerminal(w) ==
    /\ wpc[w] = "writing" /\ w \notin claims
    /\ \E s \in {"complete", "failed"} : SetRun(w, s)
    /\ WGoto(w, "ended")
    /\ UNCHANGED <<excl, claims, cpc, mpc, serving, todo>>

WriterCrash(w) ==
    /\ wpc[w] \in {"recorded", "refusing", "writing"}
    /\ WGoto(w, "crashed")
    /\ UNCHANGED <<excl, claims, run, cpc, mpc, serving, todo>>

-----------------------------------------------------------------------------
(* Claimants: _acquire_maintenance_claims.                                 *)

CGoto(c, l) == cpc' = [cpc EXCEPT ![c] = l]

\* Only the exclusive claim of the run it serves may be in the listing, and
\* with holder_run_id it must be.
ListingPasses(h) == claims = {} /\ excl = h

ListClaimsFirst(c, h) ==
    /\ cpc[c] = "new" /\ c \in ListsFirst
    /\ h # NoOne => mpc[h] = "working"
    /\ serving' = [serving EXCEPT ![c] = h]
    /\ CGoto(c, IF ListingPasses(h) THEN "listed" ELSE "ended")
    /\ UNCHANGED <<excl, claims, run, wpc, mpc, todo>>

MayTakeClaim(c) ==
    IF c \in ListsFirst THEN cpc[c] = "listed" ELSE cpc[c] = "new"

TakeMaintenanceClaim(c) ==
    /\ MayTakeClaim(c)
    /\ claims' = claims \cup {c}
    /\ CGoto(c, "claimed")
    /\ UNCHANGED <<excl, run, wpc, mpc, serving, todo>>

\* Mutant: the listing taken before the claim is trusted.
CheckBeforeClaimOnly(c) ==
    /\ cpc[c] = "claimed"
    /\ CGoto(c, "working")
    /\ UNCHANGED <<excl, claims, run, wpc, mpc, serving, todo>>

\* check_exclusive_maintenance, or exclusive_maintenance_holder_refusal: the
\* owner must be nobody, or the run served.  A refusal releases the claim; a
\* failed release is logged and leaves it.
CheckUnderClaim(c) ==
    /\ cpc[c] = "claimed"
    /\ \/ /\ excl = serving[c]
          /\ CGoto(c, "working")
          /\ UNCHANGED claims
       \/ /\ CGoto(c, "ended")
          /\ claims' \in {claims, claims \ {c}}
    /\ UNCHANGED <<excl, run, wpc, mpc, serving, todo>>

FinishClaimant(c) ==
    /\ cpc[c] = "working"
    /\ CGoto(c, "ended")
    /\ claims' \in {claims, claims \ {c}}
    /\ UNCHANGED <<excl, run, wpc, mpc, serving, todo>>

ClaimantCrash(c) ==
    /\ cpc[c] \in {"listed", "claimed", "working"} /\ serving[c] = NoOne
    /\ CGoto(c, "crashed")
    /\ UNCHANGED <<excl, claims, run, wpc, mpc, serving, todo>>

-----------------------------------------------------------------------------
(* Maintainers: acquire_exclusive_maintenance.                             *)

MGoto(m, l) == mpc' = [mpc EXCEPT ![m] = l]

\* Mutant: an acquisition that lost goes through the releasing error path.
AcquireReleasesOnLoss(m) ==
    /\ mpc[m] = "new"
    /\ \/ excl = NoOne /\ excl' = m /\ MGoto(m, "holding")
       \/ excl # NoOne /\ excl' = NoOne /\ MGoto(m, "ended")
    /\ UNCHANGED <<claims, run, wpc, cpc, serving, todo>>

AcquireExclusive(m) ==
    /\ mpc[m] = "new"
    /\ \/ excl = NoOne /\ excl' = m /\ MGoto(m, "holding")
       \/ excl # NoOne /\ MGoto(m, "ended") /\ UNCHANGED excl
    /\ UNCHANGED <<claims, run, wpc, cpc, serving, todo>>

\* list_product_claims: the listing, then one read per listed record.
ListProductClaims(m) ==
    /\ mpc[m] = "holding"
    /\ todo' = [todo EXCEPT ![m] = claims]
    /\ MGoto(m, "claims")
    /\ UNCHANGED <<excl, claims, run, wpc, cpc, serving>>

ReadClaim(m, x) ==
    /\ mpc[m] = "claims" /\ x \in todo[m]
    /\ todo' = [todo EXCEPT ![m] = @ \ {x}]
    /\ IF x \in claims THEN MGoto(m, "refusing") ELSE UNCHANGED mpc
    /\ UNCHANGED <<excl, claims, run, wpc, cpc, serving>>

\* scan_runs: a fresh listing of runs/, then one read per run directory.
ListRuns(m) ==
    /\ mpc[m] = "claims" /\ todo[m] = {}
    /\ todo' = [todo EXCEPT ![m] = {r \in Runs \ {m} : run[r] # "none"}]
    /\ MGoto(m, "runs")
    /\ UNCHANGED <<excl, claims, run, wpc, cpc, serving>>

ReadRun(m, r) ==
    /\ mpc[m] = "runs" /\ r \in todo[m]
    /\ todo' = [todo EXCEPT ![m] = @ \ {r}]
    /\ IF Blocking(r) THEN MGoto(m, "refusing") ELSE UNCHANGED mpc
    /\ UNCHANGED <<excl, claims, run, wpc, cpc, serving>>

ReadFails(m) ==
    /\ mpc[m] \in {"holding", "claims", "runs"}
    /\ todo' = [todo EXCEPT ![m] = {}]
    /\ MGoto(m, "refusing")
    /\ UNCHANGED <<excl, claims, run, wpc, cpc, serving>>

Admit(m) ==
    /\ mpc[m] = "runs" /\ todo[m] = {}
    /\ MGoto(m, "admitted")
    /\ UNCHANGED <<excl, claims, run, wpc, cpc, serving, todo>>

\* Release the exclusive claim; a failed release is logged and leaves it.
ReleaseExclusive(m) == excl' \in {excl, NoOne}

Refuse(m) ==
    /\ mpc[m] = "refusing"
    /\ ReleaseExclusive(m)
    /\ todo' = [todo EXCEPT ![m] = {}]
    /\ MGoto(m, "ended")
    /\ UNCHANGED <<claims, run, wpc, cpc, serving>>

\* record_maintenance_started, then the maintenance itself.
StartMaintenance(m) ==
    /\ mpc[m] = "admitted"
    /\ SetRun(m, "started") /\ MGoto(m, "working")
    /\ UNCHANGED <<excl, claims, wpc, cpc, serving, todo>>

Serves(c, m) == serving[c] = m /\ cpc[c] \in {"listed", "claimed", "working"}

FinishMaintenance(m) ==
    /\ mpc[m] = "working"
    /\ \A c \in Claimants : ~Serves(c, m)
    /\ \E s \in {"complete", "failed"} : SetRun(m, s)
    /\ ReleaseExclusive(m)
    /\ MGoto(m, "ended")
    /\ UNCHANGED <<claims, wpc, cpc, serving, todo>>

\* The process of a maintainer is also the process of the claimants it serves.
MaintainerCrash(m) ==
    /\ mpc[m] \notin {"new", "ended", "crashed"}
    /\ MGoto(m, "crashed")
    /\ cpc' = [c \in Claimants |-> IF Serves(c, m) THEN "crashed" ELSE cpc[c]]
    /\ todo' = [todo EXCEPT ![m] = {}]
    /\ UNCHANGED <<excl, claims, run, wpc, serving>>

-----------------------------------------------------------------------------
(* Operators clear what an ended process left behind (clear_claim,         *)
(* abandon_run), "only after its process has stopped" (recover.md).        *)

Gone(x) ==
    \/ x \in Writers /\ wpc[x] \in {"ended", "crashed"}
    \/ x \in Claimants /\ cpc[x] \in {"ended", "crashed"}
    \/ x \in Maintainers /\ mpc[x] \in {"ended", "crashed"}

ClearClaim(x) ==
    /\ x \in claims /\ Gone(x)
    /\ claims' = claims \ {x}
    /\ UNCHANGED <<excl, run, wpc, cpc, mpc, serving, todo>>

ClearExclusive ==
    /\ excl # NoOne /\ Gone(excl)
    /\ excl' = NoOne
    /\ UNCHANGED <<claims, run, wpc, cpc, mpc, serving, todo>>

\* Mutant: only ingest runs can be abandoned.
AbandonWriterRun(r) ==
    /\ Gone(r) /\ r \in Writers /\ run[r] = "started"
    /\ SetRun(r, "abandoned")
    /\ UNCHANGED <<excl, claims, wpc, cpc, mpc, serving, todo>>

\* abandon_run records the run abandoned; its claims are released after that.
AbandonRun(r) ==
    /\ Gone(r) /\ run[r] = "started"
    /\ SetRun(r, "abandoned")
    /\ UNCHANGED <<excl, claims, wpc, cpc, mpc, serving, todo>>

-----------------------------------------------------------------------------

WriterStep(w) ==
    \/ RecordStarted(w) \/ CheckExclusive(w) \/ RecordRefused(w)
    \/ TakeWriteClaim(w) \/ ReleaseWriteClaim(w)
    \/ RecordTerminal(w) \/ WriterCrash(w)

ClaimantStep(c) ==
    \/ \E h \in Maintainers \cup {NoOne} : ListClaimsFirst(c, h)
    \/ TakeMaintenanceClaim(c) \/ CheckUnderClaim(c)
    \/ FinishClaimant(c) \/ ClaimantCrash(c)

MaintainerStep(m) ==
    \/ AcquireExclusive(m) \/ ListProductClaims(m)
    \/ \E x \in todo[m] : ReadClaim(m, x)
    \/ ListRuns(m)
    \/ \E r \in todo[m] : ReadRun(m, r)
    \/ ReadFails(m) \/ Admit(m) \/ Refuse(m)
    \/ StartMaintenance(m) \/ FinishMaintenance(m) \/ MaintainerCrash(m)

OperatorStep ==
    \/ \E x \in claims : ClearClaim(x)
    \/ ClearExclusive
    \/ \E r \in Runs : AbandonRun(r)

Next ==
    \/ \E w \in Writers : WriterStep(w)
    \/ \E c \in Claimants : ClaimantStep(c)
    \/ \E m \in Maintainers : MaintainerStep(m)
    \/ OperatorStep

Spec == Init /\ [][Next]_vars

\* A process runs on until it ends or crashes, a run does not write batches
\* for ever, and operators get round to every leftover.
Fairness ==
    /\ \A w \in Writers : WF_vars(WriterStep(w)) /\ SF_vars(RecordTerminal(w))
    /\ \A c \in Claimants : WF_vars(ClaimantStep(c))
    /\ \A m \in Maintainers : WF_vars(MaintainerStep(m))
    /\ WF_vars(OperatorStep)
FairSpec == Spec /\ Fairness

-----------------------------------------------------------------------------
(* Properties.                                                             *)

UnderMaintenance(m) == mpc[m] \in {"admitted", "working"}

\* "Only the owner of the exclusive maintenance claim" may write: while a
\* maintainer is admitted no writer writes, no other maintainer is admitted,
\* and a claimant works only under that maintainer's own run id
\* (record_run_started, acquire_exclusive_maintenance, check_exclusive_maintenance).
MaintenanceIsExclusive ==
    \A m \in Maintainers : UnderMaintenance(m) =>
        /\ \A w \in Writers : wpc[w] # "writing"
        /\ \A c \in Claimants : cpc[c] = "working" => serving[c] = m
        /\ \A n \in Maintainers \ {m} : ~UnderMaintenance(n)

\* A maintainer that is under way holds the exclusive claim to its end: neither
\* another's refusal nor an operator takes it away (ClaimHandle.release in the
\* except branch of acquire_exclusive_maintenance).
MaintainerKeepsClaim ==
    \A m \in Maintainers : mpc[m] \notin {"new", "ended", "crashed"} => excl = m

\* Nobody waits for anybody: gates refuse instead of blocking, and whatever a
\* refused, crashed or failing process leaves (claim, exclusive claim, started
\* run) one clear or abandon removes, so the product becomes free again.
Free == excl = NoOne /\ claims = {} /\ \A r \in Runs : ~Blocking(r)
ProductBecomesFree == <>[]Free

=============================================================================
