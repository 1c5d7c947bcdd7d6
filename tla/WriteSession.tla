---------------------------- MODULE WriteSession ----------------------------
(***************************************************************************)
(* A ZarrWriteSession and the end of the run that owns it.  Threads write  *)
(* one batch each through the session; the run then verifies, promotes and *)
(* records a staged output, closes the session and deletes its workspace.  *)
(* The worker pool is joined before that, but a thread a plugin started by *)
(* itself (Strays) is not, and anyone may close the session meanwhile: the *)
(* session's drain, its state and its authorities have to hold them off.   *)
(***************************************************************************)
EXTENDS Naturals, FiniteSets

CONSTANTS Threads,      \* a batch each, and its cell of the data
          Strays,       \* the threads the pool does not join
          Units,        \* the stored units, as the sets of cells they consist of
          WriteModes    \* subset of {"staged", "direct"}

\* What an instance assumes of the constants: the units partition the cells.
SessionAssumption ==
    /\ IsFiniteSet(Threads) /\ Strays \subseteq Threads
    /\ UNION Units = Threads
    /\ \A u, v \in Units : u # v => u \cap v = {}
    /\ WriteModes \subseteq {"staged", "direct"}

VARIABLES writeMode,
          state, inFlight, closed, drainFailed, \* ZarrWriteSession
          seeding,          \* the seeding authority is live
          publishing,       \* the publishing authority
          touched, written, \* StagedWriteLedger: cells
          latch,            \* ClaimLossLatch
          pc,               \* the threads
          landed, seeded,   \* cells, and seeded metadata, written in the workspace
          workspace,        \* "present" or "deleted"
          mpc, verdict,     \* the run's main thread, and what it records
          puts, docs,       \* units and metadata in the final target
          cpc               \* the callers of close

session == <<state, inFlight, closed, drainFailed, seeding, publishing>>
ledger == <<touched, written>>
store == <<landed, seeded, workspace>>
target == <<puts, docs>>
run == <<mpc, verdict>>
vars == <<writeMode, session, ledger, latch, pc, store, run, target, cpc>>

\* The run's own finally clause, and a caller that closes when it likes.
Closers == {"run", "other"}

Staged == writeMode = "staged"
Inside == {"admitted", "writing", "wrote", "leaving"}

TypeOK ==
    /\ writeMode \in {"staged", "direct"}
    /\ state \in {"prepared", "writing", "publishing", "terminal"}
    /\ inFlight \in Nat
    /\ closed \in BOOLEAN /\ drainFailed \in BOOLEAN
    /\ seeding \in BOOLEAN
    /\ publishing \in {"none", "held", "revoked"}
    /\ touched \subseteq Threads /\ written \subseteq Threads
    /\ latch \in BOOLEAN
    /\ pc \in [Threads -> Inside \cup {"idle", "seed", "ready", "done", "refused"}]
    /\ landed \subseteq Threads /\ seeded \subseteq Threads
    /\ workspace \in {"present", "deleted"}
    /\ mpc \in {"running", "finished", "draining", "covering", "holding", "asking",
                "units", "putting", "publishing", "confirming", "recording", "closing",
                "over"}
    /\ verdict \in {"none", "failed", "complete"}
    /\ puts \subseteq Units /\ docs \in BOOLEAN
    /\ cpc \in [Closers -> {"idle", "draining", "waiting", "returned", "raised"}]

Init ==
    /\ writeMode \in WriteModes
    /\ state = "prepared" /\ inFlight = 0 /\ closed = FALSE /\ drainFailed = FALSE
    /\ seeding = Staged /\ publishing = "none"
    /\ touched = {} /\ written = {}
    /\ latch = FALSE
    /\ pc = [t \in Threads |-> "idle"]
    /\ landed = {} /\ seeded = {} /\ workspace = "present"
    /\ mpc = "running" /\ verdict = "none"
    /\ puts = {} /\ docs = FALSE
    /\ cpc = [c \in Closers |-> "idle"]

Goto(t, where) == pc' = [pc EXCEPT ![t] = where]

-----------------------------------------------------------------------------
(***************************************************************************)
(* A batch.  Its session calls (_operation) are refused once the session   *)
(* is terminal; inside an admitted batch they only add to a count that is  *)
(* already positive, so the count they leave is not modelled.              *)
(***************************************************************************)

\* staged_seeding_authority; a direct run seeds nothing.
AskSeeding(t) ==
    /\ pc[t] = "idle"
    /\ Goto(t, IF ~Staged THEN "ready" ELSE IF state = "terminal" THEN "refused" ELSE "seed")
    /\ UNCHANGED <<writeMode, session, ledger, latch, store, run, target, cpc>>

\* Seeding writes workspace metadata under the authority, whose revocation
\* waits for it; afterwards it is refused and the batch fails.
Seed(t) ==
    /\ pc[t] = "seed"
    /\ IF seeding
       THEN seeded' = seeded \cup {t} /\ Goto(t, "ready")
       ELSE seeded' = seeded /\ Goto(t, "refused")
    /\ UNCHANGED <<writeMode, session, ledger, latch, landed, workspace, run, target, cpc>>

Admissible == ~latch /\ state \in {"prepared", "writing"}

AdmitWrite(t) ==
    /\ pc[t] = "ready" /\ Admissible
    /\ state' = "writing" /\ inFlight' = inFlight + 1
    /\ Goto(t, "admitted")
    /\ UNCHANGED <<writeMode, closed, drainFailed, seeding, publishing, ledger, latch,
                   store, run, target, cpc>>

AdmitRefused(t) ==
    /\ pc[t] = "ready" /\ ~Admissible
    /\ Goto(t, "refused")
    /\ UNCHANGED <<writeMode, session, ledger, latch, store, run, target, cpc>>

\* record_touched, before anything is written.
RecordTouched(t) ==
    /\ pc[t] = "admitted"
    /\ IF Staged /\ state = "terminal"
       THEN Goto(t, "leaving") /\ UNCHANGED touched
       ELSE /\ Goto(t, "writing")
            /\ touched' = IF Staged THEN touched \cup {t} ELSE touched
    /\ UNCHANGED <<writeMode, session, written, latch, store, run, target, cpc>>

Write(t) ==
    /\ pc[t] = "writing"
    /\ \/ landed' = landed \cup {t} /\ Goto(t, "wrote")
       \/ landed' = landed /\ Goto(t, "leaving")        \* the write raises
    /\ UNCHANGED <<writeMode, session, ledger, latch, seeded, workspace, run, target, cpc>>

\* record_write_result and record_written.
RecordWritten(t) ==
    /\ pc[t] = "wrote"
    /\ written' = IF Staged /\ state # "terminal" THEN written \cup {t} ELSE written
    /\ Goto(t, "leaving")
    /\ UNCHANGED <<writeMode, session, touched, latch, store, run, target, cpc>>

Leave(t) ==
    /\ pc[t] = "leaving"
    /\ inFlight' = inFlight - 1
    /\ Goto(t, "done")
    /\ UNCHANGED <<writeMode, state, closed, drainFailed, seeding, publishing, ledger,
                   latch, store, run, target, cpc>>

LoseClaim ==
    /\ ~latch /\ mpc # "over"
    /\ latch' = TRUE
    /\ UNCHANGED <<writeMode, session, ledger, pc, store, run, target, cpc>>

-----------------------------------------------------------------------------
(***************************************************************************)
(* The main thread after the pipeline: BaseIngestor.run from the join of   *)
(* the pool to the terminal record.                                        *)
(***************************************************************************)

MGoto(where) == mpc' = where /\ verdict' = verdict
Fail == mpc' = "closing" /\ verdict' = "failed"

\* The batch wrote, and nothing it called raised.
Succeeded(t) == pc[t] = "done" /\ t \in landed /\ (Staged => t \in written)

\* The pool has been joined; a failed batch fails the run in finalize, which
\* may raise anyway.
JoinPool ==
    /\ mpc = "running"
    /\ \A t \in Threads \ Strays : pc[t] \in {"done", "refused"}
    /\ \/ (\A t \in Threads \ Strays : Succeeded(t)) /\ MGoto("finished")
       \/ Fail
    /\ UNCHANGED <<writeMode, session, ledger, latch, pc, store, target, cpc>>

\* _refuse_lost_claim, then verify_promotion for a staged run: it turns the
\* session away from admitting.
VerifyPromotion ==
    /\ mpc = "finished"
    /\ IF latch \/ (Staged /\ state \notin {"prepared", "writing"})
       THEN Fail /\ UNCHANGED state
       ELSE /\ MGoto(IF Staged THEN "draining" ELSE "confirming")
            /\ state' = IF Staged THEN "publishing" ELSE state
    /\ UNCHANGED <<writeMode, inFlight, closed, drainFailed, seeding, publishing, ledger,
                   latch, pc, store, target, cpc>>

\* A verification that goes on when its drain runs out of time.
DrainedOrNot ==
    /\ mpc = "draining"
    /\ seeding' = FALSE
    /\ MGoto("covering")
    /\ UNCHANGED <<writeMode, state, inFlight, closed, drainFailed, publishing, ledger,
                   latch, pc, store, target, cpc>>

\* The wait for in-flight writes ends, or runs out of time and refuses; the
\* seeding authority is released either way.
Drained ==
    /\ mpc = "draining"
    /\ seeding' = FALSE
    /\ IF inFlight = 0 THEN MGoto("covering") ELSE Fail
    /\ UNCHANGED <<writeMode, state, inFlight, closed, drainFailed, publishing, ledger,
                   latch, pc, store, target, cpc>>

TouchedUnits == {u \in Units : u \cap touched # {}}

\* Every unit a batch touched was written in every cell.
FullyWritten == \A u \in TouchedUnits : u \subseteq written

Cover ==
    /\ mpc = "covering"
    /\ IF FullyWritten /\ ~latch THEN MGoto("holding") ELSE Fail
    /\ UNCHANGED <<writeMode, session, ledger, latch, pc, store, target, cpc>>

HoldAuthority ==
    /\ mpc = "holding"
    /\ IF state = "publishing"
       THEN publishing' = "held" /\ MGoto("asking")
       ELSE publishing' = publishing /\ Fail
    /\ UNCHANGED <<writeMode, state, inFlight, closed, drainFailed, seeding, ledger, latch,
                   pc, store, target, cpc>>

\* staged_promotion_units runs as an operation of the session: it reads the
\* workspace and the target, and a close waits for it.
AskUnits ==
    /\ mpc = "asking"
    /\ IF state # "terminal"
       THEN inFlight' = inFlight + 1 /\ MGoto("units")
       ELSE inFlight' = inFlight /\ Fail
    /\ UNCHANGED <<writeMode, state, closed, drainFailed, seeding, publishing, ledger,
                   latch, pc, store, target, cpc>>

\* It answers, or refuses units that a guarded write never reported or that
\* the target has grown into.
GetUnits ==
    /\ mpc = "units"
    /\ inFlight' = inFlight - 1
    /\ \/ MGoto("putting")
       \/ Fail
    /\ UNCHANGED <<writeMode, state, closed, drainFailed, seeding, publishing, ledger,
                   latch, pc, store, target, cpc>>

\* Data objects are copied, without an authority, in any order; once a copy
\* fails, the ones already running still end before the call raises.
PutUnit(u) ==
    /\ mpc = "putting" /\ u \in TouchedUnits \ puts
    /\ \/ puts' = puts \cup {u} /\ MGoto("putting")
       \/ (\E more \in SUBSET (TouchedUnits \ {u}) : puts' = puts \cup more) /\ Fail
    /\ UNCHANGED <<writeMode, session, ledger, latch, pc, store, docs, cpc>>

PutsDone ==
    /\ mpc = "putting" /\ TouchedUnits \subseteq puts
    /\ MGoto("publishing")
    /\ UNCHANGED <<writeMode, session, ledger, latch, pc, store, target, cpc>>

\* zarr.json documents go out under the publishing authority, after the data;
\* docs says that all of them are in the target.
PublishMetadata ==
    /\ mpc = "publishing"
    /\ \/ publishing = "held" /\ docs' = TRUE /\ MGoto("confirming")
       \/ docs' = docs /\ Fail
    /\ UNCHANGED <<writeMode, session, ledger, latch, pc, store, puts, cpc>>

\* confirm_held_claims re-reads the claims still held; one may be gone.
ConfirmClaims ==
    /\ mpc = "confirming"
    /\ latch' \in {latch, TRUE}
    /\ MGoto("recording")
    /\ UNCHANGED <<writeMode, session, ledger, pc, store, target, cpc>>

RegisterRun ==
    /\ mpc = "recording"
    /\ mpc' = "closing"
    /\ verdict' = IF latch THEN "failed" ELSE "complete"
    /\ UNCHANGED <<writeMode, session, ledger, latch, pc, store, target, cpc>>

-----------------------------------------------------------------------------
(***************************************************************************)
(* close, called by the run's finally clause and perhaps by someone else.  *)
(***************************************************************************)

CloseStarts(c) ==
    /\ cpc[c] = "idle"
    /\ c = "run" => mpc = "closing"
    /\ state' = "terminal"
    /\ cpc' = [cpc EXCEPT ![c] = IF state = "terminal" THEN "waiting" ELSE "draining"]
    /\ UNCHANGED <<writeMode, inFlight, closed, drainFailed, seeding, publishing, ledger,
                   latch, pc, store, run, target>>

\* The first close: its wait ends with nothing in flight, or runs out of
\* time; both release the authorities and let the waiting callers go on.
CloseDrains(c) ==
    /\ cpc[c] = "draining"
    /\ drainFailed' = (inFlight > 0)
    /\ seeding' = FALSE
    /\ publishing' = IF publishing = "held" THEN "revoked" ELSE publishing
    /\ closed' = TRUE
    /\ cpc' = [cpc EXCEPT ![c] = IF inFlight > 0 THEN "raised" ELSE "returned"]
    /\ UNCHANGED <<writeMode, state, inFlight, ledger, latch, pc, store, run, target>>

CloseJoins(c) ==
    /\ cpc[c] = "waiting" /\ closed
    /\ cpc' = [cpc EXCEPT ![c] = IF drainFailed /\ inFlight > 0 THEN "raised" ELSE "returned"]
    /\ UNCHANGED <<writeMode, session, ledger, latch, pc, store, run, target>>

\* The workspace is deleted unless close failed, or cleanup is switched off.
TearDown ==
    /\ mpc = "closing" /\ cpc["run"] \in {"returned", "raised"}
    /\ \/ cpc["run"] = "returned" /\ workspace' = "deleted"
       \/ workspace' = workspace
    /\ MGoto("over")
    /\ UNCHANGED <<writeMode, session, ledger, latch, pc, landed, seeded, target, cpc>>

Batch(t) ==
    \/ AskSeeding(t) \/ Seed(t) \/ AdmitWrite(t) \/ AdmitRefused(t)
    \/ RecordTouched(t) \/ Write(t) \/ RecordWritten(t) \/ Leave(t)

Main ==
    \/ JoinPool \/ VerifyPromotion \/ Drained \/ Cover \/ HoldAuthority
    \/ AskUnits \/ GetUnits \/ (\E u \in Units : PutUnit(u)) \/ PutsDone
    \/ PublishMetadata \/ ConfirmClaims \/ RegisterRun \/ TearDown

Close(c) == CloseDrains(c) \/ CloseJoins(c)

Next ==
    \/ \E t \in Threads : Batch(t)
    \/ Main
    \/ \E c \in Closers : CloseStarts(c) \/ Close(c)
    \/ LoseClaim

Spec == Init /\ [][Next]_vars

\* Pool threads and the main thread run; a stray thread, and the caller that
\* closes on its own account, may never move.
FairSpec ==
    /\ Spec
    /\ \A t \in Threads \ Strays : WF_vars(Batch(t))
    /\ WF_vars(Main) /\ WF_vars(CloseStarts("run"))
    /\ \A c \in Closers : WF_vars(Close(c))

-----------------------------------------------------------------------------
(***************************************************************************)
(* Properties.                                                             *)
(***************************************************************************)

\* Nothing lands in a staged workspace that the run has deleted: neither a
\* batch still in flight nor a late seeding.
NothingLandsAfterDelete ==
    Staged /\ workspace = "deleted" => UNCHANGED <<landed, seeded>>

\* A unit in the target had every one of its cells in the workspace when it
\* was copied, and no batch was writing by then or later.
PromotionIsWhole ==
    Staged => /\ \A u \in puts : u \subseteq landed
              /\ puts # {} => \A t \in Threads : pc[t] \notin Inside

\* A caller that close returned to finds nothing in flight; so no caller
\* takes a session for drained that is not.
ReturnedMeansDrained ==
    \A c \in Closers : cpc[c] = "returned" =>
      inFlight = 0 /\ \A t \in Threads : pc[t] \notin Inside

\* Once close has let its callers go on, no metadata is written any more:
\* neither seeded into the workspace nor published to the target, even by a
\* thread that was given its permission before.
NoMetadataAfterClose ==
    closed => UNCHANGED <<seeded, docs>>

\* A staged run recorded complete promoted every unit its batches touched,
\* whole, and published the metadata.
CompleteMeansPromoted ==
    verdict = "complete" /\ Staged =>
      puts = {u \in Units : u \cap landed # {}} /\ docs

SessionInvariant ==
    TypeOK /\ PromotionIsWhole /\ ReturnedMeansDrained /\ CompleteMeansPromoted

SessionStep ==
    NothingLandsAfterDelete /\ NoMetadataAfterClose

\* What a session promises to its run: nothing of a batch arrives late, and what
\* is promoted and recorded complete is whole.
SessionIsSound == []SessionInvariant /\ [][SessionStep]_vars

\* Every run comes to its end and every caller of close is answered, however
\* long a stray thread stays in its batch.
RunIsOver ==
    /\ <>(mpc = "over")
    /\ \A c \in Closers : cpc[c] # "idle" ~> cpc[c] \in {"returned", "raised"}
=============================================================================
