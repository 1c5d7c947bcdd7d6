------------------------------ MODULE Pipeline ------------------------------
(***************************************************************************)
(* One run's batches: the PipelineRunner loop on the main thread, the      *)
(* thread pool it submits to, and the OrderedWriteGate that makes an       *)
(* appending host (GenericZarrIngestor) commit in planner order and stop   *)
(* at the first failure.  A "direct" host (DirectZarrIngestor) has no gate *)
(* and carries on after a failed batch.                                    *)
(*                                                                         *)
(* A batch goes pending -> taken -> setup -> prepare -> turn -> check ->   *)
(* write -> teardown -> finished.  "taken" is the instant between a worker *)
(* removing the work item from the pool's queue and the future turning     *)
(* RUNNING, during which the main thread may still cancel it.              *)
(***************************************************************************)
EXTENDS Integers, Sequences, FiniteSets

CONSTANTS N,            \* batches of the run, 0 .. N-1 in planner order
          Workers,      \* pipeline_workers
          Hosts,        \* subset of {"append", "direct"}
          Modes         \* subset of {"parallel", "sequential"}

ASSUME SizesAreNatural == N \in Nat /\ Workers \in Nat \ {0}
ASSUME HostsAreKnown == Hosts \subseteq {"append", "direct"}
ASSUME ModesAreKnown == Modes \subseteq {"parallel", "sequential"}

VARIABLES host, mode,
          st,           \* st[b]: how far batch b is
          outcome,      \* outcome[b]: the PipelineResult of b, once it has one
          nextIndex, gateHalted, holder, releasedAhead, \* the OrderedWriteGate
          store,        \* the batches whose write landed, in landing order
          latch,        \* the run's ClaimLossLatch is set
          main,         \* the main thread: [pc, batch, pos]
          halted,       \* the runner's local "halted"
          results, skipped, \* how often b was given to add_result / mark_not_attempted
          verdict

gate == <<nextIndex, gateHalted, holder, releasedAhead>>

vars == <<host, mode, st, outcome, gate, store, latch, main, halted, results,
          skipped, verdict>>

Batches == 0 .. N - 1

Nobody == -1
Unordered == -2     \* the holder marker of an ExclusiveSection

InPool == {"taken", "setup", "prepare", "turn", "check", "write", "teardown"}
Started == InPool \ {"taken"}

TypeOK ==
    /\ host \in {"append", "direct"}
    /\ mode \in {"parallel", "sequential"}
    /\ st \in [Batches -> InPool \cup {"pending", "finished", "cancelled"}]
    /\ outcome \in [Batches -> {"none", "success", "failure", "refused"}]
    /\ nextIndex \in 0 .. N
    /\ gateHalted \in BOOLEAN
    /\ holder \in Batches \cup {Nobody, Unordered}
    /\ releasedAhead \in [Batches -> {"no", "ok", "failed"}]
    /\ store \in Seq(Batches)
    /\ latch \in BOOLEAN
    /\ main \in [pc : {"collect", "hook", "locked", "unlocked", "cancel", "ended"},
                 batch : Batches \cup {Nobody}, pos : 0 .. N]
    /\ halted \in BOOLEAN
    /\ results \in [Batches -> Nat]
    /\ skipped \in [Batches -> Nat]
    /\ verdict \in {"none", "failed", "lost", "complete"}

\* What the gate is when a run starts: reset, nothing released, nobody inside.
FreshGate ==
    /\ nextIndex = 0 /\ gateHalted = FALSE /\ holder = Nobody
    /\ releasedAhead = [b \in Batches |-> "no"]

(***************************************************************************)
(* on_pipeline_start resets the gate before any worker exists; every       *)
(* future is submitted, in planner order, before the first is collected.   *)
(***************************************************************************)
Init ==
    /\ host \in Hosts
    /\ mode \in Modes
    /\ st = [b \in Batches |-> "pending"]
    /\ outcome = [b \in Batches |-> "none"]
    /\ FreshGate
    /\ store = <<>>
    /\ latch = FALSE
    /\ main = [pc |-> "collect", batch |-> Nobody, pos |-> 0]
    /\ halted = FALSE
    /\ results = [b \in Batches |-> 0]
    /\ skipped = [b \in Batches |-> 0]
    /\ verdict = "none"

-----------------------------------------------------------------------------
(***************************************************************************)
(* The ordered write gate.                                                 *)
(***************************************************************************)

SetHolder(who) ==
    holder' = who /\ UNCHANGED <<nextIndex, gateHalted, releasedAhead>>

\* A turnstile that forgets the writer inside.
MayEnterIgnoresHolder(i) == i = nextIndex

\* Batch i is next in line and no writer is active.
MayEnter(i) == i = nextIndex /\ holder = Nobody

\* Everything from i up to k - 1 was released ahead of its turn, k was not.
DrainsTo(i, k) ==
    /\ \A j \in Batches : i <= j /\ j < k => releasedAhead[j] # "no"
    /\ k \in Batches => releasedAhead[k] = "no"

\* A drain that consumes the indexes released ahead without looking at
\* whether they failed.
ReleaseForgetsFailure(i, failed) ==
    IF i = nextIndex
    THEN \E k \in (i + 1) .. N :
           /\ DrainsTo(i + 1, k)
           /\ nextIndex' = k
           /\ gateHalted' = (gateHalted \/ failed)
           /\ holder' = IF holder = i THEN Nobody ELSE holder
           /\ releasedAhead' = [j \in Batches |->
                IF i < j /\ j < k THEN "no" ELSE releasedAhead[j]]
    ELSE /\ i > nextIndex
         /\ releasedAhead' = [releasedAhead EXCEPT
                                ![i] = IF failed THEN "failed" ELSE "ok"]
         /\ UNCHANGED <<nextIndex, gateHalted, holder>>

\* release(i, failed): in turn it advances the sequence over the indexes
\* released ahead, a failed one among them halting the gate; out of turn it
\* is only recorded.
Release(i, failed) ==
    IF i = nextIndex
    THEN \E k \in (i + 1) .. N :
           /\ DrainsTo(i + 1, k)
           /\ nextIndex' = k
           /\ gateHalted' = (gateHalted \/ failed \/ \E j \in Batches :
                             i < j /\ j < k /\ releasedAhead[j] = "failed")
           /\ holder' = IF holder = i THEN Nobody ELSE holder
           /\ releasedAhead' = [j \in Batches |->
                IF i < j /\ j < k THEN "no" ELSE releasedAhead[j]]
    ELSE /\ i > nextIndex
         /\ releasedAhead' = [releasedAhead EXCEPT
                                ![i] = IF failed THEN "failed" ELSE "ok"]
         /\ UNCHANGED <<nextIndex, gateHalted, holder>>

-----------------------------------------------------------------------------
(***************************************************************************)
(* The thread pool.  Work items leave its queue in submission order, at    *)
(* most Workers of them at once; a future can be cancelled until it runs.  *)
(***************************************************************************)

Dequeue(b) ==
    /\ mode = "parallel"
    /\ st[b] = "pending"
    /\ \A c \in Batches : c < b => st[c] # "pending"
    /\ Cardinality({c \in Batches : st[c] \in InPool}) < Workers
    /\ st' = [st EXCEPT ![b] = "taken"]
    /\ UNCHANGED <<host, mode, outcome, gate, store, latch, main, halted, results,
                   skipped, verdict>>

StartBatch(b) ==
    /\ st[b] = "taken"
    /\ st' = [st EXCEPT ![b] = "setup"]
    /\ UNCHANGED <<host, mode, outcome, gate, store, latch, main, halted, results,
                   skipped, verdict>>

\* The sequential runner calls _process_batch_timed itself, once the batch
\* before it has been handled.
RunNextInLine(b) ==
    /\ mode = "sequential" /\ main.pc = "collect"
    /\ st[b] = "pending"
    /\ \A c \in Batches : c < b => results[c] + skipped[c] > 0
    /\ st' = [st EXCEPT ![b] = "setup"]
    /\ UNCHANGED <<host, mode, outcome, gate, store, latch, main, halted, results,
                   skipped, verdict>>

-----------------------------------------------------------------------------
(***************************************************************************)
(* A batch in its worker: pre_batch_hook, then the host's _process_batch.  *)
(***************************************************************************)

Finish(b, how) ==
    /\ st' = [st EXCEPT ![b] = "finished"]
    /\ outcome' = [outcome EXCEPT ![b] = how]

ToTeardown(b, how) ==
    /\ st' = [st EXCEPT ![b] = "teardown"]
    /\ outcome' = [outcome EXCEPT ![b] = how]

SetUp(b) ==
    /\ st[b] = "setup"
    /\ st' = [st EXCEPT ![b] = "prepare"]
    /\ UNCHANGED <<host, mode, outcome, gate, store, latch, main, halted, results,
                   skipped, verdict>>

\* The seeding hook or batch_setup raises: no WriteTurn exists yet, so no
\* index is given up; _process_batch_timed turns the error into a result.
SetUpFails(b) ==
    /\ st[b] = "setup"
    /\ Finish(b, "failure")
    /\ UNCHANGED <<host, mode, gate, store, latch, main, halted, results, skipped,
                   verdict>>

Prepare(b) ==
    /\ st[b] = "prepare"
    /\ st' = [st EXCEPT ![b] = IF host = "append" THEN "turn" ELSE "check"]
    /\ UNCHANGED <<host, mode, outcome, gate, store, latch, main, halted, results,
                   skipped, verdict>>

\* A direct batch whose items yield no intent to write succeeds as it is.
NothingToWrite(b) ==
    /\ host = "direct" /\ st[b] = "prepare"
    /\ ToTeardown(b, "success")
    /\ UNCHANGED <<host, mode, gate, store, latch, main, halted, results, skipped,
                   verdict>>

\* The batch fails before its turn: the finally clause forfeits the turn.
PrepareFails(b) ==
    /\ st[b] = "prepare"
    /\ IF host = "append" THEN Release(b, TRUE) ELSE UNCHANGED gate
    /\ ToTeardown(b, "failure")
    /\ UNCHANGED <<host, mode, store, latch, main, halted, results, skipped, verdict>>

EnterTurn(b) ==
    /\ st[b] = "turn" /\ MayEnter(b) /\ ~gateHalted
    /\ SetHolder(b)
    /\ st' = [st EXCEPT ![b] = "check"]
    /\ UNCHANGED <<host, mode, outcome, store, latch, main, halted, results, skipped,
                   verdict>>

\* The gate halted: the batch writes nothing and still releases its index.
TurnRefused(b) ==
    /\ st[b] = "turn" /\ MayEnter(b) /\ gateHalted
    /\ Release(b, FALSE)
    /\ ToTeardown(b, "refused")
    /\ UNCHANGED <<host, mode, store, latch, main, halted, results, skipped, verdict>>

\* A run that lost a claim admits no further batch: raise_if_set in the turn
\* (append), admit_write (direct).
ClaimGone(b) ==
    /\ st[b] = "check" /\ latch
    /\ IF host = "append" THEN Release(b, TRUE) ELSE UNCHANGED gate
    /\ ToTeardown(b, "failure")
    /\ UNCHANGED <<host, mode, store, latch, main, halted, results, skipped, verdict>>

StartWrite(b) ==
    /\ st[b] = "check" /\ ~latch
    /\ st' = [st EXCEPT ![b] = "write"]
    /\ UNCHANGED <<host, mode, outcome, gate, store, latch, main, halted, results,
                   skipped, verdict>>

Written(b) ==
    /\ st[b] = "write"
    /\ store' = Append(store, b)
    /\ IF host = "append" THEN Release(b, FALSE) ELSE UNCHANGED gate
    /\ ToTeardown(b, "success")
    /\ UNCHANGED <<host, mode, latch, main, halted, results, skipped, verdict>>

WriteFails(b) ==
    /\ st[b] = "write"
    /\ IF host = "append" THEN Release(b, TRUE) ELSE UNCHANGED gate
    /\ ToTeardown(b, "failure")
    /\ UNCHANGED <<host, mode, store, latch, main, halted, results, skipped, verdict>>

\* cleanup_batch_data is swallowed; batch_teardown (or assembling the
\* metrics of a finished write) may raise and then replaces the result.
TearDown(b) ==
    /\ st[b] = "teardown"
    /\ \E how \in {outcome[b], "failure"} : Finish(b, how)
    /\ UNCHANGED <<host, mode, gate, store, latch, main, halted, results, skipped,
                   verdict>>

\* A heartbeat finds one of the run's claims in other hands.
LoseClaim ==
    /\ ~latch /\ main.pc # "ended"
    /\ latch' = TRUE
    /\ UNCHANGED <<host, mode, st, outcome, gate, store, main, halted, results,
                   skipped, verdict>>

-----------------------------------------------------------------------------
(***************************************************************************)
(* The main thread: one finished future at a time, its hook, and after the *)
(* first failure of a fail-stop host the cancellation of what is pending.  *)
(***************************************************************************)

Uncollected(b) == st[b] = "finished" /\ results[b] + skipped[b] = 0

\* Batches the sequential loop has not reached when it breaks.
Remaining(b) == {c \in Batches : b < c}

\* A runner that stops the rest again at every later failure.
GoOnStoppingAgain(b, stop) ==
    IF ~stop
    THEN /\ main' = [main EXCEPT !.pc = "collect", !.batch = Nobody]
         /\ UNCHANGED <<st, halted>>
    ELSE /\ halted' = TRUE
         /\ IF mode = "parallel"
            THEN /\ main' = [pc |-> "cancel", batch |-> Nobody, pos |-> 0]
                 /\ UNCHANGED st
            ELSE /\ main' = [main EXCEPT !.pc = "collect", !.batch = Nobody]
                 /\ st' = [c \in Batches |->
                             IF c \in Remaining(b) THEN "cancelled" ELSE st[c]]

\* What follows handling b: the loop goes on, or it stops the rest.
GoOn(b, stop) ==
    IF ~stop \/ halted
    THEN /\ main' = [main EXCEPT !.pc = "collect", !.batch = Nobody]
         /\ UNCHANGED <<st, halted>>
    ELSE /\ halted' = TRUE
         /\ IF mode = "parallel"
            THEN /\ main' = [pc |-> "cancel", batch |-> Nobody, pos |-> 0]
                 /\ UNCHANGED st
            ELSE /\ main' = [main EXCEPT !.pc = "collect", !.batch = Nobody]
                 /\ st' = [c \in Batches |->
                             IF c \in Remaining(b) THEN "cancelled" ELSE st[c]]

\* mark_not_attempted of b, and of the rest of a sequential run.
SkipCounts(b) ==
    [c \in Batches |->
       IF c = b \/ (mode = "sequential" /\ c \in Remaining(b))
       THEN skipped[c] + 1 ELSE skipped[c]]

CollectRefused(b) ==
    /\ main.pc = "collect" /\ Uncollected(b) /\ outcome[b] = "refused"
    /\ skipped' = SkipCounts(b)
    /\ GoOn(b, TRUE)
    /\ UNCHANGED <<host, mode, outcome, gate, store, latch, results, verdict>>

Collect(b) ==
    /\ main.pc = "collect" /\ Uncollected(b) /\ outcome[b] # "refused"
    /\ results' = [results EXCEPT ![b] = @ + 1]
    /\ main' = [main EXCEPT !.pc = "hook", !.batch = b]
    /\ UNCHANGED <<host, mode, st, outcome, gate, store, latch, halted, skipped,
                   verdict>>

\* A hook of an appending host may open the store under write_lock, once.
HookLocks ==
    /\ main.pc = "hook" /\ host = "append" /\ holder = Nobody
    /\ SetHolder(Unordered)
    /\ main' = [main EXCEPT !.pc = "locked"]
    /\ UNCHANGED <<host, mode, st, outcome, store, latch, halted, results, skipped,
                   verdict>>

\* An exclusive section that is left without giving the gate back.
HookUnlocksKeepsGate ==
    /\ main.pc = "locked"
    /\ main' = [main EXCEPT !.pc = "unlocked"]
    /\ UNCHANGED <<host, mode, st, outcome, gate, store, latch, halted, results,
                   skipped, verdict>>

HookUnlocks ==
    /\ main.pc = "locked"
    /\ SetHolder(Nobody)
    /\ main' = [main EXCEPT !.pc = "unlocked"]
    /\ UNCHANGED <<host, mode, st, outcome, store, latch, halted, results, skipped,
                   verdict>>

\* The hook returned or raised, which is only logged.
HookReturns ==
    LET b == main.batch
        stop == outcome[b] = "failure" /\ host = "append"
    IN /\ main.pc \in {"hook", "unlocked"}
       /\ skipped' = IF stop /\ ~halted /\ mode = "sequential"
                     THEN [c \in Batches |->
                             skipped[c] + IF c \in Remaining(b) THEN 1 ELSE 0]
                     ELSE skipped
       /\ GoOn(b, stop)
       /\ UNCHANGED <<host, mode, outcome, gate, store, latch, results, verdict>>

Cancellable(b) == st[b] \in {"pending", "taken", "cancelled"}

CancelNext ==
    /\ main.pc = "cancel" /\ main.pos < N
    /\ main' = [main EXCEPT !.pos = @ + 1]
    /\ IF Cancellable(main.pos)
       THEN /\ st' = [st EXCEPT ![main.pos] = "cancelled"]
            /\ skipped' = [skipped EXCEPT ![main.pos] = @ + 1]
       ELSE UNCHANGED <<st, skipped>>
    /\ UNCHANGED <<host, mode, outcome, gate, store, latch, halted, results, verdict>>

CancelDone ==
    /\ main.pc = "cancel" /\ main.pos = N
    /\ main' = [main EXCEPT !.pc = "collect", !.pos = 0]
    /\ UNCHANGED <<host, mode, st, outcome, gate, store, latch, halted, results,
                   skipped, verdict>>

\* A finalize that only looks at the results it was given last.
FinalizeIgnoresFailures ==
    /\ main.pc = "collect"
    /\ \A b \in Batches : st[b] \in {"finished", "cancelled"} /\ ~Uncollected(b)
    /\ main' = [main EXCEPT !.pc = "ended"]
    /\ verdict' = IF latch THEN "lost" ELSE "complete"
    /\ UNCHANGED <<host, mode, st, outcome, gate, store, latch, halted, results,
                   skipped>>

\* Every future is done: finalize raises on failed results, and a lost claim
\* refuses the run before its output is completed.
Finalize ==
    /\ main.pc = "collect"
    /\ \A b \in Batches : st[b] \in {"finished", "cancelled"} /\ ~Uncollected(b)
    /\ main' = [main EXCEPT !.pc = "ended"]
    /\ verdict' = IF \E b \in Batches : results[b] > 0 /\ outcome[b] = "failure"
                  THEN "failed" ELSE IF latch THEN "lost" ELSE "complete"
    /\ UNCHANGED <<host, mode, st, outcome, gate, store, latch, halted, results,
                   skipped>>

Ended == main.pc = "ended" /\ UNCHANGED vars

Worker(b) ==
    \/ Dequeue(b) \/ StartBatch(b) \/ RunNextInLine(b)
    \/ SetUp(b) \/ SetUpFails(b)
    \/ Prepare(b) \/ NothingToWrite(b) \/ PrepareFails(b)
    \/ EnterTurn(b) \/ TurnRefused(b)
    \/ ClaimGone(b) \/ StartWrite(b)
    \/ Written(b) \/ WriteFails(b)
    \/ TearDown(b)

Main ==
    \/ \E b \in Batches : CollectRefused(b) \/ Collect(b)
    \/ HookReturns
    \/ CancelNext \/ CancelDone
    \/ Finalize

Next ==
    \/ \E b \in Batches : Worker(b)
    \/ Main \/ HookLocks \/ HookUnlocks
    \/ LoseClaim
    \/ Ended

Spec == Init /\ [][Next]_vars

\* Threads run until they block, a locked hook returns and unlocks.
FairSpec ==
    /\ Spec
    /\ \A b \in Batches : WF_vars(Worker(b))
    /\ WF_vars(Main) /\ WF_vars(HookUnlocks)

-----------------------------------------------------------------------------
(***************************************************************************)
(* Properties.                                                             *)
(***************************************************************************)

\* The batches an appending run has written are the first ones in planner
\* order, without a gap, whichever batch failed, was refused or gave up its
\* turn early, and whatever order the workers arrived in.
AppendsAreAPrefix ==
    host = "append" => \A i \in 1 .. Len(store) : store[i] = i - 1

\* While a batch of an appending run writes, no other batch writes and no
\* hook holds write_lock.
WritesAreExclusive ==
    host = "append" =>
      \A b \in Batches : st[b] \in {"check", "write"} =>
        /\ main.pc # "locked"
        /\ \A c \in Batches : st[c] \in {"check", "write"} => c = b

\* Every batch is counted at most once, as a result or as not attempted, and
\* when the run ends exactly once; one counted as not attempted wrote nothing.
BatchesAreAccountedFor ==
    /\ \A b \in Batches : results[b] + skipped[b] <= 1
    /\ main.pc = "ended" => \A b \in Batches : results[b] + skipped[b] = 1
    /\ \A b \in Batches : skipped[b] > 0 => \A i \in 1 .. Len(store) : store[i] # b

\* A run that goes on to complete its output attempted every batch, failed
\* in none, and if it appends its store holds all of them.
CompleteIsWhole ==
    verdict = "complete" =>
      /\ \A b \in Batches : skipped[b] = 0 /\ outcome[b] = "success"
      /\ host = "append" => Len(store) = N

\* Index b will never be released: its batch is over and did not release it.
Leaked(b) ==
    /\ st[b] \in {"finished", "cancelled"}
    /\ b >= nextIndex /\ releasedAhead[b] = "no"

\* A started batch is behind a leaked index.
Stranded ==
    host = "append" /\ \E b, c \in Batches : b < c /\ Leaked(b) /\ st[c] \in Started

\* The argument by which the gate cannot stall: a waiting batch waits for an
\* index whose own batch is with a worker and short of its teardown, unless an
\* index leaked (OrderedWriteGate.acquire_turn, release).
LowestIndexIsRunning ==
    Stranded \/ \A c \in Batches : st[c] = "turn" =>
      \E b \in Batches : b = nextIndex /\ st[b] \in InPool \ {"teardown"}

\* A run ends, unless a batch was stranded.
RunEnds == <>(main.pc = "ended" \/ Stranded)

\* No batch waits for its turn for ever.
NoWaiterWaitsForever == \A b \in Batches : (st[b] = "turn") ~> (st[b] # "turn")
=============================================================================
