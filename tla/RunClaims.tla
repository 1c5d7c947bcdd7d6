------------------------------ MODULE RunClaims ------------------------------
(***************************************************************************)
(* The claims of one run (claims.py, write_session.py, base.py): the claim *)
(* of its product, held to the end; the schema claim its batches share by  *)
(* counting (RunSchemaClaims); the latch every handle reports its loss to  *)
(* (ClaimLossLatch); and the reading of the claims still held before the   *)
(* run is recorded complete.  Operators clear claims and others take them. *)
(* What a handle does with its record is Claims; here it finds its record  *)
(* or does not.                                                            *)
(***************************************************************************)
EXTENDS Integers, FiniteSets

CONSTANTS
    Batches,     \* batches of the run, a thread each
    MaxHandles   \* acquisitions of the schema claim (bound)

VARIABLES
    record,   \* owner of each claim record: a handle, Free or Foreign
    handle,   \* each handle: unused, held or released; lost, latch attached, tracked
    beat,     \* heartbeat of each handle: idle, or between _lost and the latch
    guard,    \* RunSchemaClaims._guard
    entry,    \* the shared entry: handle, 0 without one, and count
    setup,    \* lock of the entry: the batch inside the scope
    batch,    \* place of each batch
    latch,    \* the run's latch is set
    main,     \* place of the main thread, and handles left to confirm
    evicted,  \* history: handles whose record others took before they gave it up
    excused   \* history: handles a failed read or a timeout leaves unread

rvars == <<record, handle, beat, guard, entry, setup, batch, latch, main, evicted, excused>>

NoBatch == "none"
Product == 0                       \* the handle of the product claim
Free == -1                         \* owners of a record other than handles
Foreign == -2
Handles == 0..MaxHandles
Domain(h) == IF h = Product THEN "product" ELSE "schema"
Unused == [state |-> "unused", lost |-> FALSE, latched |-> FALSE, tracked |-> FALSE]
NoEntry == [handle |-> 0, count |-> 0]
IsLive(h) == handle[h].state = "held"

\* reporting_claim_loss: the product claim has the latch from its first heartbeat on.
RunClaimsInit ==
    /\ record = [d \in {"product", "schema"} |-> IF d = "product" THEN Product ELSE Free]
    /\ handle = [h \in Handles |-> IF h = Product
                                   THEN [state |-> "held", lost |-> FALSE, latched |-> TRUE, tracked |-> TRUE]
                                   ELSE Unused]
    /\ beat = [h \in Handles |-> "idle"]
    /\ guard = NoBatch /\ entry = NoEntry /\ setup = NoBatch
    /\ batch = [b \in Batches |-> "new"]
    /\ latch = FALSE /\ main = [pc |-> "pool", left |-> {}]
    /\ evicted = {} /\ excused = {}

At(b, l) == batch[b] = l
Go(b, l) == batch' = [batch EXCEPT ![b] = l]

-----------------------------------------------------------------------------
(* A batch: admission, the shared schema claim, its release.               *)

\* admit_write.
Admit(b) ==
    /\ At(b, "new") /\ Go(b, IF latch THEN "failed" ELSE "admitted")
    /\ UNCHANGED <<record, handle, beat, guard, entry, setup, latch, main, evicted, excused>>

\* RunSchemaClaims.acquire: the first takes the claim, the others share it.
Share(b) ==
    /\ At(b, "admitted") /\ guard = NoBatch
    /\ IF entry = NoEntry
       THEN guard' = b /\ Go(b, "acquire") /\ UNCHANGED entry
       ELSE entry' = [entry EXCEPT !.count = @ + 1] /\ Go(b, "setup") /\ UNCHANGED guard
    /\ UNCHANGED <<record, handle, beat, setup, latch, main, evicted, excused>>

Fresh == {h \in Handles \ {Product} : handle[h] = Unused}

\* A record of another owner refuses; the guard is left by the exception.
AcquireClaim(b) ==
    /\ At(b, "acquire")
    /\ IF record["schema"] = Free
       THEN \E h \in Fresh :
                /\ \A g \in Fresh : h <= g
                /\ record' = [record EXCEPT !["schema"] = h]
                /\ handle' = [handle EXCEPT ![h].state = "held"]
                /\ entry' = [handle |-> h, count |-> 1]
                /\ Go(b, "attach") /\ UNCHANGED guard
       ELSE Go(b, "conflict") /\ guard' = NoBatch /\ UNCHANGED <<record, handle, entry>>
    /\ UNCHANGED <<beat, setup, latch, main, evicted, excused>>

\* attach_latch: the latch is set into the handle ...
AttachLatch(b) ==
    /\ At(b, "attach") /\ Go(b, "track")
    /\ handle' = [handle EXCEPT ![entry.handle].latched = TRUE]
    /\ UNCHANGED <<record, beat, guard, entry, setup, latch, main, evicted, excused>>

Track(b) ==
    /\ At(b, "track") /\ Go(b, "look")
    /\ handle' = [handle EXCEPT ![entry.handle].tracked = TRUE]
    /\ UNCHANGED <<record, beat, guard, entry, setup, latch, main, evicted, excused>>

\* Mutant: a loss that happened before the latch was attached is not looked for.
AttachWithoutLook(b) ==
    /\ At(b, "look") /\ guard' = NoBatch /\ Go(b, "setup")
    /\ UNCHANGED <<record, handle, beat, entry, setup, latch, main, evicted, excused>>

\* ... and a loss that happened already is passed on.
LookForLoss(b) ==
    /\ At(b, "look") /\ guard' = NoBatch /\ Go(b, "setup")
    /\ latch' = (latch \/ handle[entry.handle].lost)
    /\ UNCHANGED <<record, handle, beat, entry, setup, main, evicted, excused>>

TakeSetup(b) ==
    /\ At(b, "setup") /\ setup = NoBatch
    /\ setup' = b /\ Go(b, "inside")
    /\ UNCHANGED <<record, handle, beat, guard, entry, latch, main, evicted, excused>>

LeaveSetup(b) ==
    /\ At(b, "inside") /\ setup' = NoBatch /\ Go(b, "leaving")
    /\ UNCHANGED <<record, handle, beat, guard, entry, latch, main, evicted, excused>>

\* RunSchemaClaims._release: the last one out releases the claim under the guard.
Leave(b) ==
    /\ At(b, "leaving") /\ guard = NoBatch
    /\ entry' = [entry EXCEPT !.count = @ - 1]
    /\ IF entry.count > 1 THEN Go(b, "done") /\ UNCHANGED guard
       ELSE Go(b, "retire") /\ guard' = b
    /\ UNCHANGED <<record, handle, beat, setup, latch, main, evicted, excused>>

\* ClaimHandle.release: a lost handle touches nothing, a record that is not its own loses it.
Retire(b) ==
    LET h == entry.handle
        gone == ~handle[h].lost /\ record[Domain(h)] # h
    IN /\ At(b, "retire") /\ beat[h] = "idle"
       /\ record' = IF record[Domain(h)] = h /\ ~handle[h].lost
                    THEN [record EXCEPT ![Domain(h)] = Free] ELSE record
       /\ handle' = [handle EXCEPT ![h].state = "released", ![h].lost = @ \/ gone]
       /\ latch' = (latch \/ gone)
       /\ guard' = NoBatch /\ entry' = NoEntry /\ Go(b, "done")
       /\ UNCHANGED <<beat, setup, main, evicted, excused>>

\* _release_timed_out, or the store fails: the claim stays, and the batch fails.
RetireFails(b) ==
    /\ At(b, "retire")
    /\ latch' \in {TRUE, latch}
    /\ guard' = NoBatch /\ entry' = NoEntry /\ Go(b, "failed")
    /\ UNCHANGED <<record, handle, beat, setup, main, evicted, excused>>

-----------------------------------------------------------------------------
(* The heartbeat of a handle, and other owners.                            *)

\* _lose: first the flag ...
BeatLoses(h) ==
    /\ IsLive(h) /\ ~handle[h].lost /\ beat[h] = "idle" /\ record[Domain(h)] # h
    /\ handle' = [handle EXCEPT ![h].lost = TRUE]
    /\ beat' = [beat EXCEPT ![h] = "losing"]
    /\ UNCHANGED <<record, guard, entry, setup, batch, latch, main, evicted, excused>>

\* ... then the latch, if there is one by now.
BeatSetsLatch(h) ==
    /\ beat[h] = "losing"
    /\ beat' = [beat EXCEPT ![h] = "idle"]
    /\ latch' = (latch \/ handle[h].latched)
    /\ UNCHANGED <<record, handle, guard, entry, setup, batch, main, evicted, excused>>

\* An operator clears a claim, or a foreign run takes, keeps or gives up what is free.
Others(d) ==
    /\ \E x \in {Free, Foreign} \ {record[d]} : record' = [record EXCEPT ![d] = x]
    /\ evicted' = evicted \cup ({record[d]} \cap Handles)
    /\ UNCHANGED <<handle, beat, guard, entry, setup, batch, latch, main, excused>>

-----------------------------------------------------------------------------
(* The main thread: BaseIngestor.run after the pool.                       *)

Tracked == {h \in Handles : handle[h].tracked /\ IsLive(h)}

\* The pool is joined; a lost claim or a failed batch fails the run.
Join ==
    /\ main.pc = "pool" /\ \A b \in Batches : batch[b] \in {"done", "failed", "conflict"}
    /\ main' = IF latch \/ \E b \in Batches : batch[b] # "done"
               THEN [main EXCEPT !.pc = "failed"]
               ELSE [pc |-> "confirm", left |-> Tracked]
    /\ UNCHANGED <<record, handle, beat, guard, entry, setup, batch, latch, evicted, excused>>

\* confirm: one read, unless a heartbeat is in flight or the read fails.
Confirm(h) ==
    /\ main.pc = "confirm" /\ h \in main.left
    /\ main' = [main EXCEPT !.left = @ \ {h}]
    /\ \/ /\ beat[h] = "idle"
          /\ LET gone == ~handle[h].lost /\ record[Domain(h)] # h
             IN /\ handle' = [handle EXCEPT ![h].lost = @ \/ gone]
                /\ latch' = (latch \/ gone)
          /\ UNCHANGED excused
       \/ excused' = excused \cup {h} /\ UNCHANGED <<handle, latch>>
    /\ UNCHANGED <<record, beat, guard, entry, setup, batch, evicted>>

\* _refuse_lost_claim, then register_run.
RecordTerminal ==
    /\ main.pc = "confirm" /\ main.left = {}
    /\ main' = [main EXCEPT !.pc = IF latch THEN "failed" ELSE "complete"]
    /\ UNCHANGED <<record, handle, beat, guard, entry, setup, batch, latch, evicted, excused>>

RunClaimsNext ==
    \/ \E b \in Batches :
        \/ Admit(b) \/ Share(b) \/ AcquireClaim(b) \/ AttachLatch(b) \/ Track(b) \/ LookForLoss(b)
        \/ TakeSetup(b) \/ LeaveSetup(b) \/ Leave(b) \/ Retire(b) \/ RetireFails(b)
    \/ \E h \in Handles : BeatLoses(h) \/ BeatSetsLatch(h) \/ Confirm(h)
    \/ \E d \in DOMAIN record : Others(d)
    \/ Join \/ RecordTerminal

-----------------------------------------------------------------------------
(* What the run relies on.                                                 *)

\* Batches do not fail each other: a batch meets no claim of its own run, but one whose
\* release failed.
OwnClaimIsNeverMet ==
    \A b \in Batches : At(b, "acquire") /\ record["schema"] \in Handles =>
        \E c \in Batches : At(c, "failed")

\* Inside the scope the claim is not released, and one batch is there at a time.
ScopeHoldsClaim ==
    \A b \in Batches : At(b, "inside") =>
        /\ setup = b /\ entry.count > 0 /\ IsLive(entry.handle)
        /\ record["schema"] = entry.handle \/ entry.handle \in evicted

\* However the heartbeat and the attachment interleave, a loss reaches the latch.
LossReachesLatch ==
    \A h \in Handles : handle[h].lost /\ beat[h] = "idle" =>
        latch \/ \E b \in Batches : batch[b] \in {"attach", "track", "look"} /\ entry.handle = h

RunClaimsInvariant == OwnClaimIsNeverMet /\ ScopeHoldsClaim /\ LossReachesLatch

\* A run that is recorded complete has lost no claim until it had read it a last time or
\* given it up, unless that reading failed.
CompletesWithItsClaims ==
    \A h \in main.left \cap evicted :
        h \notin main'.left => h \in excused' \/ latch'
EndsHonestly ==
    main.pc # "complete" /\ main'.pc = "complete" =>
        \A h \in Handles : handle[h].lost => beat[h] = "losing" \/ h \in excused

RunClaimsStep == CompletesWithItsClaims /\ EndsHonestly
=============================================================================
