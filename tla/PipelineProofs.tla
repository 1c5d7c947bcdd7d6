--------------------------- MODULE PipelineProofs ---------------------------
(***************************************************************************)
(* For every number of batches and workers: an appending run's store is a  *)
(* prefix of its batches, and one writer at a time is in it.  The gate is  *)
(* what makes it so; the pool and the main thread may do as they like.     *)
(* Every batch is counted for what happened to it, a completed run is      *)
(* whole, and a waiting batch waits for one that will release its index.   *)
(***************************************************************************)
EXTENDS Pipeline, TLAPS

\* The batch inside the gate is the one next in line, and the gate is open.
WriterIsNext ==
    \A b \in Batches : st[b] \in {"check", "write"} =>
      holder = b /\ nextIndex = b /\ ~gateHalted

\* Only a forfeited turn is released ahead of its index.
AheadMeansFailed == \A b \in Batches : releasedAhead[b] # "ok"

\* A hook that holds write_lock holds the gate.
LockIsHeld == main.pc = "locked" => holder = Unordered

\* As long as no batch failed, the gate stands right behind what was written.
OpenGateFollowsStore == ~gateHalted => Len(store) = nextIndex

StoreIsPrefix == \A i \in 1 .. Len(store) : store[i] = i - 1

GateInv ==
    /\ WriterIsNext
    /\ AheadMeansFailed
    /\ LockIsHeld
    /\ OpenGateFollowsStore
    /\ StoreIsPrefix

IInv == TypeOK /\ (host = "append" => GateInv)

GateType ==
    /\ nextIndex \in 0 .. N
    /\ gateHalted \in BOOLEAN
    /\ holder \in Batches \cup {Nobody, Unordered}
    /\ releasedAhead \in [Batches -> {"no", "ok", "failed"}]

MainType ==
    [pc : {"collect", "hook", "locked", "unlocked", "cancel", "ended"},
     batch : Batches \cup {Nobody}, pos : 0 .. N]

StTypes == [Batches -> InPool \cup {"pending", "finished", "cancelled"}]
-----------------------------------------------------------------------------
\* The indexes a run hands to the gate are naturals below N, and none of them
\* is a holder marker.
LEMMA BatchesAreNaturals ==
  /\ N \in Nat
  /\ \A b \in Batches : b \in Nat /\ b < N /\ b # Nobody /\ b # Unordered
BY SizesAreNatural DEF Batches, Nobody, Unordered

\* A release leaves the gate well-formed (OrderedWriteGate.release).
LEMMA ReleaseType ==
  ASSUME GateType, NEW b \in Batches, NEW failed \in BOOLEAN, Release(b, failed)
  PROVE  GateType'
<1>1. CASE b = nextIndex
  <2>1. PICK k \in (b + 1) .. N :
          /\ nextIndex' = k
          /\ gateHalted' = (gateHalted \/ failed \/ \E j \in Batches :
                             b < j /\ j < k /\ releasedAhead[j] = "failed")
          /\ holder' = IF holder = b THEN Nobody ELSE holder
          /\ releasedAhead' = [j \in Batches |->
               IF b < j /\ j < k THEN "no" ELSE releasedAhead[j]]
    BY <1>1, Zenon DEF Release
  <2>2. nextIndex' \in 0 .. N
    BY <2>1, BatchesAreNaturals
  <2>3. gateHalted' \in BOOLEAN
    BY <2>1, Zenon
  <2>4. holder' \in Batches \cup {Nobody, Unordered}
    BY <2>1 DEF GateType
  <2>5. releasedAhead' \in [Batches -> {"no", "ok", "failed"}]
    BY <2>1 DEF GateType
  <2> QED
    BY <2>2, <2>3, <2>4, <2>5 DEF GateType
<1>2. CASE b # nextIndex
  BY <1>2 DEF Release, GateType
<1> QED
  BY <1>1, <1>2

\* Going on or stopping the rest keeps the types (PipelineRunner.run_state).
LEMMA GoOnType ==
  ASSUME main \in MainType, halted \in BOOLEAN, st \in StTypes, NEW b, NEW stop,
         GoOn(b, stop)
  PROVE  main' \in MainType /\ halted' \in BOOLEAN /\ st' \in StTypes
<1>m. [main EXCEPT !.pc = "collect", !.batch = Nobody] \in MainType
  BY DEF MainType
<1>1. CASE ~stop \/ halted
  BY <1>m, <1>1 DEF GoOn
<1>2. CASE ~(~stop \/ halted) /\ mode = "parallel"
  <2>1. [pc |-> "cancel", batch |-> Nobody, pos |-> 0] \in MainType
    BY SizesAreNatural DEF MainType
  <2> QED
    BY <1>2, <2>1 DEF GoOn
<1>3. CASE ~(~stop \/ halted) /\ mode # "parallel"
  <2>1. main' \in MainType /\ halted' \in BOOLEAN
    BY <1>m, <1>3 DEF GoOn
  <2>2. st' = [c \in Batches |-> IF c \in Remaining(b) THEN "cancelled" ELSE st[c]]
    BY <1>3 DEF GoOn
  <2> QED
    BY <2>1, <2>2 DEF StTypes
<1> QED
  BY <1>1, <1>2, <1>3

\* The specification starts in the inductive invariant.
LEMMA InitHolds == Init => IInv
<1> SUFFICES ASSUME Init PROVE IInv
  OBVIOUS
<1>1. TypeOK
  <2>1. host \in {"append", "direct"} /\ mode \in {"parallel", "sequential"}
    BY HostsAreKnown, ModesAreKnown DEF Init
  <2>2. store \in Seq(Batches)
    BY DEF Init
  <2>3. GateType
    <3>1. nextIndex \in 0 .. N /\ releasedAhead \in [Batches -> {"no", "ok", "failed"}]
      BY SizesAreNatural DEF Init, FreshGate
    <3>2. gateHalted \in BOOLEAN /\ holder \in Batches \cup {Nobody, Unordered}
      BY Zenon DEF Init, FreshGate
    <3> QED
      BY <3>1, <3>2 DEF GateType
  <2>4. main \in [pc : {"collect", "hook", "locked", "unlocked", "cancel", "ended"},
                  batch : Batches \cup {Nobody}, pos : 0 .. N]
    BY SizesAreNatural DEF Init
  <2>5. /\ st \in StTypes
        /\ outcome \in [Batches -> {"none", "success", "failure", "refused"}]
    BY DEF Init, StTypes
  <2>6. results \in [Batches -> Nat] /\ skipped \in [Batches -> Nat]
    BY DEF Init
  <2>7. latch \in BOOLEAN /\ halted \in BOOLEAN /\ verdict \in {"none", "failed", "lost", "complete"}
    BY DEF Init
  <2> QED
    BY <2>1, <2>2, <2>3, <2>4, <2>5, <2>6, <2>7 DEF TypeOK, GateType, StTypes
<1>2. GateInv
  BY DEF Init, GateInv, FreshGate, WriterIsNext, AheadMeansFailed, LockIsHeld,
         OpenGateFollowsStore, StoreIsPrefix
<1> QED
  BY <1>1, <1>2 DEF IInv

\* Every variable keeps its type under every step of workers and main thread.
LEMMA TypeStep == TypeOK /\ [Next]_vars => TypeOK'
<1> SUFFICES ASSUME TypeOK, [Next]_vars PROVE TypeOK'
  OBVIOUS
<1> USE SizesAreNatural
<1>t. GateType
  BY DEF TypeOK, GateType
<1>s. main \in MainType /\ halted \in BOOLEAN /\ st \in StTypes
  BY DEF TypeOK, MainType, StTypes
<1>1. ASSUME NEW b \in Batches,
             Dequeue(b) \/ StartBatch(b) \/ RunNextInLine(b) \/ SetUp(b) \/ Prepare(b)
               \/ StartWrite(b)
      PROVE  TypeOK'
  <2>1. st' \in [Batches -> InPool \cup {"pending", "finished", "cancelled"}]
    <3>1. st \in [Batches -> InPool \cup {"pending", "finished", "cancelled"}]
      BY DEF TypeOK
    <3>2. CASE Dequeue(b) \/ StartBatch(b) \/ RunNextInLine(b)
      BY <3>1, <3>2 DEF Dequeue, StartBatch, RunNextInLine, InPool
    <3>3. CASE SetUp(b) \/ Prepare(b)
      BY <3>1, <3>3 DEF SetUp, Prepare, InPool
    <3>4. CASE StartWrite(b)
      BY <3>1, <3>4 DEF StartWrite, InPool
    <3> QED
      BY <1>1, <3>2, <3>3, <3>4
  <2>2. UNCHANGED <<host, mode, outcome, gate, store, latch, main, halted, results,
                    skipped, verdict>>
    BY <1>1 DEF Dequeue, StartBatch, RunNextInLine, SetUp, Prepare, StartWrite
  <2> QED
    BY <2>1, <2>2 DEF TypeOK, gate
<1>11. ASSUME NEW b \in Batches, SetUpFails(b) \/ NothingToWrite(b) \/ TearDown(b)
       PROVE  TypeOK'
  <2>1. st' \in [Batches -> InPool \cup {"pending", "finished", "cancelled"}]
    <3>1. st \in [Batches -> InPool \cup {"pending", "finished", "cancelled"}]
      BY DEF TypeOK
    <3>2. CASE SetUpFails(b)
      BY <3>1, <3>2 DEF SetUpFails, Finish
    <3>3. CASE NothingToWrite(b)
      BY <3>1, <3>3 DEF NothingToWrite, ToTeardown, InPool
    <3>4. CASE TearDown(b)
      BY <3>1, <3>4 DEF TearDown, Finish
    <3> QED
      BY <1>11, <3>2, <3>3, <3>4
  <2>2. outcome' \in [Batches -> {"none", "success", "failure", "refused"}]
    BY <1>11 DEF TypeOK, SetUpFails, NothingToWrite, TearDown, Finish, ToTeardown
  <2>3. UNCHANGED <<host, mode, gate, store, latch, main, halted, results, skipped,
                    verdict>>
    BY <1>11 DEF SetUpFails, NothingToWrite, TearDown
  <2> QED
    BY <2>1, <2>2, <2>3 DEF TypeOK, gate
<1>2. ASSUME NEW b \in Batches,
             PrepareFails(b) \/ TurnRefused(b) \/ ClaimGone(b) \/ WriteFails(b)
      PROVE  TypeOK'
  <2>1. GateType'
    <3>1. CASE host = "append"
      BY <1>2, <1>t, <3>1, ReleaseType DEF PrepareFails, TurnRefused, ClaimGone, WriteFails
    <3>2. CASE host # "append" /\ UNCHANGED gate
      BY <1>t, <3>2 DEF gate, GateType
    <3>3. CASE Release(b, FALSE)
      BY <1>t, <3>3, ReleaseType
    <3> QED
      BY <1>2, <3>1, <3>2, <3>3 DEF PrepareFails, TurnRefused, ClaimGone, WriteFails
  <2>2. \E how \in {"failure", "refused"} : ToTeardown(b, how)
    BY <1>2 DEF PrepareFails, TurnRefused, ClaimGone, WriteFails
  <2>3. /\ st' \in [Batches -> InPool \cup {"pending", "finished", "cancelled"}]
        /\ outcome' \in [Batches -> {"none", "success", "failure", "refused"}]
    BY <2>2 DEF TypeOK, ToTeardown, InPool
  <2>4. UNCHANGED <<host, mode, store, latch, main, halted, results, skipped, verdict>>
    BY <1>2 DEF PrepareFails, TurnRefused, ClaimGone, WriteFails
  <2> QED
    BY <2>1, <2>3, <2>4 DEF TypeOK, GateType
<1>3. ASSUME NEW b \in Batches, EnterTurn(b) PROVE TypeOK'
  BY <1>3 DEF TypeOK, EnterTurn, SetHolder, InPool
<1>4. ASSUME NEW b \in Batches, Written(b) PROVE TypeOK'
  <2>1. GateType'
    <3>1. CASE host = "append"
      BY <1>4, <1>t, <3>1, ReleaseType DEF Written
    <3>2. CASE host # "append"
      BY <1>4, <1>t, <3>2 DEF gate, GateType, Written
    <3> QED
      BY <3>1, <3>2
  <2>2. store' \in Seq(Batches)
    BY <1>4 DEF Written, TypeOK
  <2> QED
    BY <1>4, <2>1, <2>2 DEF TypeOK, GateType, Written, ToTeardown, InPool
<1>5. ASSUME NEW b \in Batches, CollectRefused(b) PROVE TypeOK'
  <2>1. skipped' \in [Batches -> Nat]
    BY <1>5 DEF TypeOK, CollectRefused, SkipCounts
  <2>2. main' \in MainType /\ halted' \in BOOLEAN /\ st' \in StTypes
    BY <1>5, <1>s, GoOnType DEF CollectRefused
  <2> QED
    BY <1>5, <2>1, <2>2 DEF TypeOK, CollectRefused, gate, MainType, StTypes
<1>12. ASSUME NEW b \in Batches, Collect(b) PROVE TypeOK'
  <2>1. results' \in [Batches -> Nat]
    BY <1>12 DEF TypeOK, Collect
  <2>2. main' \in MainType
    BY <1>12 DEF TypeOK, Collect, MainType
  <2> QED
    BY <1>12, <2>1, <2>2 DEF TypeOK, Collect, gate, MainType
<1>6. CASE HookLocks \/ HookUnlocks
  <2>1. main \in MainType
    BY DEF TypeOK, MainType
  <2>2. main' \in MainType
    BY <1>6, <2>1 DEF HookLocks, HookUnlocks, MainType
  <2> QED
    BY <1>6, <2>2 DEF TypeOK, HookLocks, HookUnlocks, SetHolder, MainType
<1>7. CASE HookReturns
  <2>1. skipped' \in [Batches -> Nat]
    BY <1>7 DEF TypeOK, HookReturns
  <2>2. main' \in MainType /\ halted' \in BOOLEAN /\ st' \in StTypes
    BY <1>7, <1>s, GoOnType DEF HookReturns
  <2> QED
    BY <1>7, <2>1, <2>2 DEF TypeOK, HookReturns, gate, MainType, StTypes
<1>8. CASE CancelNext \/ CancelDone
  <2>p. main.pos \in 0 .. N
    BY <1>s DEF MainType
  <2>1. main' \in MainType
    <3>1. CASE CancelNext
      <4>1. main.pos + 1 \in 0 .. N
        BY <2>p, <3>1 DEF CancelNext
      <4> QED
        BY <1>s, <3>1, <4>1 DEF CancelNext, MainType
    <3>2. CASE CancelDone
      <4>1. 0 \in 0 .. N
        OBVIOUS
      <4> QED
        BY <1>s, <3>2, <4>1 DEF CancelDone, MainType
    <3> QED
      BY <1>8, <3>1, <3>2
  <2>2. st' \in StTypes /\ skipped' \in [Batches -> Nat]
    <3>1. CASE CancelNext
      <4>1. main.pos \in Batches
        BY <2>p, <3>1 DEF CancelNext, Batches
      <4>2. CASE Cancellable(main.pos)
        <5>1. st' = [st EXCEPT ![main.pos] = "cancelled"]
          BY <3>1, <4>2 DEF CancelNext
        <5>2. skipped' = [skipped EXCEPT ![main.pos] = @ + 1]
          BY <3>1, <4>2 DEF CancelNext
        <5> QED
          BY <4>1, <5>1, <5>2 DEF TypeOK, StTypes
      <4>3. CASE ~Cancellable(main.pos)
        BY <3>1, <4>3 DEF TypeOK, CancelNext, StTypes
      <4> QED
        BY <4>2, <4>3
    <3>2. CASE CancelDone
      BY <3>2 DEF TypeOK, CancelDone, StTypes
    <3> QED
      BY <1>8, <3>1, <3>2
  <2>3. UNCHANGED <<host, mode, outcome, gate, store, latch, halted, results, verdict>>
    BY <1>8 DEF CancelNext, CancelDone
  <2> QED
    BY <2>1, <2>2, <2>3 DEF TypeOK, gate, MainType, StTypes
<1>9. CASE Finalize \/ LoseClaim
  BY <1>9 DEF TypeOK, Finalize, LoseClaim, InPool, gate
<1>10. CASE UNCHANGED vars
  BY <1>10 DEF TypeOK, vars, gate
<1> QED
  BY <1>1, <1>2, <1>3, <1>4, <1>5, <1>6, <1>7, <1>8, <1>9, <1>10, <1>11, <1>12
  DEF Next, Worker, Main, Ended

-----------------------------------------------------------------------------
\* What a release does to the gate: a failure in turn halts it, a success in
\* turn moves it by one or meets a forfeited turn and halts it, and out of
\* turn only failures are recorded (OrderedWriteGate.release, WriteTurn).
LEMMA ReleaseEffect ==
  ASSUME TypeOK, AheadMeansFailed, NEW b \in Batches, NEW failed \in BOOLEAN,
         Release(b, failed), b = nextIndex \/ failed
  PROVE  /\ AheadMeansFailed'
         /\ gateHalted => gateHalted'
         /\ holder = Unordered => holder' = Unordered
         /\ b = nextIndex => gateHalted' \/ (~failed /\ nextIndex' = b + 1)
         /\ b # nextIndex => UNCHANGED <<nextIndex, gateHalted, holder>>
<1>1. CASE b = nextIndex
  <2>1. PICK k \in (b + 1) .. N :
          /\ DrainsTo(b + 1, k)
          /\ nextIndex' = k
          /\ gateHalted' = (gateHalted \/ failed \/ \E j \in Batches :
                             b < j /\ j < k /\ releasedAhead[j] = "failed")
          /\ holder' = IF holder = b THEN Nobody ELSE holder
          /\ releasedAhead' = [j \in Batches |->
               IF b < j /\ j < k THEN "no" ELSE releasedAhead[j]]
    BY <1>1, Zenon DEF Release
  <2>2. AheadMeansFailed'
    BY <2>1 DEF AheadMeansFailed, TypeOK, Batches
  <2>3. holder = Unordered => holder' = Unordered
    BY <2>1, BatchesAreNaturals
  <2>4. (gateHalted => gateHalted') /\ (failed => gateHalted')
    BY <2>1
  <2>5. CASE k = b + 1
    BY <1>1, <2>1, <2>2, <2>3, <2>4, <2>5
  <2>6. CASE k # b + 1
    <3>1. b + 1 \in Batches /\ b < b + 1 /\ b + 1 < k
      BY <2>6, SizesAreNatural DEF Batches
    <3>2. releasedAhead[b + 1] # "no"
      <4>1. b + 1 <= b + 1
        BY BatchesAreNaturals
      <4> QED
        BY <2>1, <3>1, <4>1 DEF DrainsTo
    <3>3. releasedAhead[b + 1] = "failed"
      BY <3>1, <3>2 DEF AheadMeansFailed, TypeOK
    <3>4. gateHalted'
      BY <2>1, <3>1, <3>3
    <3> QED
      BY <1>1, <2>2, <2>3, <3>4
  <2> QED
    BY <2>5, <2>6
<1>2. CASE b # nextIndex
  BY <1>2 DEF Release, AheadMeansFailed, TypeOK
<1> QED
  BY <1>1, <1>2

\* Giving up b's index in failure, b not being a writer that succeeds: the
\* store is untouched and every conjunct survives.
LEMMA GivingUpKeepsInv ==
  ASSUME TypeOK, GateInv, NEW b \in Batches, NEW failed \in BOOLEAN,
         Release(b, failed), failed \/ (b = nextIndex /\ gateHalted),
         UNCHANGED <<store, main>>, st' = [st EXCEPT ![b] = "teardown"],
         st[b] \in {"prepare", "turn", "check", "write"}
  PROVE  GateInv'
<1> USE DEF GateInv
<1>1. /\ AheadMeansFailed'
      /\ gateHalted => gateHalted'
      /\ holder = Unordered => holder' = Unordered
      /\ b = nextIndex => gateHalted'
      /\ b # nextIndex => UNCHANGED <<nextIndex, gateHalted, holder>>
  BY ReleaseEffect
<1>2. WriterIsNext'
  <2> SUFFICES ASSUME NEW c \in Batches, st'[c] \in {"check", "write"}
               PROVE  holder' = c /\ nextIndex' = c /\ ~gateHalted'
    BY DEF WriterIsNext
  <2>1. c # b /\ st[c] \in {"check", "write"}
    BY DEF TypeOK
  <2>2. holder = c /\ nextIndex = c /\ ~gateHalted
    BY <2>1 DEF WriterIsNext
  <2> QED
    BY <1>1, <2>1, <2>2
<1>3. LockIsHeld'
  BY <1>1 DEF LockIsHeld
<1>4. OpenGateFollowsStore'
  BY <1>1 DEF OpenGateFollowsStore
<1>5. StoreIsPrefix'
  BY DEF StoreIsPrefix
<1> QED
  BY <1>1, <1>2, <1>3, <1>4, <1>5

\* After handling a batch the main thread holds no lock.
LEMMA GoOnUnlocked ==
  ASSUME main \in MainType, NEW b, NEW stop, GoOn(b, stop)
  PROVE  main'.pc # "locked"
<1>1. CASE ~stop \/ halted
  BY <1>1 DEF GoOn, MainType
<1>2. CASE ~(~stop \/ halted) /\ mode = "parallel"
  BY <1>2 DEF GoOn
<1>3. CASE ~(~stop \/ halted) /\ mode # "parallel"
  BY <1>3 DEF GoOn, MainType
<1> QED
  BY <1>1, <1>2, <1>3

\* A step that leaves the gate and the store alone and starts no write.
LEMMA IdleKeepsInv ==
  ASSUME TypeOK, GateInv, UNCHANGED <<gate, store>>,
         main'.pc = "locked" => main.pc = "locked",
         \A c \in Batches : st'[c] \in {"check", "write"} => st[c] \in {"check", "write"}
  PROVE  GateInv'
BY DEF GateInv, gate, WriterIsNext, AheadMeansFailed, LockIsHeld, OpenGateFollowsStore,
   StoreIsPrefix

\* Every step of an appending run keeps the gate's invariant.
LEMMA GateStep == IInv /\ [Next]_vars => (host' = "append" => GateInv')
<1> SUFFICES ASSUME IInv, [Next]_vars, host' = "append" PROVE GateInv'
  OBVIOUS
<1>h. host = "append" /\ GateInv /\ TypeOK
  BY DEF IInv, Next, Worker, Main, Ended, vars, Dequeue, StartBatch, RunNextInLine, SetUp,
     SetUpFails, Prepare, NothingToWrite, PrepareFails, EnterTurn, TurnRefused, ClaimGone,
     StartWrite, Written, WriteFails, TearDown, CollectRefused, Collect, HookReturns,
     CancelNext, CancelDone, Finalize, HookLocks, HookUnlocks, LoseClaim
<1>m. main \in MainType
  BY <1>h DEF TypeOK, MainType
<1>1. ASSUME NEW b \in Batches,
             Dequeue(b) \/ StartBatch(b) \/ RunNextInLine(b) \/ SetUp(b) \/ SetUpFails(b)
               \/ Prepare(b) \/ TearDown(b)
      PROVE  GateInv'
  <2>1. UNCHANGED <<gate, store, main>>
    BY <1>1 DEF Dequeue, StartBatch, RunNextInLine, SetUp, SetUpFails, Prepare, TearDown
  <2>2. \A c \in Batches : st'[c] \in {"check", "write"} => st[c] \in {"check", "write"}
    BY <1>1, <1>h DEF Dequeue, StartBatch, RunNextInLine, SetUp, SetUpFails, Prepare,
       TearDown, Finish, TypeOK
  <2> QED
    BY <1>h, <2>1, <2>2, IdleKeepsInv
<1>2. ASSUME NEW b \in Batches, NothingToWrite(b) PROVE GateInv'
  BY <1>2, <1>h DEF NothingToWrite
<1>3. ASSUME NEW b \in Batches, StartWrite(b) PROVE GateInv'
  <2>1. UNCHANGED <<gate, store, main>>
    BY <1>3 DEF StartWrite
  <2>2. \A c \in Batches : st'[c] \in {"check", "write"} => st[c] \in {"check", "write"}
    BY <1>3, <1>h DEF StartWrite, TypeOK
  <2> QED
    BY <1>h, <2>1, <2>2, IdleKeepsInv
<1>4. ASSUME NEW b \in Batches, PrepareFails(b) \/ ClaimGone(b) \/ WriteFails(b)
      PROVE  GateInv'
  <2>1. Release(b, TRUE) /\ UNCHANGED <<store, main>>
    BY <1>4, <1>h DEF PrepareFails, ClaimGone, WriteFails
  <2>2. st' = [st EXCEPT ![b] = "teardown"]
    BY <1>4 DEF PrepareFails, ClaimGone, WriteFails, ToTeardown
  <2>3. st[b] \in {"prepare", "turn", "check", "write"}
    BY <1>4 DEF PrepareFails, ClaimGone, WriteFails
  <2> QED
    BY <1>h, <2>1, <2>2, <2>3, GivingUpKeepsInv
<1>5. ASSUME NEW b \in Batches, TurnRefused(b) PROVE GateInv'
  <2>1. Release(b, FALSE) /\ UNCHANGED <<store, main>> /\ b = nextIndex /\ gateHalted
    BY <1>5 DEF TurnRefused, MayEnter
  <2>2. st' = [st EXCEPT ![b] = "teardown"] /\ st[b] = "turn"
    BY <1>5 DEF TurnRefused, ToTeardown
  <2> QED
    BY <1>h, <2>1, <2>2, GivingUpKeepsInv
<1>6. ASSUME NEW b \in Batches, EnterTurn(b) PROVE GateInv'
  <2>1. WriterIsNext'
    BY <1>6, <1>h, BatchesAreNaturals
    DEF EnterTurn, SetHolder, MayEnter, WriterIsNext, GateInv, TypeOK
  <2>2. AheadMeansFailed' /\ OpenGateFollowsStore' /\ StoreIsPrefix'
    BY <1>6, <1>h DEF EnterTurn, SetHolder, AheadMeansFailed, OpenGateFollowsStore,
       StoreIsPrefix, GateInv
  <2>3. LockIsHeld'
    BY <1>6, <1>h DEF EnterTurn, SetHolder, MayEnter, LockIsHeld, GateInv, Nobody, Unordered
  <2> QED
    BY <2>1, <2>2, <2>3 DEF GateInv
<1>7. ASSUME NEW b \in Batches, Written(b) PROVE GateInv'
  <2>1. Release(b, FALSE) /\ store' = Append(store, b) /\ UNCHANGED main
    BY <1>7, <1>h DEF Written
  <2>2. holder = b /\ nextIndex = b /\ ~gateHalted /\ Len(store) = b
    BY <1>7, <1>h DEF Written, GateInv, WriterIsNext, OpenGateFollowsStore
  <2>3. /\ AheadMeansFailed'
        /\ gateHalted' \/ nextIndex' = b + 1
    BY <1>h, <2>1, <2>2, ReleaseEffect DEF GateInv
  <2>4. WriterIsNext'
    BY <1>7, <1>h, <2>2 DEF Written, ToTeardown, WriterIsNext, GateInv, TypeOK
  <2>5. LockIsHeld'
    BY <1>h, <2>1, <2>2, BatchesAreNaturals DEF LockIsHeld, GateInv
  <2>6. store \in Seq(Batches) /\ Len(store') = Len(store) + 1
    BY <1>h, <2>1 DEF TypeOK
  <2>7. OpenGateFollowsStore'
    BY <2>2, <2>3, <2>6 DEF OpenGateFollowsStore
  <2>8. StoreIsPrefix'
    BY <1>h, <2>1, <2>2, <2>6 DEF StoreIsPrefix, GateInv
  <2> QED
    BY <2>3, <2>4, <2>5, <2>7, <2>8 DEF GateInv
<1>8. ASSUME NEW b \in Batches, CollectRefused(b) \/ Collect(b) PROVE GateInv'
  <2>1. UNCHANGED <<gate, store>>
    BY <1>8 DEF CollectRefused, Collect
  <2>2. main'.pc # "locked"
    <3>1. CASE CollectRefused(b)
      BY <1>h, <1>m, <3>1, GoOnUnlocked DEF CollectRefused
    <3>2. CASE Collect(b)
      BY <1>m, <3>2 DEF Collect, MainType
    <3> QED
      BY <1>8, <3>1, <3>2
  <2>3. \A c \in Batches : st'[c] \in {"check", "write"} => st[c] \in {"check", "write"}
    BY <1>8, <1>h DEF CollectRefused, Collect, GoOn, TypeOK
  <2> QED
    BY <1>h, <2>1, <2>2, <2>3, IdleKeepsInv
<1>9. CASE HookReturns
  <2>1. UNCHANGED <<gate, store>>
    BY <1>9 DEF HookReturns
  <2>2. main'.pc # "locked"
    BY <1>9, <1>m, GoOnUnlocked DEF HookReturns
  <2>3. \A c \in Batches : st'[c] \in {"check", "write"} => st[c] \in {"check", "write"}
    BY <1>9, <1>h DEF HookReturns, GoOn, TypeOK
  <2> QED
    BY <1>h, <2>1, <2>2, <2>3, IdleKeepsInv
<1>10. CASE CancelNext \/ CancelDone \/ Finalize \/ LoseClaim \/ UNCHANGED vars
  <2>1. UNCHANGED <<gate, store>>
    BY <1>10 DEF CancelNext, CancelDone, Finalize, LoseClaim, vars
  <2>2. main'.pc = "locked" => main.pc = "locked"
    BY <1>10, <1>h DEF CancelNext, CancelDone, Finalize, LoseClaim, vars, TypeOK
  <2>3. \A c \in Batches : st'[c] \in {"check", "write"} => st[c] \in {"check", "write"}
    BY <1>10, <1>h DEF CancelNext, CancelDone, Finalize, LoseClaim, vars, TypeOK
  <2> QED
    BY <1>h, <2>1, <2>2, <2>3, IdleKeepsInv
<1>11. CASE HookLocks \/ HookUnlocks
  <2>1. \A c \in Batches : st[c] \notin {"check", "write"}
    BY <1>11, <1>h, BatchesAreNaturals
    DEF HookLocks, HookUnlocks, GateInv, WriterIsNext, LockIsHeld
  <2>2. UNCHANGED <<st, store, nextIndex, gateHalted, releasedAhead>>
    BY <1>11 DEF HookLocks, HookUnlocks, SetHolder
  <2>3. main'.pc = "locked" => holder' = Unordered
    BY <1>11, <1>h DEF HookLocks, HookUnlocks, SetHolder, TypeOK
  <2> QED
    BY <1>h, <2>1, <2>2, <2>3 DEF GateInv, WriterIsNext, AheadMeansFailed, LockIsHeld,
       OpenGateFollowsStore, StoreIsPrefix
<1> QED
  BY <1>1, <1>2, <1>3, <1>4, <1>5, <1>6, <1>7, <1>8, <1>9, <1>10, <1>11
  DEF Next, Worker, Main, Ended

\* The invariant the next theorems rest on, for every N and Workers.
THEOREM Inductive == Spec => []IInv
<1>1. IInv /\ [Next]_vars => IInv'
  BY TypeStep, GateStep DEF IInv
<1> QED
  BY InitHolds, <1>1, PTL DEF Spec

\* Every reachable state of a run is well typed.
THEOREM TypeCorrect == Spec => []TypeOK
BY Inductive, PTL DEF IInv

\* An appending run's store holds a prefix of its batches, in planner order,
\* however its workers interleave, fail or are cancelled.
THEOREM AppendsPrefix == Spec => []AppendsAreAPrefix
<1>1. IInv => AppendsAreAPrefix
  BY DEF IInv, GateInv, StoreIsPrefix, AppendsAreAPrefix
<1> QED
  BY Inductive, <1>1, PTL

\* One batch of an appending run writes at a time, and no hook holds
\* write_lock meanwhile.
THEOREM ExclusiveWrites == Spec => []WritesAreExclusive
<1>1. IInv => WritesAreExclusive
  BY BatchesAreNaturals DEF IInv, GateInv, WriterIsNext, LockIsHeld, WritesAreExclusive
<1> QED
  BY Inductive, <1>1, PTL
-----------------------------------------------------------------------------
(***************************************************************************)
(* The accounting: what the main thread says of the batches at the end is  *)
(* what happened to them.                                                  *)
(***************************************************************************)

\* How often a batch was counted follows from how far it is: not before it is
\* over, as not attempted if it was cancelled or refused, as a result else.
CountFollowsState ==
    \A b \in Batches :
      /\ st[b] \notin {"finished", "cancelled"} => results[b] = 0 /\ skipped[b] = 0
      /\ st[b] = "cancelled" => results[b] = 0 /\ skipped[b] = 1
      /\ st[b] = "finished" => \/ results[b] = 0 /\ skipped[b] = 0
                               \/ results[b] = 1 /\ skipped[b] = 0 /\ outcome[b] # "refused"
                               \/ results[b] = 0 /\ skipped[b] = 1 /\ outcome[b] = "refused"

OutcomeIsKnown ==
    \A b \in Batches : st[b] \in {"teardown", "finished"} <=> outcome[b] # "none"

\* Whatever stopped the gate or the main thread, some batch has failed.
HaltHasCause ==
    gateHalted \/ halted \/ (\E b \in Batches : releasedAhead[b] = "failed")
                         \/ (\E b \in Batches : outcome[b] = "refused")
      => \E b \in Batches : outcome[b] = "failure"

\* Batches are cancelled after a halt only, and by one pass over them.
CancelledOnce ==
    /\ \A b \in Batches : st[b] = "cancelled" => halted
    /\ main.pc = "cancel" =>
         /\ mode = "parallel" /\ halted
         /\ \A b \in Batches : st[b] = "cancelled" => b < main.pos

\* A started batch of a sequential run has seen every earlier one handled, and
\* nothing is left to handle once the run has halted.
SequentialInOrder ==
    mode = "sequential" =>
      /\ \A b, c \in Batches : c < b /\ st[b] \notin {"pending", "cancelled"} =>
           results[c] + skipped[c] = 1
      /\ halted => \A b \in Batches : results[b] + skipped[b] = 1

\* While a hook runs its batch has been counted, and in a sequential run the
\* batches after it have not begun.
HookHasBatch ==
    main.pc \in {"hook", "locked", "unlocked"} =>
      /\ main.batch \in Batches
      /\ st[main.batch] = "finished" /\ results[main.batch] = 1
      /\ mode = "sequential" =>
           \A c \in Batches : main.batch < c => st[c] = "pending"

\* What landed was written by a batch that is over and was not refused, and a
\* batch of an appending run that succeeded has landed.
StoredAreOver ==
    \A i \in 1 .. Len(store) : outcome[store[i]] \in {"success", "failure"}

SuccessIsStored ==
    host = "append" =>
      \A b \in Batches : outcome[b] = "success" => \E i \in 1 .. Len(store) : store[i] = b

\* Once it has ended, every batch is over and counted, and nothing moves.
EndIsTotal ==
    /\ main.pc = "ended" =>
         \A b \in Batches : /\ st[b] \in {"finished", "cancelled"}
                            /\ results[b] + skipped[b] = 1
    /\ verdict # "none" => main.pc = "ended"
    /\ verdict = "complete" => \A b \in Batches : results[b] = 0 \/ outcome[b] # "failure"

AccountInv ==
    /\ CountFollowsState
    /\ OutcomeIsKnown
    /\ HaltHasCause
    /\ CancelledOnce
    /\ SequentialInOrder
    /\ HookHasBatch
    /\ StoredAreOver
    /\ SuccessIsStored
    /\ EndIsTotal

\* Batches are taken in planner order.
QueueInOrder ==
    \A b, c \in Batches : b < c /\ st[c] \notin {"pending", "cancelled"} =>
      st[b] # "pending"

\* The gate has not passed a batch that still has its index, the index it is at
\* was not released, and a batch in its teardown has released its own.
IndexIsKept ==
    \A b \in Batches :
      /\ st[b] \notin {"teardown", "finished", "cancelled"} =>
           b >= nextIndex /\ releasedAhead[b] = "no"
      /\ st[b] = "teardown" => b < nextIndex \/ releasedAhead[b] # "no"
      /\ b = nextIndex => releasedAhead[b] = "no"

\* Only a host that appends has its batches wait for a turn.
OnlyAppendersQueue == \A b \in Batches : st[b] = "turn" => host = "append"

ProgressInv == QueueInOrder /\ OnlyAppendersQueue /\ (host = "append" => IndexIsKept)
-----------------------------------------------------------------------------
\* Without a failure in hand a release neither halts the gate nor leaves a
\* forfeited index behind (OrderedWriteGate.release).
LEMMA ReleaseNeedsCause ==
  ASSUME TypeOK, NEW b \in Batches, NEW failed \in BOOLEAN, Release(b, failed)
  PROVE  gateHalted' \/ (\E c \in Batches : releasedAhead'[c] = "failed") =>
           failed \/ gateHalted \/ \E c \in Batches : releasedAhead[c] = "failed"
<1>1. CASE b = nextIndex
  <2>1. PICK k \in (b + 1) .. N :
          /\ gateHalted' = (gateHalted \/ failed \/ \E j \in Batches :
                             b < j /\ j < k /\ releasedAhead[j] = "failed")
          /\ releasedAhead' = [j \in Batches |->
               IF b < j /\ j < k THEN "no" ELSE releasedAhead[j]]
    BY <1>1, Zenon DEF Release
  <2> QED
    BY <2>1
<1>2. CASE b # nextIndex
  BY <1>2 DEF Release, TypeOK
<1> QED
  BY <1>1, <1>2

\* Batch b moves on towards its write; it is the next one if it was pending and
\* the run is sequential.
Moves(b, x) ==
    /\ st[b] \in {"pending", "taken", "setup", "prepare", "turn", "check"}
    /\ x \in {"taken", "setup", "prepare", "turn", "check", "write"}
    /\ st' = [st EXCEPT ![b] = x]
    /\ UNCHANGED <<host, mode, outcome, gateHalted, releasedAhead, store, main, halted,
                   results, skipped, verdict>>
    /\ mode = "sequential" /\ st[b] = "pending" =>
         main.pc = "collect" /\ \A c \in Batches : c < b => results[c] + skipped[c] > 0

\* Batch b gets its result: a failure, a refusal of the halted gate, or a
\* success whose write landed; only a failure adds a cause to halt.
Ends(b, x, how) ==
    /\ st[b] \in {"setup", "prepare", "turn", "check", "write", "teardown"}
    /\ x \in {"teardown", "finished"} /\ how \in {"success", "failure", "refused"}
    /\ st[b] = "teardown" => how = outcome[b] \/ how = "failure"
    /\ st' = [st EXCEPT ![b] = x]
    /\ outcome' = [outcome EXCEPT ![b] = how]
    /\ UNCHANGED <<host, mode, main, halted, results, skipped, verdict>>
    /\ UNCHANGED store \/ (how = "success" /\ store' = Append(store, b))
    /\ host = "append" /\ how = "success" /\ st[b] # "teardown" => store' = Append(store, b)
    /\ how = "refused" => gateHalted \/ st[b] = "teardown"
    /\ gateHalted' \/ (\E c \in Batches : releasedAhead'[c] = "failed") =>
         how = "failure" \/ gateHalted \/ \E c \in Batches : releasedAhead[c] = "failed"

LEMMA MovingKeepsAccount ==
  ASSUME TypeOK, AccountInv, NEW b \in Batches, NEW x, Moves(b, x)
  PROVE  AccountInv'
<1> USE DEF AccountInv, Moves
<1>s. /\ \A c \in Batches : c # b => st'[c] = st[c]
      /\ st'[b] = x
  BY DEF TypeOK
<1>1. CountFollowsState'
  BY <1>s DEF CountFollowsState, TypeOK
<1>2. OutcomeIsKnown'
  <2>1. st[b] \notin {"teardown", "finished"} /\ x \notin {"teardown", "finished"}
    OBVIOUS
  <2>2. outcome' = outcome
    OBVIOUS
  <2> QED
    BY <1>s, <2>1, <2>2 DEF OutcomeIsKnown
<1>3. HaltHasCause'
  BY DEF HaltHasCause
<1>4. CancelledOnce'
  BY <1>s DEF CancelledOnce
<1>c. \A c \in Batches : results[c] + skipped[c] > 0 => results[c] + skipped[c] = 1
  <2> SUFFICES ASSUME NEW c \in Batches PROVE results[c] + skipped[c] \in {0, 1}
    OBVIOUS
  <2> QED
    BY DEF CountFollowsState
<1>5. SequentialInOrder'
  <2> SUFFICES ASSUME mode = "sequential" PROVE SequentialInOrder'
    BY DEF SequentialInOrder
  <2>1. ASSUME NEW d \in Batches, NEW c \in Batches, c < d,
               st'[d] \notin {"pending", "cancelled"}
        PROVE  results[c] + skipped[c] = 1
    <3>1. CASE d = b /\ st[b] = "pending"
      BY <2>1, <3>1, <1>c
    <3>2. CASE d = b /\ st[b] # "pending"
      BY <2>1, <3>2 DEF SequentialInOrder
    <3>3. CASE d # b
      BY <1>s, <2>1, <3>3 DEF SequentialInOrder
    <3> QED
      BY <3>1, <3>2, <3>3
  <2> QED
    BY <2>1 DEF SequentialInOrder
<1>6. HookHasBatch'
  <2> SUFFICES ASSUME main.pc \in {"hook", "locked", "unlocked"}
               PROVE  HookHasBatch'
    BY DEF HookHasBatch
  <2>1. main.batch # b
    BY DEF HookHasBatch
  <2>2. mode = "sequential" => ~ main.batch < b
    BY DEF HookHasBatch, SequentialInOrder
  <2> QED
    BY <1>s, <2>1, <2>2 DEF HookHasBatch
<1>7. StoredAreOver' /\ SuccessIsStored'
  BY DEF StoredAreOver, SuccessIsStored
<1>8. EndIsTotal'
  BY <1>s DEF EndIsTotal
<1> QED
  BY <1>1, <1>2, <1>3, <1>4, <1>5, <1>6, <1>7, <1>8

LEMMA EndingKeepsAccount ==
  ASSUME TypeOK, AccountInv, NEW b \in Batches, NEW x, NEW how, Ends(b, x, how)
  PROVE  AccountInv'
<1> USE DEF AccountInv, Ends
<1>s. /\ \A c \in Batches : c # b => st'[c] = st[c] /\ outcome'[c] = outcome[c]
      /\ st'[b] = x /\ outcome'[b] = how
  BY DEF TypeOK
<1>o. /\ st[b] = "teardown" => outcome[b] # "none"
      /\ st[b] # "teardown" => outcome[b] = "none"
      /\ outcome[b] = "failure" => how = "failure"
  BY DEF OutcomeIsKnown
<1>1. CountFollowsState'
  BY <1>s DEF CountFollowsState, TypeOK
<1>2. OutcomeIsKnown'
  BY <1>s DEF OutcomeIsKnown
<1>3. HaltHasCause'
  <2>1. (\E c \in Batches : outcome[c] = "failure") =>
          \E c \in Batches : outcome'[c] = "failure"
    BY <1>s, <1>o
  <2>2. how = "failure" => \E c \in Batches : outcome'[c] = "failure"
    BY <1>s
  <2>3. (\E c \in Batches : outcome'[c] = "refused") =>
           gateHalted \/ \E c \in Batches : outcome[c] = "refused"
    BY <1>s, <1>o
  <2> QED
    BY <2>1, <2>2, <2>3 DEF HaltHasCause
<1>4. CancelledOnce'
  BY <1>s DEF CancelledOnce
<1>5. SequentialInOrder'
  BY <1>s DEF SequentialInOrder
<1>6. HookHasBatch'
  <2>1. ASSUME main.pc \in {"hook", "locked", "unlocked"} PROVE main.batch # b
    BY <2>1 DEF HookHasBatch, TypeOK
  <2> QED
    BY <1>s, <2>1 DEF HookHasBatch
<1>p. store \in Seq(Batches)
  BY DEF TypeOK
<1>7. StoredAreOver'
  <2>1. CASE UNCHANGED store
    <3>1. \A i \in 1 .. Len(store) : store[i] \in Batches
      BY <1>p
    <3> QED
      BY <1>s, <1>o, <2>1, <3>1 DEF StoredAreOver
  <2>2. CASE how = "success" /\ store' = Append(store, b)
    <3>1. ASSUME NEW i \in 1 .. Len(store') PROVE outcome'[store'[i]] \in {"success", "failure"}
      <4>1. CASE i = Len(store) + 1
        BY <1>p, <1>s, <2>2, <4>1
      <4>2. CASE i # Len(store) + 1
        <5>1. i \in 1 .. Len(store) /\ store'[i] = store[i] /\ store[i] \in Batches
          BY <1>p, <2>2, <3>1, <4>2
        <5> QED
          BY <1>s, <2>2, <5>1 DEF StoredAreOver
      <4> QED
        BY <4>1, <4>2
    <3> QED
      BY <3>1 DEF StoredAreOver
  <2> QED
    BY <2>1, <2>2
<1>8. SuccessIsStored'
  <2> SUFFICES ASSUME host = "append", NEW c \in Batches, outcome'[c] = "success"
               PROVE  \E i \in 1 .. Len(store') : store'[i] = c
    BY DEF SuccessIsStored
  <2>1. CASE store' = Append(store, b) /\ c = b
    <3>1. Len(store) + 1 \in 1 .. Len(store') /\ store'[Len(store) + 1] = b
      BY <1>p, <2>1
    <3> QED
      BY <2>1, <3>1
  <2>2. CASE c # b \/ UNCHANGED store
    <3>1. outcome[c] = "success"
      BY <1>s, <1>o, <1>p, <2>2
    <3>2. PICK i \in 1 .. Len(store) : store[i] = c
      BY <3>1 DEF SuccessIsStored
    <3>3. i \in 1 .. Len(store') /\ store'[i] = c
      BY <1>p, <3>2
    <3> QED
      BY <3>3
  <2> QED
    BY <2>1, <2>2
<1>9. EndIsTotal'
  BY <1>s DEF EndIsTotal
<1> QED
  BY <1>1, <1>2, <1>3, <1>4, <1>5, <1>6, <1>7, <1>8, <1>9

\* A refused batch is handled: it was not attempted, and whatever has not been
\* stopped yet is stopped (PipelineRunner.run_state, _mark_not_attempted).
LEMMA RefusedIsCounted ==
  ASSUME TypeOK, AccountInv, NEW b \in Batches, CollectRefused(b)
  PROVE  AccountInv'
<1> USE DEF AccountInv
<1>t. /\ main \in MainType /\ b \in Nat
      /\ results \in [Batches -> Nat] /\ skipped \in [Batches -> Nat]
  BY BatchesAreNaturals DEF TypeOK, MainType
<1>b. /\ main.pc = "collect" /\ st[b] = "finished" /\ outcome[b] = "refused"
      /\ results[b] = 0 /\ skipped[b] = 0
      /\ GoOn(b, TRUE) /\ skipped' = SkipCounts(b)
      /\ UNCHANGED <<host, mode, outcome, gate, store, latch, results, verdict>>
  <2>1. /\ main.pc = "collect" /\ st[b] = "finished" /\ outcome[b] = "refused"
        /\ results[b] + skipped[b] = 0
        /\ GoOn(b, TRUE) /\ skipped' = SkipCounts(b)
        /\ UNCHANGED <<host, mode, outcome, gate, store, latch, results, verdict>>
    BY DEF CollectRefused, Uncollected
  <2>2. results[b] = 0 /\ skipped[b] = 0
    BY <1>t, <2>1 DEF CountFollowsState
  <2> QED
    BY <2>1, <2>2
<1>q. mode = "sequential" =>
        /\ ~halted
        /\ \A c \in Batches : b < c => st[c] = "pending" /\ results[c] = 0 /\ skipped[c] = 0
        /\ \A c \in Batches : c < b => results[c] + skipped[c] = 1
  BY <1>t, <1>b DEF SequentialInOrder, CancelledOnce, CountFollowsState
<1>m. /\ halted' = TRUE
      /\ main'.pc \in {"collect", "cancel"} /\ main' \in MainType
  <2>1. CASE halted
    BY <1>t, <1>b, <2>1 DEF GoOn, MainType
  <2>2. CASE ~halted /\ mode = "parallel"
    BY <1>b, <2>2, SizesAreNatural DEF GoOn, MainType
  <2>3. CASE ~halted /\ mode # "parallel"
    BY <1>t, <1>b, <2>3 DEF GoOn, MainType
  <2>4. halted \in BOOLEAN
    BY DEF TypeOK
  <2> QED
    BY <2>1, <2>2, <2>3, <2>4
<1>s. /\ mode # "sequential" => UNCHANGED st /\ skipped' = [skipped EXCEPT ![b] = 1]
      /\ mode = "sequential" =>
           /\ st' = [c \in Batches |-> IF b < c THEN "cancelled" ELSE st[c]]
           /\ skipped' = [c \in Batches |-> IF c = b \/ b < c THEN 1 ELSE skipped[c]]
           /\ main'.pc = "collect"
  <2>1. mode # "sequential" => UNCHANGED st
    BY <1>b DEF GoOn, TypeOK
  <2>2. ASSUME mode # "sequential" PROVE skipped' = [skipped EXCEPT ![b] = 1]
    <3>1. skipped' = [c \in Batches |-> IF c = b THEN skipped[c] + 1 ELSE skipped[c]]
      BY <1>b, <2>2 DEF SkipCounts
    <3>2. skipped[b] + 1 = 1
      BY <1>b
    <3> QED
      BY <1>t, <3>1, <3>2
  <2>3. ASSUME mode = "sequential"
        PROVE  /\ st' = [c \in Batches |-> IF b < c THEN "cancelled" ELSE st[c]]
               /\ main'.pc = "collect"
    BY <1>b, <1>q, <1>t, <2>3 DEF GoOn, Remaining, MainType
  <2>4. mode = "sequential" =>
          skipped' = [c \in Batches |-> IF c = b \/ b < c THEN 1 ELSE skipped[c]]
    BY <1>b, <1>q, <1>t DEF SkipCounts, Remaining
  <2> QED
    BY <2>1, <2>2, <2>3, <2>4
<1>1. CountFollowsState'
  BY <1>t, <1>b, <1>q, <1>s DEF CountFollowsState
<1>2. OutcomeIsKnown'
  BY <1>b, <1>q, <1>s DEF OutcomeIsKnown
<1>3. HaltHasCause'
  BY <1>b DEF HaltHasCause, gate
<1>4. CancelledOnce'
  <2>1. CASE halted
    BY <1>b, <1>m, <1>s, <1>q, <2>1 DEF GoOn, CancelledOnce, TypeOK
  <2>2. CASE ~halted
    BY <1>b, <1>m, <1>s, <2>2 DEF GoOn, CancelledOnce, TypeOK
  <2> QED
    BY <2>1, <2>2
<1>5. SequentialInOrder'
  BY <1>t, <1>b, <1>q, <1>s DEF SequentialInOrder
<1>6. HookHasBatch'
  BY <1>m DEF HookHasBatch
<1>7. StoredAreOver' /\ SuccessIsStored'
  BY <1>b DEF StoredAreOver, SuccessIsStored
<1>8. EndIsTotal'
  BY <1>b, <1>m DEF EndIsTotal
<1> QED
  BY <1>1, <1>2, <1>3, <1>4, <1>5, <1>6, <1>7, <1>8

\* A result is handed on and its hook begins (PipelineRunner.run_state).
LEMMA ResultIsCounted ==
  ASSUME TypeOK, AccountInv, NEW b \in Batches, Collect(b)
  PROVE  AccountInv'
<1> USE DEF AccountInv
<1>t. /\ main \in MainType /\ b \in Nat
      /\ results \in [Batches -> Nat] /\ skipped \in [Batches -> Nat]
  BY BatchesAreNaturals DEF TypeOK, MainType
<1>b. /\ main.pc = "collect" /\ st[b] = "finished" /\ outcome[b] # "refused"
      /\ results[b] = 0 /\ skipped[b] = 0
      /\ results' = [results EXCEPT ![b] = 1]
      /\ main'.pc = "hook" /\ main'.batch = b
      /\ UNCHANGED <<host, mode, st, outcome, gate, store, latch, halted, skipped, verdict>>
  <2>1. /\ main.pc = "collect" /\ st[b] = "finished" /\ outcome[b] # "refused"
        /\ results[b] + skipped[b] = 0
        /\ results' = [results EXCEPT ![b] = results[b] + 1]
        /\ main'.pc = "hook" /\ main'.batch = b
        /\ UNCHANGED <<host, mode, st, outcome, gate, store, latch, halted, skipped, verdict>>
    BY <1>t DEF Collect, Uncollected, MainType
  <2>2. results[b] = 0 /\ skipped[b] = 0
    BY <1>t, <2>1 DEF CountFollowsState
  <2>3. results[b] + 1 = 1
    BY <2>2
  <2> QED
    BY <2>1, <2>2, <2>3
<1>1. CountFollowsState'
  BY <1>t, <1>b DEF CountFollowsState
<1>2. OutcomeIsKnown'
  BY <1>b DEF OutcomeIsKnown
<1>3. HaltHasCause'
  BY <1>b DEF HaltHasCause, gate
<1>4. CancelledOnce'
  BY <1>b DEF CancelledOnce
<1>5. SequentialInOrder'
  BY <1>t, <1>b DEF SequentialInOrder
<1>6. HookHasBatch'
  BY <1>t, <1>b DEF HookHasBatch, SequentialInOrder, CancelledOnce
<1>7. StoredAreOver' /\ SuccessIsStored'
  BY <1>b DEF StoredAreOver, SuccessIsStored
<1>8. EndIsTotal'
  BY <1>b DEF EndIsTotal
<1> QED
  BY <1>1, <1>2, <1>3, <1>4, <1>5, <1>6, <1>7, <1>8

\* The hook is done: after the first failure of an appending host the rest of
\* the run is stopped (PipelineRunner.run_state).
LEMMA HookReturnKeepsAccount ==
  ASSUME TypeOK, AccountInv, HookReturns
  PROVE  AccountInv'
<1> USE DEF AccountInv
<1> DEFINE b == main.batch
           stop == outcome[b] = "failure" /\ host = "append"
           stops == stop /\ ~halted
<1>t. /\ main \in MainType
      /\ results \in [Batches -> Nat] /\ skipped \in [Batches -> Nat]
  BY DEF TypeOK, MainType
<1>b. /\ main.pc \in {"hook", "unlocked"}
      /\ GoOn(b, stop)
      /\ UNCHANGED <<host, mode, outcome, gate, store, latch, results, verdict>>
      /\ skipped' = IF stop /\ ~halted /\ mode = "sequential"
                    THEN [c \in Batches |->
                            skipped[c] + IF c \in Remaining(b) THEN 1 ELSE 0]
                    ELSE skipped
  BY DEF HookReturns
<1>h. /\ b \in Batches /\ b \in Nat /\ st[b] = "finished" /\ results[b] = 1
      /\ mode = "sequential" =>
           /\ \A c \in Batches : b < c => /\ st[c] = "pending"
                                          /\ results[c] = 0 /\ skipped[c] = 0
           /\ \A c \in Batches : c < b => results[c] + skipped[c] = 1
  BY <1>b, BatchesAreNaturals DEF HookHasBatch, CountFollowsState, SequentialInOrder
<1> HIDE DEF b
<1>1. CASE ~stops
  <2>1. /\ UNCHANGED <<st, halted, skipped>>
        /\ main'.pc = "collect"
    BY <1>1, <1>b, <1>t DEF GoOn, MainType
  <2> QED
    BY <1>b, <2>1 DEF gate, CountFollowsState, OutcomeIsKnown, HaltHasCause, CancelledOnce,
       SequentialInOrder, HookHasBatch, StoredAreOver, SuccessIsStored, EndIsTotal
<1>2. CASE stops /\ mode # "sequential"
  <2>1. UNCHANGED <<st, skipped>> /\ halted' = TRUE /\ main'.pc = "cancel"
    BY <1>2, <1>b DEF GoOn, TypeOK
  <2>2. mode = "parallel" /\ outcome[b] = "failure" /\ ~halted
    BY <1>2 DEF TypeOK
  <2>3. HaltHasCause'
    BY <1>b, <1>h, <2>2 DEF HaltHasCause
  <2>4. CancelledOnce'
    BY <1>b, <2>1, <2>2 DEF CancelledOnce
  <2> QED
    BY <1>b, <2>1, <2>2, <2>3, <2>4 DEF CountFollowsState, OutcomeIsKnown,
       SequentialInOrder, HookHasBatch, StoredAreOver, SuccessIsStored, EndIsTotal
<1>3. CASE stops /\ mode = "sequential"
  <2>1. /\ st' = [c \in Batches |-> IF b < c THEN "cancelled" ELSE st[c]]
        /\ halted' = TRUE /\ main'.pc = "collect"
    BY <1>3, <1>b, <1>t DEF GoOn, Remaining, MainType
  <2>2. skipped' = [c \in Batches |-> IF b < c THEN 1 ELSE skipped[c]]
    BY <1>3, <1>b, <1>h, <1>t DEF Remaining
  <2>3. outcome[b] = "failure" /\ ~halted
    BY <1>3
  <2>4. CountFollowsState'
    BY <1>b, <1>h, <1>t, <2>1, <2>2 DEF CountFollowsState
  <2>5. OutcomeIsKnown'
    BY <1>3, <1>b, <1>h, <2>1 DEF OutcomeIsKnown
  <2>6. HaltHasCause'
    BY <1>b, <1>h, <2>3 DEF HaltHasCause
  <2>7. CancelledOnce'
    BY <2>1 DEF CancelledOnce
  <2>8. SequentialInOrder'
    <3>1. skipped[b] = 0
      BY <1>h, <1>t DEF CountFollowsState
    <3>2. \A c \in Batches : results'[c] + skipped'[c] = 1
      BY <1>3, <1>b, <1>h, <1>t, <2>2, <3>1, BatchesAreNaturals
    <3> QED
      BY <3>2 DEF SequentialInOrder
  <2>9. HookHasBatch' /\ StoredAreOver' /\ SuccessIsStored' /\ EndIsTotal'
    BY <1>b, <2>1 DEF HookHasBatch, StoredAreOver, SuccessIsStored, EndIsTotal
  <2> QED
    BY <2>4, <2>5, <2>6, <2>7, <2>8, <2>9
<1> QED
  BY <1>1, <1>2, <1>3

\* One future after the other is cancelled, if it can be (_stop_remaining).
LEMMA CancelKeepsAccount ==
  ASSUME TypeOK, AccountInv, CancelNext \/ CancelDone
  PROVE  AccountInv'
<1> USE DEF AccountInv
<1>t. /\ main \in MainType
      /\ results \in [Batches -> Nat] /\ skipped \in [Batches -> Nat]
  BY DEF TypeOK, MainType
<1>1. CASE CancelDone
  <2>1. /\ main'.pc = "collect"
        /\ UNCHANGED <<host, mode, st, outcome, gate, store, latch, halted, results,
                       skipped, verdict>>
        /\ main.pc = "cancel"
    BY <1>1, <1>t DEF CancelDone, MainType
  <2> QED
    BY <2>1 DEF gate, CountFollowsState, OutcomeIsKnown, HaltHasCause, CancelledOnce,
       SequentialInOrder, HookHasBatch, StoredAreOver, SuccessIsStored, EndIsTotal
<1>2. CASE CancelNext
  <2> DEFINE p == main.pos
  <2>1. /\ p \in Batches /\ p \in Nat
        /\ main'.pc = "cancel" /\ main.pc = "cancel" /\ main'.pos = p + 1
        /\ UNCHANGED <<host, mode, outcome, gate, store, latch, halted, results, verdict>>
    BY <1>2, <1>t, SizesAreNatural DEF CancelNext, MainType, Batches
  <2>2. mode = "parallel" /\ halted
    BY <2>1 DEF CancelledOnce
  <2>e. verdict = "none"
    BY <2>1 DEF EndIsTotal
  <2>3. CASE Cancellable(p)
    <3>1. st' = [st EXCEPT ![p] = "cancelled"] /\ skipped' = [skipped EXCEPT ![p] = @ + 1]
      BY <1>2, <2>3 DEF CancelNext
    <3>2. st[p] \in {"pending", "taken"}
      BY <2>1, <2>3, BatchesAreNaturals DEF Cancellable, CancelledOnce
    <3>3. results[p] = 0 /\ skipped[p] = 0 /\ outcome[p] = "none"
      BY <2>1, <3>2 DEF CountFollowsState, OutcomeIsKnown
    <3>4. CountFollowsState'
      BY <1>t, <2>1, <3>1, <3>3 DEF CountFollowsState, TypeOK
    <3>5. OutcomeIsKnown'
      BY <2>1, <3>1, <3>3 DEF OutcomeIsKnown, TypeOK
    <3>6. HaltHasCause'
      BY <2>1 DEF HaltHasCause, gate
    <3>7. CancelledOnce'
      BY <2>1, <2>2, <3>1, BatchesAreNaturals DEF CancelledOnce, TypeOK
    <3>8. SequentialInOrder' /\ HookHasBatch' /\ StoredAreOver' /\ SuccessIsStored'
          /\ EndIsTotal'
      BY <2>1, <2>2, <2>e DEF SequentialInOrder, HookHasBatch, StoredAreOver,
         SuccessIsStored, EndIsTotal
    <3> QED
      BY <3>4, <3>5, <3>6, <3>7, <3>8
  <2>4. CASE ~Cancellable(p)
    <3>1. UNCHANGED <<st, skipped>>
      BY <1>2, <2>4 DEF CancelNext
    <3>2. CancelledOnce'
      BY <2>1, <2>2, <3>1, BatchesAreNaturals DEF CancelledOnce
    <3> QED
      BY <2>1, <2>2, <2>e, <3>1, <3>2 DEF gate, CountFollowsState, OutcomeIsKnown,
         HaltHasCause, SequentialInOrder, HookHasBatch, StoredAreOver, SuccessIsStored,
         EndIsTotal
  <2> QED
    BY <2>3, <2>4
<1> QED
  BY <1>1, <1>2

\* A hook takes or gives back write_lock, a claim is lost, or nothing happens.
LEMMA RestKeepsAccount ==
  ASSUME TypeOK, AccountInv, HookLocks \/ HookUnlocks \/ LoseClaim \/ UNCHANGED vars
  PROVE  AccountInv'
<1>1. UNCHANGED <<host, mode, st, outcome, gateHalted, releasedAhead, store, halted, results,
                  skipped, verdict>>
  BY DEF HookLocks, HookUnlocks, SetHolder, LoseClaim, vars, gate
<1>2. \/ UNCHANGED main
      \/ /\ main.pc \in {"hook", "locked"} /\ main'.pc \in {"locked", "unlocked"}
         /\ main'.batch = main.batch
  BY DEF HookLocks, HookUnlocks, LoseClaim, vars, TypeOK
<1> QED
  BY <1>1, <1>2 DEF AccountInv, CountFollowsState, OutcomeIsKnown, HaltHasCause,
     CancelledOnce, SequentialInOrder, HookHasBatch, StoredAreOver, SuccessIsStored, EndIsTotal

\* The run is finalized once every future is done and handled (finalize).
LEMMA FinalizeKeepsAccount ==
  ASSUME TypeOK, AccountInv, Finalize
  PROVE  AccountInv'
<1> USE DEF AccountInv
<1>1. /\ main'.pc = "ended" /\ main.pc = "collect"
      /\ \A b \in Batches : st[b] \in {"finished", "cancelled"} /\ ~Uncollected(b)
      /\ verdict' = "complete" => ~ \E b \in Batches : results[b] > 0 /\ outcome[b] = "failure"
      /\ UNCHANGED <<host, mode, st, outcome, gate, store, latch, halted, results, skipped>>
  BY DEF Finalize, TypeOK
<1>2. EndIsTotal'
  BY <1>1 DEF EndIsTotal, Uncollected, CountFollowsState, TypeOK
<1> QED
  BY <1>1, <1>2 DEF gate, CountFollowsState, OutcomeIsKnown, HaltHasCause, CancelledOnce,
     SequentialInOrder, HookHasBatch, StoredAreOver, SuccessIsStored

\* Every step of the workers and the main thread keeps the accounting.
LEMMA AccountStep == TypeOK /\ AccountInv /\ [Next]_vars => AccountInv'
<1> SUFFICES ASSUME TypeOK, AccountInv, [Next]_vars PROVE AccountInv'
  OBVIOUS
<1>1. ASSUME NEW b \in Batches,
             \/ Dequeue(b) \/ StartBatch(b) \/ RunNextInLine(b) \/ SetUp(b)
             \/ Prepare(b) \/ EnterTurn(b) \/ StartWrite(b)
      PROVE  AccountInv'
  <2>1. PICK x \in {"taken", "setup", "prepare", "turn", "check", "write"} :
          st' = [st EXCEPT ![b] = x]
    BY <1>1 DEF Dequeue, StartBatch, RunNextInLine, SetUp, Prepare, EnterTurn, StartWrite
  <2>2. UNCHANGED <<host, mode, outcome, gateHalted, releasedAhead, store, main, halted,
                    results, skipped, verdict>>
    BY <1>1 DEF Dequeue, StartBatch, RunNextInLine, SetUp, Prepare, EnterTurn, StartWrite,
       SetHolder, gate
  <2>3. st[b] \in {"pending", "taken", "setup", "prepare", "turn", "check"}
    BY <1>1 DEF Dequeue, StartBatch, RunNextInLine, SetUp, Prepare, EnterTurn, StartWrite
  <2>4. mode = "sequential" /\ st[b] = "pending" =>
          main.pc = "collect" /\ \A c \in Batches : c < b => results[c] + skipped[c] > 0
    BY <1>1 DEF Dequeue, StartBatch, RunNextInLine, SetUp, Prepare, EnterTurn, StartWrite
  <2>5. Moves(b, x)
    BY <2>1, <2>2, <2>3, <2>4 DEF Moves
  <2> QED
    BY <2>5, MovingKeepsAccount
<1>2. ASSUME NEW b \in Batches,
             SetUpFails(b) \/ PrepareFails(b) \/ ClaimGone(b) \/ WriteFails(b)
      PROVE  AccountInv'
  <2>1. PICK x \in {"teardown", "finished"} : st' = [st EXCEPT ![b] = x]
    BY <1>2 DEF SetUpFails, PrepareFails, ClaimGone, WriteFails, Finish, ToTeardown
  <2>2. /\ outcome' = [outcome EXCEPT ![b] = "failure"]
        /\ st[b] \in {"setup", "prepare", "check", "write"}
        /\ UNCHANGED <<host, mode, store, main, halted, results, skipped, verdict>>
    BY <1>2 DEF SetUpFails, PrepareFails, ClaimGone, WriteFails, Finish, ToTeardown
  <2>3. Ends(b, x, "failure")
    BY <2>1, <2>2 DEF Ends
  <2> QED
    BY <2>3, EndingKeepsAccount
<1>3. ASSUME NEW b \in Batches, NothingToWrite(b) PROVE AccountInv'
  <2>1. /\ st' = [st EXCEPT ![b] = "teardown"]
        /\ outcome' = [outcome EXCEPT ![b] = "success"]
        /\ st[b] = "prepare" /\ host = "direct"
        /\ UNCHANGED <<host, mode, gateHalted, releasedAhead, store, main, halted, results,
                       skipped, verdict>>
    BY <1>3 DEF NothingToWrite, ToTeardown, gate
  <2>2. Ends(b, "teardown", "success")
    BY <2>1 DEF Ends
  <2> QED
    BY <2>2, EndingKeepsAccount
<1>4. ASSUME NEW b \in Batches, TurnRefused(b) PROVE AccountInv'
  <2>1. /\ st' = [st EXCEPT ![b] = "teardown"]
        /\ outcome' = [outcome EXCEPT ![b] = "refused"]
        /\ st[b] = "turn" /\ gateHalted
        /\ UNCHANGED <<host, mode, store, main, halted, results, skipped, verdict>>
    BY <1>4 DEF TurnRefused, ToTeardown
  <2>2. Ends(b, "teardown", "refused")
    BY <2>1 DEF Ends
  <2> QED
    BY <2>2, EndingKeepsAccount
<1>5. ASSUME NEW b \in Batches, Written(b) PROVE AccountInv'
  <2>1. /\ st' = [st EXCEPT ![b] = "teardown"]
        /\ outcome' = [outcome EXCEPT ![b] = "success"]
        /\ st[b] = "write" /\ store' = Append(store, b)
        /\ UNCHANGED <<host, mode, main, halted, results, skipped, verdict>>
    BY <1>5 DEF Written, ToTeardown
  <2>2. gateHalted' \/ (\E c \in Batches : releasedAhead'[c] = "failed") =>
          gateHalted \/ \E c \in Batches : releasedAhead[c] = "failed"
    <3>1. CASE host = "append"
      BY <1>5, <3>1, ReleaseNeedsCause DEF Written
    <3>2. CASE host # "append"
      BY <1>5, <3>2 DEF Written, gate
    <3> QED
      BY <3>1, <3>2
  <2>3. Ends(b, "teardown", "success")
    BY <2>1, <2>2 DEF Ends
  <2> QED
    BY <2>3, EndingKeepsAccount
<1>6. ASSUME NEW b \in Batches, TearDown(b) PROVE AccountInv'
  <2>1. PICK how \in {outcome[b], "failure"} : Finish(b, how)
    BY <1>6 DEF TearDown
  <2>2. st[b] = "teardown" /\ how \in {"success", "failure", "refused"}
    BY <1>6 DEF TearDown, AccountInv, OutcomeIsKnown, TypeOK
  <2>3. /\ st' = [st EXCEPT ![b] = "finished"]
        /\ outcome' = [outcome EXCEPT ![b] = how]
        /\ UNCHANGED <<host, mode, gateHalted, releasedAhead, store, main, halted, results,
                       skipped, verdict>>
    BY <1>6, <2>1 DEF TearDown, Finish, gate
  <2>4. Ends(b, "finished", how)
    BY <2>2, <2>3 DEF Ends
  <2> QED
    BY <2>4, EndingKeepsAccount
<1>7. ASSUME NEW b \in Batches, Worker(b) PROVE AccountInv'
  BY <1>1, <1>2, <1>3, <1>4, <1>5, <1>6, <1>7, Zenon DEF Worker
<1>8. CASE Main
  BY <1>8, RefusedIsCounted, ResultIsCounted, HookReturnKeepsAccount, CancelKeepsAccount,
     FinalizeKeepsAccount DEF Main
<1>9. CASE HookLocks \/ HookUnlocks \/ LoseClaim \/ Ended \/ UNCHANGED vars
  BY <1>9, RestKeepsAccount DEF Ended
<1> QED
  BY <1>7, <1>8, <1>9 DEF Next

\* Nothing is counted, stored or stopped before the run starts.
LEMMA AccountInit == Init => AccountInv
<1> SUFFICES ASSUME Init PROVE AccountInv
  OBVIOUS
<1>1. CountFollowsState /\ OutcomeIsKnown /\ CancelledOnce /\ HookHasBatch /\ EndIsTotal
  BY DEF Init, CountFollowsState, OutcomeIsKnown, CancelledOnce, HookHasBatch, EndIsTotal
<1>2. HaltHasCause /\ SequentialInOrder
  BY DEF Init, FreshGate, HaltHasCause, SequentialInOrder
<1>3. StoredAreOver /\ SuccessIsStored
  BY DEF Init, StoredAreOver, SuccessIsStored
<1> QED
  BY <1>1, <1>2, <1>3 DEF AccountInv

LEMMA AccountHolds == Spec => []AccountInv
<1>1. TypeOK /\ AccountInv /\ [Next]_vars => AccountInv'
  BY AccountStep
<1> QED
  BY AccountInit, <1>1, TypeCorrect, PTL DEF Spec

\* Every batch is counted at most once and at the end exactly once, and what is
\* counted as not attempted has not been written, however workers, hooks and
\* the cancellation interleave.
THEOREM Accounted == Spec => []BatchesAreAccountedFor
<1>1. TypeOK /\ AccountInv => BatchesAreAccountedFor
  <2> SUFFICES ASSUME TypeOK, AccountInv PROVE BatchesAreAccountedFor
    OBVIOUS
  <2> USE DEF AccountInv
  <2>1. \A b \in Batches : results[b] + skipped[b] <= 1
    BY DEF CountFollowsState
  <2>2. main.pc = "ended" => \A b \in Batches : results[b] + skipped[b] = 1
    BY DEF EndIsTotal
  <2>3. ASSUME NEW b \in Batches, skipped[b] > 0, NEW i \in 1 .. Len(store), store[i] = b
        PROVE  FALSE
    <3>1. outcome[b] \in {"success", "failure"}
      BY <2>3 DEF StoredAreOver
    <3>2. st[b] \in {"teardown", "finished"}
      BY <3>1 DEF OutcomeIsKnown
    <3> QED
      BY <2>3, <3>1, <3>2 DEF CountFollowsState
  <2> QED
    BY <2>1, <2>2, <2>3 DEF BatchesAreAccountedFor
<1> QED
  BY <1>1, AccountHolds, TypeCorrect, PTL

\* A run whose output is completed attempted every batch, and all succeeded: a
\* halt has a failed batch behind it, whose result finalize has seen; and an
\* appending run's store, a prefix of its batches, then holds them all.
THEOREM CompleteIsAll == Spec => []CompleteIsWhole
<1>1. TypeOK /\ AccountInv /\ AppendsAreAPrefix => CompleteIsWhole
  <2> SUFFICES ASSUME TypeOK, AccountInv, AppendsAreAPrefix, verdict = "complete"
               PROVE  /\ \A b \in Batches : skipped[b] = 0 /\ outcome[b] = "success"
                      /\ host = "append" => Len(store) = N
    BY DEF CompleteIsWhole
  <2> USE DEF AccountInv
  <2>1. \A b \in Batches : /\ st[b] \in {"finished", "cancelled"}
                           /\ results[b] + skipped[b] = 1
                           /\ results[b] = 0 \/ outcome[b] # "failure"
    BY DEF EndIsTotal
  <2>2. \A b \in Batches : outcome[b] # "failure"
    <3> SUFFICES ASSUME NEW b \in Batches, outcome[b] = "failure" PROVE FALSE
      OBVIOUS
    <3>1. st[b] = "finished"
      BY <2>1 DEF OutcomeIsKnown
    <3> QED
      BY <2>1, <3>1 DEF CountFollowsState
  <2>3. ~halted /\ \A b \in Batches : outcome[b] # "refused"
    BY <2>2 DEF HaltHasCause
  <2>4. ASSUME NEW b \in Batches PROVE skipped[b] = 0 /\ outcome[b] = "success"
    <3>1. st[b] = "finished"
      BY <2>1, <2>3 DEF CancelledOnce
    <3>2. outcome[b] = "success"
      BY <2>2, <2>3, <3>1 DEF OutcomeIsKnown, TypeOK
    <3> QED
      BY <2>1, <3>1, <3>2 DEF CountFollowsState
  <2>5. ASSUME host = "append" PROVE Len(store) = N
    <3>1. store \in Seq(Batches) /\ Len(store) \in Nat /\ N \in Nat
      BY SizesAreNatural DEF TypeOK
    <3>2. \A i \in 1 .. Len(store) : store[i] = i - 1 /\ store[i] \in Batches
      BY <2>5, <3>1 DEF AppendsAreAPrefix
    <3>3. Len(store) <= N
      <4>1. CASE Len(store) = 0
        BY <3>1, <4>1
      <4>2. CASE Len(store) # 0
        <5>1. Len(store) - 1 \in Batches
          BY <3>1, <3>2, <4>2
        <5> QED
          BY <3>1, <5>1 DEF Batches
      <4> QED
        BY <4>1, <4>2
    <3>4. N <= Len(store)
      <4>1. CASE N = 0
        BY <3>1, <4>1
      <4>2. CASE N # 0
        <5>1. N - 1 \in Batches
          BY <3>1, <4>2 DEF Batches
        <5>2. PICK i \in 1 .. Len(store) : store[i] = N - 1
          BY <2>4, <2>5, <5>1 DEF SuccessIsStored
        <5> QED
          BY <3>1, <3>2, <5>2
      <4> QED
        BY <4>1, <4>2
    <3> QED
      BY <3>1, <3>3, <3>4
  <2> QED
    BY <2>4, <2>5
<1> QED
  BY <1>1, AccountHolds, TypeCorrect, AppendsPrefix, PTL
-----------------------------------------------------------------------------
\* Releasing b's index takes the gate past indexes that were released, and no
\* further (OrderedWriteGate.release).
LEMMA ReleaseKeepsIndexes ==
  ASSUME TypeOK, NEW b \in Batches, NEW failed \in BOOLEAN, Release(b, failed),
         \A c \in Batches : c = nextIndex => releasedAhead[c] = "no"
  PROVE  /\ nextIndex <= nextIndex'
         /\ b < nextIndex' \/ releasedAhead'[b] # "no"
         /\ \A c \in Batches : c # b /\ c >= nextIndex /\ releasedAhead[c] = "no" =>
              c >= nextIndex' /\ releasedAhead'[c] = "no"
         /\ \A c \in Batches : c >= nextIndex' /\ releasedAhead'[c] = "no" /\ c # b =>
              c >= nextIndex /\ releasedAhead[c] = "no"
         /\ \A c \in Batches : c = nextIndex' => releasedAhead'[c] = "no"
<1>1. CASE b = nextIndex
  <2>1. PICK k \in (b + 1) .. N :
          /\ DrainsTo(b + 1, k)
          /\ nextIndex' = k
          /\ releasedAhead' = [j \in Batches |->
               IF b < j /\ j < k THEN "no" ELSE releasedAhead[j]]
    BY <1>1, Zenon DEF Release
  <2>2. /\ b \in Nat /\ k \in Nat /\ b < k
        /\ \A c \in Batches : c \in Nat
    BY <2>1, BatchesAreNaturals
  <2>3. \A c \in Batches : c > b /\ c < k => releasedAhead[c] # "no"
    BY <2>1, <2>2 DEF DrainsTo
  <2>4. \A c \in Batches : c = k => releasedAhead[c] = "no"
    BY <2>1 DEF DrainsTo
  <2> QED
    BY <1>1, <2>1, <2>2, <2>3, <2>4
<1>2. CASE b # nextIndex
  <2>1. /\ b > nextIndex /\ nextIndex' = nextIndex
        /\ releasedAhead' = [releasedAhead EXCEPT ![b] = IF failed THEN "failed" ELSE "ok"]
    BY <1>2 DEF Release
  <2> QED
    BY <2>1, BatchesAreNaturals DEF TypeOK
<1> QED
  BY <1>1, <1>2

\* A step that leaves the gate's indexes alone and neither reopens a batch nor
\* lets one reach its teardown without a release.
LEMMA IdleKeepsProgress ==
  ASSUME TypeOK, ProgressInv, UNCHANGED <<host, nextIndex, releasedAhead>>,
         \A c \in Batches :
           /\ st'[c] \in {"teardown"} /\ host = "append" => st[c] = "teardown"
           /\ st'[c] \notin {"teardown", "finished", "cancelled"} =>
                st[c] \notin {"teardown", "finished", "cancelled"}
           /\ st'[c] = "pending" => st[c] = "pending"
           /\ st'[c] = "turn" => st[c] = "turn" \/ host = "append"
           /\ st'[c] \notin {"pending", "cancelled"} /\ st[c] \in {"pending", "cancelled"} =>
                \A d \in Batches : d < c => st[d] # "pending"
  PROVE  ProgressInv'
<1>1. QueueInOrder'
  BY DEF ProgressInv, QueueInOrder
<1>2. host = "append" => IndexIsKept'
  BY DEF ProgressInv, IndexIsKept
<1>3. OnlyAppendersQueue'
  BY DEF ProgressInv, OnlyAppendersQueue
<1> QED
  BY <1>1, <1>2, <1>3 DEF ProgressInv

\* A batch that fails, is refused or has written gives up its index.
LEMMA ReleaseKeepsProgress ==
  ASSUME TypeOK, ProgressInv, NEW b \in Batches, NEW failed \in BOOLEAN,
         Release(b, failed), host' = host,
         st[b] \in {"prepare", "turn", "check", "write"},
         st' = [st EXCEPT ![b] = "teardown"]
  PROVE  ProgressInv'
<1>s. /\ \A c \in Batches : c # b => st'[c] = st[c]
      /\ st'[b] = "teardown"
  BY DEF TypeOK
<1>1. QueueInOrder'
  BY <1>s DEF ProgressInv, QueueInOrder
<1>2. ASSUME host = "append" PROVE IndexIsKept'
  <2> USE <1>2 DEF ProgressInv
  <2>1. /\ nextIndex <= nextIndex'
        /\ b < nextIndex' \/ releasedAhead'[b] # "no"
        /\ \A c \in Batches : c # b /\ c >= nextIndex /\ releasedAhead[c] = "no" =>
             c >= nextIndex' /\ releasedAhead'[c] = "no"
        /\ \A c \in Batches : c >= nextIndex' /\ releasedAhead'[c] = "no" /\ c # b =>
             c >= nextIndex /\ releasedAhead[c] = "no"
        /\ \A c \in Batches : c = nextIndex' => releasedAhead'[c] = "no"
    BY ReleaseKeepsIndexes DEF IndexIsKept
  <2>2. nextIndex \in Nat /\ nextIndex' \in Nat
    <3>1. GateType
      BY DEF TypeOK, GateType
    <3> QED
      BY <3>1, ReleaseType, SizesAreNatural DEF GateType
  <2>3. ASSUME NEW c \in Batches, c # b, st[c] = "teardown"
        PROVE  c < nextIndex' \/ releasedAhead'[c] # "no"
    BY <2>1, <2>2, <2>3, BatchesAreNaturals DEF IndexIsKept
  <2> QED
    BY <1>s, <2>1, <2>3 DEF IndexIsKept
<1>3. OnlyAppendersQueue'
  BY <1>s DEF ProgressInv, OnlyAppendersQueue
<1> QED
  BY <1>1, <1>2, <1>3 DEF ProgressInv

\* Every step keeps the queue in order and the indexes with their batches.
LEMMA ProgressStep == TypeOK /\ AccountInv /\ ProgressInv /\ [Next]_vars => ProgressInv'
<1> SUFFICES ASSUME TypeOK, AccountInv, ProgressInv, [Next]_vars PROVE ProgressInv'
  OBVIOUS
<1>1. ASSUME NEW b \in Batches,
             Dequeue(b) \/ StartBatch(b) \/ RunNextInLine(b) \/ SetUp(b) \/ SetUpFails(b)
               \/ Prepare(b) \/ NothingToWrite(b) \/ EnterTurn(b) \/ StartWrite(b) \/ TearDown(b)
      PROVE  ProgressInv'
  <2>1. UNCHANGED <<host, nextIndex, releasedAhead>>
    BY <1>1 DEF Dequeue, StartBatch, RunNextInLine, SetUp, SetUpFails, Prepare,
       NothingToWrite, EnterTurn, StartWrite, TearDown, SetHolder, gate
  <2>2. PICK x : st' = [st EXCEPT ![b] = x] /\ x \notin {"pending", "cancelled"}
    BY <1>1 DEF Dequeue, StartBatch, RunNextInLine, SetUp, SetUpFails, Prepare,
       NothingToWrite, EnterTurn, StartWrite, TearDown, Finish, ToTeardown
  <2>3. /\ \A c \in Batches : c # b => st'[c] = st[c]
        /\ st'[b] = x
    BY <2>2 DEF TypeOK
  <2>4. /\ x = "teardown" => host # "append"
        /\ x = "turn" => host = "append"
        /\ x \notin {"teardown", "finished", "cancelled"} =>
             st[b] \notin {"teardown", "finished", "cancelled"}
    BY <1>1, <2>3 DEF Dequeue, StartBatch, RunNextInLine, SetUp, SetUpFails, Prepare,
       NothingToWrite, EnterTurn, StartWrite, TearDown, Finish, ToTeardown, TypeOK
  <2>5. ASSUME st[b] \in {"pending", "cancelled"}, NEW d \in Batches, d < b
        PROVE  st[d] # "pending"
    <3>1. CASE Dequeue(b)
      BY <2>5, <3>1 DEF Dequeue
    <3>2. CASE RunNextInLine(b)
      <4>1. results[d] + skipped[d] > 0
        BY <2>5, <3>2 DEF RunNextInLine
      <4> QED
        BY <4>1 DEF AccountInv, CountFollowsState
    <3> QED
      BY <1>1, <2>5, <3>1, <3>2 DEF StartBatch, SetUp, SetUpFails, Prepare,
         NothingToWrite, EnterTurn, StartWrite, TearDown
  <2> QED
    BY <2>1, <2>2, <2>3, <2>4, <2>5, IdleKeepsProgress
<1>2. ASSUME NEW b \in Batches,
             PrepareFails(b) \/ TurnRefused(b) \/ ClaimGone(b) \/ Written(b) \/ WriteFails(b)
      PROVE  ProgressInv'
  <2>1. /\ host' = host /\ st' = [st EXCEPT ![b] = "teardown"]
        /\ st[b] \in {"prepare", "turn", "check", "write"}
    BY <1>2 DEF PrepareFails, TurnRefused, ClaimGone, Written, WriteFails, ToTeardown
  <2>2. CASE \E failed \in BOOLEAN : Release(b, failed)
    BY <2>1, <2>2, ReleaseKeepsProgress
  <2>3. CASE host # "append" /\ UNCHANGED gate
    <3>1. UNCHANGED <<nextIndex, releasedAhead>>
      BY <2>3 DEF gate
    <3> QED
      BY <2>1, <2>3, <3>1 DEF ProgressInv, QueueInOrder, OnlyAppendersQueue, TypeOK
  <2> QED
    BY <1>2, <2>2, <2>3 DEF PrepareFails, TurnRefused, ClaimGone, Written, WriteFails
<1>3. ASSUME UNCHANGED <<host, gate>>,
             \A c \in Batches : st'[c] = st[c] \/ st'[c] = "cancelled"
      PROVE  ProgressInv'
  <2>1. UNCHANGED <<host, nextIndex, releasedAhead>>
    BY <1>3 DEF gate
  <2> QED
    BY <1>3, <2>1, IdleKeepsProgress
<1>4. CASE Main \/ LoseClaim \/ UNCHANGED vars
  <2>1. UNCHANGED <<host, gate>>
    BY <1>4 DEF Main, CollectRefused, Collect, HookReturns, CancelNext, CancelDone, Finalize,
       LoseClaim, vars
  <2>2. ASSUME NEW b, NEW stop, GoOn(b, stop)
        PROVE  \A c \in Batches : st'[c] = st[c] \/ st'[c] = "cancelled"
    BY <2>2 DEF GoOn, TypeOK
  <2>3. \A c \in Batches : st'[c] = st[c] \/ st'[c] = "cancelled"
    <3>1. CASE \E b \in Batches : CollectRefused(b)
      BY <2>2, <3>1 DEF CollectRefused
    <3>2. CASE HookReturns
      BY <2>2, <3>2 DEF HookReturns
    <3>3. CASE CancelNext
      BY <3>3 DEF CancelNext, TypeOK
    <3> QED
      BY <1>4, <3>1, <3>2, <3>3 DEF Main, Collect, CancelDone, Finalize, LoseClaim, vars
  <2> QED
    BY <1>3, <2>1, <2>3
<1>5. CASE HookLocks \/ HookUnlocks
  <2>1. UNCHANGED <<host, st, nextIndex, releasedAhead>>
    BY <1>5 DEF HookLocks, HookUnlocks, SetHolder
  <2> QED
    BY <2>1, IdleKeepsProgress
<1> QED
  BY <1>1, <1>2, <1>4, <1>5 DEF Next, Worker, Ended

LEMMA ProgressHolds == Spec => []ProgressInv
<1>1. Init => ProgressInv
  BY BatchesAreNaturals DEF Init, FreshGate, ProgressInv, QueueInOrder, OnlyAppendersQueue,
     IndexIsKept
<1>2. TypeOK /\ AccountInv /\ ProgressInv /\ [Next]_vars => ProgressInv'
  BY ProgressStep
<1> QED
  BY <1>1, <1>2, AccountHolds, TypeCorrect, PTL DEF Spec

\* A batch that waits for its turn waits for an index whose batch is with a
\* worker and will release it, unless an index leaked: the pool takes batches
\* in order, and only a batch that is over can have kept its index.
THEOREM NextTurnIsComing == Spec => []LowestIndexIsRunning
<1>1. TypeOK /\ IInv /\ ProgressInv => LowestIndexIsRunning
  <2> SUFFICES ASSUME TypeOK, ProgressInv, ~Stranded, NEW c \in Batches, st[c] = "turn",
                      host = "append"
               PROVE  \E b \in Batches : b = nextIndex /\ st[b] \in InPool \ {"teardown"}
    BY DEF LowestIndexIsRunning, ProgressInv, OnlyAppendersQueue
  <2>1. c >= nextIndex
    BY DEF ProgressInv, IndexIsKept
  <2>2. nextIndex \in Batches
    BY <2>1, SizesAreNatural DEF TypeOK, Batches
  <2>3. CASE nextIndex = c
    BY <2>2, <2>3 DEF InPool
  <2>4. CASE nextIndex # c
    <3>1. nextIndex < c
      BY <2>1, <2>2, <2>4, BatchesAreNaturals
    <3>2. st[nextIndex] # "pending"
      BY <2>2, <3>1 DEF ProgressInv, QueueInOrder
    <3>3. releasedAhead[nextIndex] = "no" /\ nextIndex >= nextIndex
      BY <2>2, BatchesAreNaturals DEF ProgressInv, IndexIsKept
    <3>4. ~Leaked(nextIndex)
      BY <2>2, <3>1 DEF Stranded, Started, InPool
    <3>5. st[nextIndex] \notin {"finished", "cancelled"}
      BY <3>3, <3>4 DEF Leaked
    <3>6. st[nextIndex] # "teardown"
      BY <2>2, <3>3, BatchesAreNaturals DEF ProgressInv, IndexIsKept
    <3> QED
      BY <2>2, <3>2, <3>5, <3>6 DEF TypeOK
  <2> QED
    BY <2>3, <2>4
<1> QED
  BY <1>1, Inductive, TypeCorrect, ProgressHolds, PTL
====
