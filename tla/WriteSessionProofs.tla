------------------------- MODULE WriteSessionProofs -------------------------
(***************************************************************************)
(* For any number of batches, strays and units: what is promoted and       *)
(* recorded complete is whole, and nothing of a batch arrives after close. *)
(* The argument is a count and a gate.  The session counts who is inside,  *)
(* and once it turned away from admitting, a count of zero is final.       *)
(***************************************************************************)
EXTENDS WriteSession, FiniteSetTheorems, TLAPS

InsideNow == {t \in Threads : pc[t] \in Inside}

\* The session's count is the batches inside, and the promotion's own request.
CountIsExact ==
    inFlight = Cardinality(InsideNow) + (IF mpc = "units" THEN 1 ELSE 0)

\* A cell is touched before it is written, and written before it is recorded.
CellsAreOrderly ==
    /\ \A t \in Threads :
        /\ pc[t] = "wrote" => t \in landed
        /\ Staged /\ pc[t] \in {"writing", "wrote"} => t \in touched
    /\ written \subseteq landed
    /\ Staged => landed \subseteq touched

\* The session admits no batch any more, and none is inside: for good.
Quiet ==
    /\ state \in {"publishing", "terminal"}
    /\ \A t \in Threads : pc[t] \notin Inside

\* The places of the main thread behind the drain, and behind the coverage.
Covering == {"covering", "holding", "asking", "units", "putting", "publishing",
             "confirming", "recording"}
Covered == Covering \ {"covering"}

\* A staged run drains behind the gate, and is quiet from then on.
DrainIsFinal ==
    Staged =>
      /\ mpc = "draining" => state \in {"publishing", "terminal"}
      /\ mpc \in Covering \/ puts # {} => Quiet

\* What is promoted was covered when it was looked at, and still is.
CoverageStands ==
    Staged =>
      /\ mpc \in Covered \/ puts # {} => FullyWritten
      /\ puts \subseteq TouchedUnits

\* Once all is put, published and recorded, it is all that was touched.
PromotionIsTotal ==
    Staged =>
      /\ mpc \in {"publishing", "confirming", "recording"} => TouchedUnits \subseteq puts
      /\ mpc \in {"confirming", "recording"} => docs

VerdictIsEarned ==
    verdict = "complete" =>
      /\ mpc \in {"closing", "over"}
      /\ Staged => Quiet /\ FullyWritten /\ TouchedUnits \subseteq puts /\ docs

\* Whoever closes shuts the gate first; close lets go of its callers once the
\* authorities are gone, and a caller it returns to found nothing in flight.
CloseIsOrderly ==
    /\ \A c \in Closers :
        /\ cpc[c] # "idle" => state = "terminal"
        /\ cpc[c] \in {"returned", "raised"} => closed
        /\ cpc[c] = "returned" => inFlight = 0
    /\ closed => state = "terminal" /\ ~seeding /\ publishing # "held"
    /\ closed /\ ~drainFailed => inFlight = 0
    /\ workspace = "deleted" => cpc["run"] = "returned"

SInv ==
    /\ TypeOK
    /\ CountIsExact
    /\ CellsAreOrderly
    /\ DrainIsFinal
    /\ CoverageStands
    /\ PromotionIsTotal
    /\ VerdictIsEarned
    /\ CloseIsOrderly
-----------------------------------------------------------------------------
\* The batches inside are finitely many, and none are if there are none.
LEMMA InsideIsFinite ==
  ASSUME SessionAssumption
  PROVE  /\ IsFiniteSet(InsideNow) /\ Cardinality(InsideNow) \in Nat
         /\ Cardinality(InsideNow) = 0 <=> \A t \in Threads : pc[t] \notin Inside
<1>1. IsFiniteSet(InsideNow)
  <2>1. InsideNow \subseteq Threads
    BY DEF InsideNow
  <2> QED
    BY <2>1, FS_Subset DEF SessionAssumption
<1>2. Cardinality(InsideNow) \in Nat /\ (Cardinality(InsideNow) = 0 <=> InsideNow = {})
  BY <1>1, FS_CardinalityType, FS_EmptySet
<1> QED
  BY <1>1, <1>2 DEF InsideNow

\* A batch that steps in, out, or stays changes the number of those inside so.
LEMMA InsideCount ==
  ASSUME SessionAssumption, TypeOK, NEW t \in Threads, NEW x, Goto(t, x)
  PROVE  /\ x \in Inside /\ pc[t] \notin Inside =>
              Cardinality(InsideNow') = Cardinality(InsideNow) + 1
         /\ x \notin Inside /\ pc[t] \in Inside =>
              /\ Cardinality(InsideNow') = Cardinality(InsideNow) - 1
              /\ Cardinality(InsideNow) >= 1
         /\ (x \in Inside <=> pc[t] \in Inside) => InsideNow' = InsideNow
<1>1. pc' = [pc EXCEPT ![t] = x] /\ pc \in [Threads -> Inside \cup {"idle", "seed", "ready", "done", "refused"}]
  BY DEF Goto, TypeOK
<1>2. IsFiniteSet(InsideNow) /\ Cardinality(InsideNow) \in Nat
  BY InsideIsFinite
<1>3. ASSUME x \in Inside, pc[t] \notin Inside
      PROVE  Cardinality(InsideNow') = Cardinality(InsideNow) + 1
  <2>1. InsideNow' = InsideNow \cup {t} /\ t \notin InsideNow
    BY <1>1, <1>3 DEF InsideNow
  <2> QED
    BY <1>2, <2>1, FS_AddElement
<1>4. ASSUME x \notin Inside, pc[t] \in Inside
      PROVE  /\ Cardinality(InsideNow') = Cardinality(InsideNow) - 1
             /\ Cardinality(InsideNow) >= 1
  <2>1. InsideNow' = InsideNow \ {t} /\ t \in InsideNow
    BY <1>1, <1>4 DEF InsideNow
  <2>2. Cardinality(InsideNow') = Cardinality(InsideNow) - 1
    BY <1>2, <2>1, FS_RemoveElement
  <2>3. Cardinality(InsideNow) # 0
    BY <1>2, <2>1, FS_EmptySet
  <2> QED
    BY <1>2, <2>2, <2>3
<1>5. ASSUME x \in Inside <=> pc[t] \in Inside PROVE InsideNow' = InsideNow
  BY <1>1, <1>5 DEF InsideNow
<1> QED
  BY <1>3, <1>4, <1>5

\* What the steps of a batch do to the count and to the types.
LEMMA BatchCounts ==
  ASSUME SessionAssumption, SInv, NEW t \in Threads, Batch(t)
  PROVE  TypeOK' /\ CountIsExact'
<1> USE DEF SInv
<1>1. mpc' = mpc /\ inFlight \in Nat /\ Cardinality(InsideNow) \in Nat
  BY InsideIsFinite DEF TypeOK, Batch, AskSeeding, Seed, AdmitWrite, AdmitRefused, RecordTouched, Write,
     RecordWritten, Leave, run
<1>2. CASE AdmitWrite(t)
  <2>1. inFlight' = inFlight + 1 /\ Goto(t, "admitted") /\ pc[t] = "ready"
    BY <1>2 DEF AdmitWrite
  <2>2. Cardinality(InsideNow') = Cardinality(InsideNow) + 1
    BY <2>1, InsideCount DEF Inside
  <2>3. CountIsExact'
    BY <1>1, <2>1, <2>2 DEF CountIsExact
  <2> QED
    BY <1>1, <1>2, <2>1, <2>3 DEF TypeOK, AdmitWrite, Goto, Inside, ledger, store, run, target
<1>3. CASE Leave(t)
  <2>1. inFlight' = inFlight - 1 /\ Goto(t, "done") /\ pc[t] = "leaving"
    BY <1>3 DEF Leave
  <2>2. /\ Cardinality(InsideNow') = Cardinality(InsideNow) - 1
        /\ Cardinality(InsideNow) >= 1
    BY <2>1, InsideCount DEF Inside
  <2>3. CountIsExact' /\ inFlight' \in Nat
    BY <1>1, <2>1, <2>2 DEF CountIsExact
  <2> QED
    BY <1>1, <1>3, <2>1, <2>3 DEF TypeOK, Leave, Goto, Inside, ledger, store, run, target
<1>4. CASE AskSeeding(t) \/ Seed(t) \/ AdmitRefused(t)
  <2>1. PICK x \in {"seed", "ready", "refused"} : Goto(t, x)
    BY <1>4 DEF AskSeeding, Seed, AdmitRefused
  <2>2. pc[t] \in {"idle", "seed", "ready"} /\ inFlight' = inFlight
    BY <1>4 DEF AskSeeding, Seed, AdmitRefused, session
  <2>3. InsideNow' = InsideNow
    BY <2>1, <2>2, InsideCount DEF Inside
  <2>4. CountIsExact'
    BY <1>1, <2>2, <2>3 DEF CountIsExact
  <2> QED
    BY <1>4, <2>1, <2>4 DEF TypeOK, AskSeeding, Seed, AdmitRefused, Goto, Inside, session, ledger,
       store, run, target
<1>5. CASE RecordTouched(t) \/ Write(t) \/ RecordWritten(t)
  <2>1. PICK x \in Inside : Goto(t, x)
    BY <1>5 DEF RecordTouched, Write, RecordWritten, Inside
  <2>2. pc[t] \in Inside /\ inFlight' = inFlight
    BY <1>5 DEF RecordTouched, Write, RecordWritten, session, Inside
  <2>3. InsideNow' = InsideNow
    BY <2>1, <2>2, InsideCount
  <2>4. CountIsExact'
    BY <1>1, <2>2, <2>3 DEF CountIsExact
  <2>5. touched' \subseteq Threads /\ written' \subseteq Threads /\ landed' \subseteq Threads
    BY <1>5 DEF TypeOK, RecordTouched, Write, RecordWritten, ledger, store
  <2> QED
    BY <1>5, <2>1, <2>4, <2>5 DEF TypeOK, RecordTouched, Write, RecordWritten, Goto, session, ledger,
       store, run, target
<1> QED
  BY <1>2, <1>3, <1>4, <1>5 DEF Batch

\* The steps of the main thread and of the callers of close do as much.
LEMMA MainCounts ==
  ASSUME SessionAssumption, SInv,
         Main \/ (\E c \in Closers : CloseStarts(c) \/ Close(c)) \/ LoseClaim \/ UNCHANGED vars
  PROVE  TypeOK' /\ CountIsExact'
<1> USE DEF SInv
<1>1. inFlight \in Nat /\ Cardinality(InsideNow) \in Nat
  BY InsideIsFinite DEF TypeOK
<1>2. UNCHANGED pc
  BY DEF Main, JoinPool, VerifyPromotion, Drained, Cover, HoldAuthority, AskUnits, GetUnits,
     PutUnit, PutsDone, PublishMetadata, ConfirmClaims, RegisterRun, TearDown, Close,
     CloseStarts, CloseDrains, CloseJoins, LoseClaim, vars
<1>3. InsideNow' = InsideNow
  BY <1>2 DEF InsideNow
<1>4. CASE AskUnits \/ GetUnits
  <2>1. CountIsExact' /\ inFlight' \in Nat
    BY <1>1, <1>3, <1>4 DEF CountIsExact, AskUnits, GetUnits, MGoto, Fail
  <2> QED
    BY <1>4, <2>1 DEF TypeOK, AskUnits, GetUnits, MGoto, Fail, ledger, store, target
<1>5. CASE JoinPool \/ VerifyPromotion \/ Drained \/ Cover \/ HoldAuthority
  <2>1. UNCHANGED inFlight /\ mpc # "units" /\ mpc' # "units"
    BY <1>5 DEF JoinPool, VerifyPromotion, Drained, Cover, HoldAuthority, session, MGoto, Fail
  <2>2. CountIsExact'
    BY <1>3, <2>1 DEF CountIsExact
  <2>3. CASE JoinPool \/ Cover
    <3>1. /\ mpc' \in {"finished", "closing", "holding"}
          /\ verdict' \in {"none", "failed", "complete"}
      BY <2>3 DEF TypeOK, JoinPool, Cover, MGoto, Fail
    <3>2. UNCHANGED <<writeMode, session, ledger, latch, pc, store, target, cpc>>
      BY <2>3 DEF JoinPool, Cover
    <3> QED
      BY <2>2, <3>1, <3>2 DEF TypeOK, session, ledger, store, target
  <2>4. CASE VerifyPromotion
    <3>1. state' \in {"prepared", "writing", "publishing", "terminal"}
      BY <2>4 DEF TypeOK, VerifyPromotion
    <3>2. /\ mpc' \in {"closing", "draining", "confirming"}
          /\ verdict' \in {"none", "failed", "complete"}
      BY <2>4 DEF TypeOK, VerifyPromotion, MGoto, Fail
    <3>3. UNCHANGED <<writeMode, inFlight, closed, drainFailed, seeding, publishing, ledger,
                      latch, pc, store, target, cpc>>
      BY <2>4 DEF VerifyPromotion
    <3> QED
      BY <2>2, <3>1, <3>2, <3>3 DEF TypeOK, ledger, store, target
  <2>5. CASE Drained
    <3>1. /\ mpc' \in {"covering", "closing"} /\ verdict' \in {"none", "failed", "complete"}
          /\ seeding' \in BOOLEAN /\ drainFailed' \in BOOLEAN
      BY <2>5 DEF TypeOK, Drained, MGoto, Fail
    <3>2. UNCHANGED <<writeMode, state, inFlight, closed, publishing, ledger, latch, pc, store,
                      target, cpc>>
      BY <2>5 DEF Drained
    <3> QED
      BY <2>2, <3>1, <3>2 DEF TypeOK, ledger, store, target
  <2>6. CASE HoldAuthority
    <3>1. /\ publishing' \in {"none", "held", "revoked"}
          /\ mpc' \in {"closing", "asking"}
          /\ verdict' \in {"none", "failed", "complete"}
      BY <2>6 DEF TypeOK, HoldAuthority, MGoto, Fail
    <3> QED
      BY <2>2, <2>6, <3>1 DEF TypeOK, HoldAuthority, ledger, store, target
  <2> QED
    BY <1>5, <2>3, <2>4, <2>5, <2>6
<1>6. CASE (\E u \in Units : PutUnit(u)) \/ PutsDone \/ PublishMetadata
  <2>1. UNCHANGED inFlight /\ mpc # "units" /\ mpc' # "units"
    BY <1>6 DEF PutUnit, PutsDone, PublishMetadata, session, MGoto, Fail
  <2>2. puts' \subseteq Units
    BY <1>6 DEF TypeOK, PutUnit, PutsDone, PublishMetadata, TouchedUnits, target
  <2> QED
    BY <1>3, <1>6, <2>1, <2>2 DEF CountIsExact, TypeOK, PutUnit, PutsDone, PublishMetadata,
       MGoto, Fail, session, ledger, store, target
<1>7. CASE ConfirmClaims \/ RegisterRun \/ TearDown \/ LoseClaim \/ UNCHANGED vars
  <2>1. UNCHANGED inFlight /\ (mpc' = mpc \/ (mpc # "units" /\ mpc' # "units"))
    BY <1>7 DEF ConfirmClaims, RegisterRun, TearDown, LoseClaim, vars, session, run, MGoto
  <2>2. CountIsExact'
    BY <1>3, <2>1 DEF CountIsExact
  <2>3. CASE ConfirmClaims \/ RegisterRun
    <3>1. /\ mpc' \in {"recording", "closing"}
          /\ verdict' \in {"none", "failed", "complete"}
          /\ latch' \in BOOLEAN
      BY <2>3 DEF TypeOK, ConfirmClaims, RegisterRun, MGoto
    <3>2. UNCHANGED <<writeMode, session, ledger, pc, store, target, cpc>>
      BY <2>3 DEF ConfirmClaims, RegisterRun
    <3> QED
      BY <2>2, <3>1, <3>2 DEF TypeOK, session, ledger, store, target
  <2>4. CASE TearDown
    BY <2>2, <2>4 DEF TypeOK, TearDown, MGoto, session, ledger, target
  <2>5. CASE LoseClaim \/ UNCHANGED vars
    <3>1. /\ latch' \in BOOLEAN
          /\ UNCHANGED <<writeMode, session, ledger, pc, store, run, target, cpc>>
      BY <2>5 DEF TypeOK, LoseClaim, vars, session, ledger, store, run, target
    <3> QED
      BY <2>2, <3>1 DEF TypeOK, session, ledger, store, run, target
  <2> QED
    BY <1>7, <2>3, <2>4, <2>5
<1>8. ASSUME NEW c \in Closers, CloseStarts(c) \/ Close(c)
      PROVE  TypeOK' /\ CountIsExact'
  <2>1. UNCHANGED <<inFlight, mpc>>
    BY <1>8 DEF CloseStarts, Close, CloseDrains, CloseJoins, session, run
  <2>2. CountIsExact'
    BY <1>3, <2>1 DEF CountIsExact
  <2>3. PICK x \in {"draining", "waiting", "returned", "raised"} :
          cpc' = [cpc EXCEPT ![c] = x]
    BY <1>8 DEF CloseStarts, Close, CloseDrains, CloseJoins
  <2>4. cpc' \in [Closers -> {"idle", "draining", "waiting", "returned", "raised"}]
    BY <2>3 DEF TypeOK
  <2>5. CASE CloseStarts(c) \/ CloseJoins(c)
    BY <2>2, <2>4, <2>5 DEF TypeOK, CloseStarts, CloseJoins, session, ledger, store, run, target
  <2>6. CASE CloseDrains(c)
    <3>1. drainFailed' \in BOOLEAN /\ closed' \in BOOLEAN /\ seeding' \in BOOLEAN
      <4>1. drainFailed' = (inFlight > 0) /\ closed' = TRUE /\ seeding' = FALSE
        BY <2>6, Zenon DEF CloseDrains
      <4>2. (inFlight > 0) \in BOOLEAN
        BY <1>1, SMT
      <4>3. drainFailed' \in BOOLEAN
        BY <4>1, <4>2, Zenon
      <4> QED
        BY <4>1, <4>3, Zenon
    <3>2. publishing' \in {"none", "held", "revoked"}
      BY <2>6 DEF CloseDrains, TypeOK
    <3> QED
      BY <2>2, <2>4, <2>6, <3>1, <3>2 DEF TypeOK, CloseDrains, ledger, store, run, target
  <2> QED
    BY <1>8, <2>5, <2>6 DEF Close
<1> QED
  BY <1>4, <1>5, <1>6, <1>7, <1>8 DEF Main

\* What a step may do to the gate: it shuts for good, and lets nobody in then.
LEMMA GateStaysShut ==
  ASSUME SInv, [Next]_vars, state \in {"publishing", "terminal"}
  PROVE  /\ state' \in {"publishing", "terminal"}
         /\ state = "terminal" => state' = "terminal"
         /\ \A t \in Threads : pc'[t] \in Inside => pc[t] \in Inside
<1> USE DEF SInv
<1>1. ASSUME NEW t \in Threads, Batch(t)
      PROVE  state' = state /\ \A u \in Threads : pc'[u] \in Inside => pc[u] \in Inside
  <2>1. ~AdmitWrite(t)
    BY DEF AdmitWrite, Admissible
  <2>2. state' = state
    BY <1>1, <2>1 DEF Batch, AskSeeding, Seed, AdmitRefused, RecordTouched, Write,
       RecordWritten, Leave, session
  <2>3. PICK x : Goto(t, x) /\ (x \in Inside => pc[t] \in Inside)
    BY <1>1, <2>1 DEF Batch, AskSeeding, Seed, AdmitRefused, RecordTouched, Write,
       RecordWritten, Leave, Inside
  <2> QED
    BY <2>2, <2>3 DEF Goto, TypeOK
<1>2. CASE Main \/ (\E c \in Closers : CloseStarts(c) \/ Close(c)) \/ LoseClaim \/ UNCHANGED vars
  <2>1. UNCHANGED pc
    BY <1>2 DEF Main, JoinPool, VerifyPromotion, Drained, Cover, HoldAuthority, AskUnits,
       GetUnits, PutUnit, PutsDone, PublishMetadata, ConfirmClaims, RegisterRun, TearDown,
       Close, CloseStarts, CloseDrains, CloseJoins, LoseClaim, vars
  <2>2. state' = state \/ state' = "terminal"
    BY <1>2 DEF Main, JoinPool, VerifyPromotion, Drained, Cover, HoldAuthority, AskUnits,
       GetUnits, PutUnit, PutsDone, PublishMetadata, ConfirmClaims, RegisterRun, TearDown,
       Close, CloseStarts, CloseDrains, CloseJoins, LoseClaim, vars, session
  <2> QED
    BY <2>1, <2>2
<1> QED
  BY <1>1, <1>2 DEF Next

\* No step but a batch's moves a batch, or touches a cell.
LEMMA MainLeavesCells ==
  ASSUME Main \/ (\E c \in Closers : CloseStarts(c) \/ Close(c)) \/ LoseClaim \/ UNCHANGED vars
  PROVE  UNCHANGED <<writeMode, pc, touched, written, landed>>
<1>1. CASE JoinPool \/ VerifyPromotion \/ Drained \/ Cover \/ HoldAuthority \/ AskUnits
             \/ GetUnits
  BY <1>1 DEF JoinPool, VerifyPromotion, Drained, Cover, HoldAuthority, AskUnits, GetUnits,
     store, ledger
<1>2. CASE (\E u \in Units : PutUnit(u)) \/ PutsDone \/ PublishMetadata \/ ConfirmClaims
             \/ RegisterRun \/ TearDown
  BY <1>2 DEF PutUnit, PutsDone, PublishMetadata, ConfirmClaims, RegisterRun, TearDown, store,
     ledger
<1>3. CASE (\E c \in Closers : CloseStarts(c) \/ Close(c)) \/ LoseClaim \/ UNCHANGED vars
  BY <1>3 DEF Close, CloseStarts, CloseDrains, CloseJoins, LoseClaim, vars, store, ledger
<1> QED
  BY <1>1, <1>2, <1>3 DEF Main

\* A quiet session stays so, and its cells are settled.
LEMMA QuietIsFinal ==
  ASSUME SInv, [Next]_vars, Quiet
  PROVE  /\ Quiet'
         /\ UNCHANGED <<touched, written, landed>>
<1> USE DEF SInv
<1>1. Quiet'
  BY GateStaysShut DEF Quiet
<1>2. ASSUME NEW t \in Threads, Batch(t) PROVE UNCHANGED <<touched, written, landed>>
  <2>1. ~RecordTouched(t) /\ ~Write(t) /\ ~RecordWritten(t)
    BY DEF Quiet, RecordTouched, Write, RecordWritten, Inside
  <2> QED
    BY <1>2, <2>1 DEF Batch, AskSeeding, Seed, AdmitWrite, AdmitRefused, Leave, ledger, store
<1>3. CASE Main \/ (\E c \in Closers : CloseStarts(c) \/ Close(c)) \/ LoseClaim \/ UNCHANGED vars
  BY <1>1, <1>3, MainLeavesCells
<1> QED
  BY <1>1, <1>2, <1>3 DEF Next

\* Cells go through touched, landed and written in this order.
LEMMA CellsStep ==
  ASSUME SInv, [Next]_vars
  PROVE  CellsAreOrderly'
<1> USE DEF SInv
<1>1. ASSUME NEW t \in Threads, AskSeeding(t) \/ Seed(t) \/ AdmitWrite(t) \/ AdmitRefused(t) \/ Leave(t)
      PROVE  CellsAreOrderly'
  <2>1. UNCHANGED <<writeMode, touched, written, landed>>
    BY <1>1 DEF AskSeeding, Seed, AdmitWrite, AdmitRefused, Leave, ledger, store
  <2>2. \A u \in Threads : pc'[u] \in {"writing", "wrote"} => pc'[u] = pc[u]
    BY <1>1 DEF AskSeeding, Seed, AdmitWrite, AdmitRefused, Leave, Goto, TypeOK
  <2> QED
    BY <2>1, <2>2 DEF CellsAreOrderly, Staged
<1>2. ASSUME NEW t \in Threads, RecordTouched(t) PROVE CellsAreOrderly'
  <2>1. /\ \A u \in Threads \ {t} : pc'[u] = pc[u]
        /\ \/ pc'[t] = "leaving" /\ touched' = touched
           \/ /\ pc'[t] = "writing"
              /\ touched' = IF Staged THEN touched \cup {t} ELSE touched
    BY <1>2 DEF RecordTouched, Goto, TypeOK
  <2>2. UNCHANGED <<writeMode, written, landed>>
    BY <1>2 DEF RecordTouched, store
  <2> QED
    BY <2>1, <2>2 DEF CellsAreOrderly, Staged
<1>3. ASSUME NEW t \in Threads, Write(t) PROVE CellsAreOrderly'
  <2>1. /\ pc[t] = "writing"
        /\ \A u \in Threads \ {t} : pc'[u] = pc[u]
        /\ \/ landed' = landed \cup {t} /\ pc'[t] = "wrote"
           \/ landed' = landed /\ pc'[t] = "leaving"
        /\ UNCHANGED <<writeMode, touched, written>>
    BY <1>3 DEF Write, Goto, TypeOK, ledger
  <2> QED
    BY <2>1 DEF CellsAreOrderly, Staged
<1>4. ASSUME NEW t \in Threads, RecordWritten(t) PROVE CellsAreOrderly'
  <2>1. /\ pc[t] = "wrote" /\ pc'[t] = "leaving"
        /\ \A u \in Threads \ {t} : pc'[u] = pc[u]
        /\ written' \subseteq written \cup {t}
        /\ UNCHANGED <<writeMode, touched, landed>>
    BY <1>4 DEF RecordWritten, Goto, TypeOK, store
  <2> QED
    BY <2>1 DEF CellsAreOrderly, Staged
<1>5. CASE Main \/ (\E c \in Closers : CloseStarts(c) \/ Close(c)) \/ LoseClaim \/ UNCHANGED vars
  <2>1. UNCHANGED <<writeMode, pc, touched, written, landed>>
    BY <1>5, MainLeavesCells
  <2> QED
    BY <2>1 DEF CellsAreOrderly, Staged
<1> QED
  BY <1>1, <1>2, <1>3, <1>4, <1>5 DEF Next, Batch

\* Steps of batches, callers of close and heartbeats leave what the main thread
\* has reached alone.
LEMMA OthersLeaveMain ==
  ASSUME (\E t \in Threads : Batch(t)) \/ (\E c \in Closers : CloseStarts(c) \/ Close(c))
           \/ LoseClaim \/ UNCHANGED vars
  PROVE  UNCHANGED <<writeMode, mpc, verdict, puts, docs>>
<1>1. CASE \E t \in Threads : Batch(t)
  BY <1>1 DEF Batch, AskSeeding, Seed, AdmitWrite, AdmitRefused, RecordTouched, Write,
     RecordWritten, Leave, run, target
<1>2. CASE (\E c \in Closers : CloseStarts(c) \/ Close(c)) \/ LoseClaim \/ UNCHANGED vars
  BY <1>2 DEF CloseStarts, Close, CloseDrains, CloseJoins, LoseClaim, vars, run, target
<1> QED
  BY <1>1, <1>2

\* The main thread drains behind the gate, covers what it drained, promotes
\* what it covered and records what it promoted.
LEMMA MainStep ==
  ASSUME SessionAssumption, SInv, [Next]_vars
  PROVE  DrainIsFinal' /\ CoverageStands' /\ PromotionIsTotal' /\ VerdictIsEarned'
<1> USE DEF SInv
<1>g. state \in {"publishing", "terminal"} => state' \in {"publishing", "terminal"}
  BY GateStaysShut
<1>q. Quiet => Quiet' /\ UNCHANGED <<touched, written, landed>>
  BY QuietIsFinal
<1>f. UNCHANGED <<touched, written>> =>
        (TouchedUnits' = TouchedUnits) /\ (FullyWritten' <=> FullyWritten)
  BY DEF TouchedUnits, FullyWritten
<1>n. inFlight = 0 => \A t \in Threads : pc[t] \notin Inside
  <2>1. Cardinality(InsideNow) \in Nat
    BY InsideIsFinite
  <2> QED
    BY <2>1, InsideIsFinite DEF CountIsExact
<1>w. writeMode' = writeMode
  BY DEF Next, Batch, AskSeeding, Seed, AdmitWrite, AdmitRefused, RecordTouched, Write,
     RecordWritten, Leave, Main, JoinPool, VerifyPromotion, Drained, Cover, HoldAuthority,
     AskUnits, GetUnits, PutUnit, PutsDone, PublishMetadata, ConfirmClaims, RegisterRun,
     TearDown, Close, CloseStarts, CloseDrains, CloseJoins, LoseClaim, vars
<1>s. Staged' <=> Staged
  BY <1>w DEF Staged
<1>t. /\ verdict \in {"none", "failed", "complete"}
      /\ mpc \notin {"closing", "over"} => verdict # "complete"
  BY DEF TypeOK, VerdictIsEarned
<1>u. ASSUME UNCHANGED <<mpc, verdict, puts, docs>>
      PROVE  DrainIsFinal' /\ CoverageStands' /\ PromotionIsTotal' /\ VerdictIsEarned'
  <2>1. CASE ~Staged
    BY <1>s, <1>u, <2>1 DEF DrainIsFinal, CoverageStands, PromotionIsTotal, VerdictIsEarned
  <2>2. CASE Staged /\ ~Quiet
    <3>1. mpc \notin Covering /\ puts = {} /\ verdict # "complete"
      BY <2>2 DEF DrainIsFinal, VerdictIsEarned
    <3> QED
      BY <1>g, <1>u, <2>2, <3>1
      DEF DrainIsFinal, CoverageStands, PromotionIsTotal, VerdictIsEarned, Covered, Covering
  <2>3. CASE Staged /\ Quiet
    BY <1>q, <1>f, <1>g, <1>u, <2>3
    DEF DrainIsFinal, CoverageStands, PromotionIsTotal, VerdictIsEarned
  <2> QED
    BY <2>1, <2>2, <2>3
\* A main step that fails the run, the target being as it was.
<1>x. ASSUME Fail, UNCHANGED <<puts, docs>>
      PROVE  DrainIsFinal' /\ CoverageStands' /\ PromotionIsTotal' /\ VerdictIsEarned'
  <2>1. mpc' = "closing" /\ verdict' = "failed"
    BY <1>x DEF Fail
  <2>2. CASE puts = {}
    BY <1>x, <2>1, <2>2
    DEF DrainIsFinal, CoverageStands, PromotionIsTotal, VerdictIsEarned, Covered, Covering
  <2>3. CASE puts # {}
    BY <1>q, <1>f, <1>s, <1>x, <2>1, <2>3
    DEF DrainIsFinal, CoverageStands, PromotionIsTotal, VerdictIsEarned, Covered, Covering
  <2> QED
    BY <2>2, <2>3
<1>1. CASE (\E t \in Threads : Batch(t)) \/ (\E c \in Closers : CloseStarts(c) \/ Close(c))
             \/ LoseClaim \/ UNCHANGED vars
  BY <1>1, <1>u, OthersLeaveMain
<1>2. CASE JoinPool \/ VerifyPromotion
  <2>1. UNCHANGED <<puts, docs, touched, written>> /\ mpc \in {"running", "finished"}
    BY <1>2 DEF JoinPool, VerifyPromotion, target, ledger
  <2>2. CASE Fail
    BY <1>x, <2>1, <2>2
  <2>3. CASE mpc' = "finished" /\ verdict' = verdict
    BY <1>q, <1>f, <1>s, <1>t, <2>1, <2>3
    DEF DrainIsFinal, CoverageStands, PromotionIsTotal, VerdictIsEarned, Covered, Covering
  <2>4. CASE /\ mpc' = (IF Staged THEN "draining" ELSE "confirming") /\ verdict' = verdict
             /\ state' = IF Staged THEN "publishing" ELSE state
    BY <1>q, <1>f, <1>s, <1>t, <2>1, <2>4
    DEF DrainIsFinal, CoverageStands, PromotionIsTotal, VerdictIsEarned, Covered, Covering
  <2> QED
    BY <1>2, <2>2, <2>3, <2>4 DEF JoinPool, VerifyPromotion, MGoto
<1>3. CASE Drained
  <2>1. UNCHANGED <<puts, docs, touched, written, state, pc>> /\ mpc = "draining"
    BY <1>3 DEF Drained, target, ledger
  <2>2. CASE Fail
    BY <1>x, <2>1, <2>2
  <2>3. CASE inFlight = 0 /\ mpc' = "covering" /\ verdict' = verdict
    <3>1. Staged => Quiet'
      BY <1>n, <2>1, <2>3 DEF DrainIsFinal, Quiet
    <3> QED
      BY <1>f, <1>s, <1>t, <2>1, <2>3, <3>1
      DEF DrainIsFinal, CoverageStands, PromotionIsTotal, VerdictIsEarned, Covered, Covering
  <2> QED
    BY <1>3, <2>2, <2>3 DEF Drained, MGoto
<1>4. CASE Cover \/ HoldAuthority \/ AskUnits \/ GetUnits
  <2>1. /\ UNCHANGED <<puts, docs, touched, written>>
        /\ mpc \in {"covering", "holding", "asking", "units"}
    BY <1>4 DEF Cover, HoldAuthority, AskUnits, GetUnits, target, ledger
  <2>2. CASE Fail
    BY <1>x, <2>1, <2>2
  <2>3. CASE /\ mpc' \in {"holding", "asking", "units", "putting"} /\ verdict' = verdict
             /\ FullyWritten \/ mpc # "covering"
    <3>1. Staged => FullyWritten
      BY <2>1, <2>3 DEF CoverageStands, Covered, Covering
    <3> QED
      BY <1>q, <1>f, <1>s, <1>t, <2>1, <2>3, <3>1
      DEF DrainIsFinal, CoverageStands, PromotionIsTotal, VerdictIsEarned, Covered, Covering
  <2> QED
    BY <1>4, <2>2, <2>3 DEF Cover, HoldAuthority, AskUnits, GetUnits, MGoto
<1>5. ASSUME NEW u \in Units, PutUnit(u)
      PROVE  DrainIsFinal' /\ CoverageStands' /\ PromotionIsTotal' /\ VerdictIsEarned'
  <2>1. /\ UNCHANGED <<docs, touched, written>> /\ mpc = "putting"
        /\ mpc' \in {"putting", "closing"} /\ verdict' # "complete"
    BY <1>5, <1>t DEF PutUnit, ledger, MGoto, Fail
  <2>2. \E more \in SUBSET TouchedUnits : puts' = puts \cup more
    BY <1>5 DEF PutUnit
  <2> QED
    BY <1>q, <1>f, <1>s, <2>1, <2>2
    DEF DrainIsFinal, CoverageStands, PromotionIsTotal, VerdictIsEarned, Covered, Covering
<1>6. CASE PutsDone \/ PublishMetadata
  <2>1. UNCHANGED <<puts, touched, written>> /\ mpc \in {"putting", "publishing"}
    BY <1>6 DEF PutsDone, PublishMetadata, ledger, target
  <2>2. CASE Fail /\ UNCHANGED docs
    BY <1>x, <2>1, <2>2
  <2>3. CASE mpc' = "publishing" /\ verdict' = verdict /\ TouchedUnits \subseteq puts
    BY <1>q, <1>f, <1>s, <1>t, <2>1, <2>3
    DEF DrainIsFinal, CoverageStands, PromotionIsTotal, VerdictIsEarned, Covered, Covering
  <2>4. CASE mpc = "publishing" /\ mpc' = "confirming" /\ verdict' = verdict /\ docs' = TRUE
    BY <1>q, <1>f, <1>s, <1>t, <2>1, <2>4
    DEF DrainIsFinal, CoverageStands, PromotionIsTotal, VerdictIsEarned, Covered, Covering
  <2> QED
    BY <1>6, <2>2, <2>3, <2>4 DEF PutsDone, PublishMetadata, MGoto
<1>7. CASE ConfirmClaims \/ RegisterRun \/ TearDown
  <2>1. /\ UNCHANGED <<puts, docs, touched, written>>
        /\ \/ mpc = "confirming" /\ mpc' = "recording" /\ verdict' = verdict
           \/ mpc = "recording" /\ mpc' = "closing"
           \/ mpc = "closing" /\ mpc' = "over" /\ verdict' = verdict
    BY <1>7 DEF ConfirmClaims, RegisterRun, TearDown, MGoto, target, ledger
  <2>2. CASE mpc = "confirming" /\ mpc' = "recording" /\ verdict' = verdict
    BY <1>q, <1>f, <1>s, <1>t, <2>1, <2>2
    DEF DrainIsFinal, CoverageStands, PromotionIsTotal, VerdictIsEarned, Covered, Covering
  <2>3. CASE mpc = "recording" /\ mpc' = "closing"
    BY <1>q, <1>f, <1>s, <1>t, <2>1, <2>3
    DEF DrainIsFinal, CoverageStands, PromotionIsTotal, VerdictIsEarned, Covered, Covering
  <2>4. CASE mpc = "closing" /\ mpc' = "over" /\ verdict' = verdict
    <3>1. Staged /\ (puts # {} \/ verdict = "complete") => Quiet
      BY DEF DrainIsFinal, VerdictIsEarned
    <3> QED
      BY <1>q, <1>f, <1>s, <2>1, <2>4, <3>1
      DEF DrainIsFinal, CoverageStands, PromotionIsTotal, VerdictIsEarned, Covered, Covering
  <2> QED
    BY <2>1, <2>2, <2>3, <2>4
<1> QED
  BY <1>1, <1>2, <1>3, <1>4, <1>5, <1>6, <1>7 DEF Next, Main

\* Behind a shut gate the count only falls; close leaves in order.
LEMMA CloseStep ==
  ASSUME SessionAssumption, SInv, [Next]_vars, TypeOK'
  PROVE  CloseIsOrderly'
<1> USE DEF SInv
<1>1. CASE (\E t \in Threads : Batch(t)) \/ Main \/ LoseClaim \/ UNCHANGED vars
  <2>1. /\ UNCHANGED <<cpc, closed, drainFailed>>
        /\ seeding' => seeding
        /\ publishing' = publishing \/ state # "terminal"
        /\ workspace' = workspace \/ cpc["run"] = "returned"
    <3>1. CASE \E t \in Threads : Batch(t)
      BY <3>1 DEF Batch, AskSeeding, Seed, AdmitWrite, AdmitRefused, RecordTouched, Write,
         RecordWritten, Leave, session, store
    <3>2. CASE JoinPool \/ VerifyPromotion \/ Drained \/ Cover \/ HoldAuthority \/ AskUnits
                 \/ GetUnits
      BY <3>2 DEF JoinPool, VerifyPromotion, Drained, Cover, HoldAuthority, AskUnits, GetUnits,
         session, store
    <3>3. CASE (\E u \in Units : PutUnit(u)) \/ PutsDone \/ PublishMetadata \/ ConfirmClaims
                 \/ RegisterRun \/ LoseClaim \/ UNCHANGED vars
      <4>1. UNCHANGED <<cpc, session, store>>
        BY <3>3 DEF PutUnit, PutsDone, PublishMetadata, ConfirmClaims, RegisterRun,
           LoseClaim, vars
      <4> QED
        BY <4>1 DEF session, store
    <3>4. CASE TearDown
      <4>1. workspace' = workspace \/ cpc["run"] = "returned"
        BY <3>4 DEF TearDown
      <4> QED
        BY <3>4, <4>1 DEF TearDown, session
    <3> QED
      BY <1>1, <3>1, <3>2, <3>3, <3>4 DEF Main
  <2>2. state = "terminal" => state' = "terminal"
    BY GateStaysShut
  <2>3. state = "terminal" /\ inFlight = 0 => inFlight' = 0
    <3> SUFFICES ASSUME state = "terminal", inFlight = 0 PROVE inFlight' = 0
      OBVIOUS
    <3>1. \A t \in Threads : pc[t] \notin Inside
      BY InsideIsFinite DEF CountIsExact
    <3>2. mpc # "units"
      BY InsideIsFinite DEF CountIsExact
    <3>3. CASE \E t \in Threads : Batch(t)
      <4>1. PICK t \in Threads : Batch(t) /\ ~AdmitWrite(t) /\ ~Leave(t)
        BY <3>1, <3>3 DEF AdmitWrite, Admissible, Leave, Inside
      <4> QED
        BY <4>1 DEF Batch, AskSeeding, Seed, AdmitRefused, RecordTouched, Write,
           RecordWritten, session
    <3>4. CASE Main
      BY <3>2, <3>4 DEF Main, JoinPool, VerifyPromotion, Drained, Cover, HoldAuthority,
         AskUnits, GetUnits, PutUnit, PutsDone, PublishMetadata, ConfirmClaims, RegisterRun,
         TearDown, session
    <3> QED
      BY <1>1, <3>3, <3>4 DEF LoseClaim, vars, session
  <2> QED
    BY <2>1, <2>2, <2>3 DEF CloseIsOrderly
<1>2. ASSUME NEW c \in Closers, CloseStarts(c) PROVE CloseIsOrderly'
  <2>1. /\ state' = "terminal"
        /\ UNCHANGED <<inFlight, closed, drainFailed, seeding, publishing, workspace>>
        /\ \A d \in Closers \ {c} : cpc'[d] = cpc[d]
        /\ cpc'[c] \in {"waiting", "draining"} /\ cpc[c] = "idle"
    BY <1>2 DEF CloseStarts, TypeOK, store
  <2> QED
    BY <2>1 DEF CloseIsOrderly, Closers
<1>3. ASSUME NEW c \in Closers, Close(c) PROVE CloseIsOrderly'
  <2>1. /\ UNCHANGED <<state, inFlight, workspace>> /\ closed' = TRUE
        /\ \A d \in Closers \ {c} : cpc'[d] = cpc[d]
        /\ cpc'[c] \in {"returned", "raised"} /\ cpc[c] \in {"draining", "waiting"}
    BY <1>3 DEF Close, CloseDrains, CloseJoins, TypeOK, store, session
  <2>2. state' = "terminal"
    BY <2>1 DEF CloseIsOrderly
  <2>3. ~seeding' /\ publishing' # "held"
    BY <1>3 DEF Close, CloseDrains, CloseJoins, CloseIsOrderly, session
  <2>4. /\ cpc'[c] = "returned" => inFlight' = 0
        /\ ~drainFailed' => inFlight' = 0
    <3>1. CASE CloseDrains(c)
      <4>1. inFlight \in Nat /\ inFlight' = inFlight
        BY <3>1 DEF CloseDrains, TypeOK
      <4>2. CASE inFlight > 0
        <5>1. drainFailed' = TRUE /\ cpc'[c] = "raised"
          BY <3>1, <4>2 DEF CloseDrains, TypeOK
        <5> QED
          BY <5>1
      <4>3. CASE ~(inFlight > 0)
        BY <4>1, <4>3
      <4> QED
        BY <4>2, <4>3
    <3>2. CASE CloseJoins(c)
      BY <3>2 DEF CloseJoins, CloseIsOrderly, TypeOK, session
    <3> QED
      BY <1>3, <3>1, <3>2 DEF Close
  <2> QED
    BY <2>1, <2>2, <2>3, <2>4 DEF CloseIsOrderly, Closers
<1> QED
  BY <1>1, <1>2, <1>3 DEF Next

LEMMA SessionInit == SessionAssumption /\ Init => SInv
<1> SUFFICES ASSUME SessionAssumption, Init PROVE SInv
  OBVIOUS
<1>1. TypeOK
  <2>1. writeMode \in {"staged", "direct"} /\ seeding \in BOOLEAN
    BY DEF Init, SessionAssumption, Staged
  <2> QED
    BY <2>1 DEF Init, TypeOK, Inside
<1>2. CountIsExact
  <2>1. \A t \in Threads : pc[t] \notin Inside
    BY DEF Init, Inside
  <2>2. Cardinality(InsideNow) = 0
    BY <2>1, InsideIsFinite
  <2> QED
    BY <2>2 DEF CountIsExact, Init
<1>3. CellsAreOrderly /\ DrainIsFinal /\ CoverageStands /\ PromotionIsTotal /\ VerdictIsEarned
  BY DEF Init, CellsAreOrderly, DrainIsFinal, CoverageStands, PromotionIsTotal,
     VerdictIsEarned, Covering, Covered
<1>4. CloseIsOrderly
  BY DEF Init, CloseIsOrderly
<1> QED
  BY <1>1, <1>2, <1>3, <1>4 DEF SInv

\* The invariant the theorems rest on, for any batches, strays and units.
LEMMA Inductive == SessionAssumption => (Spec => []SInv)
<1> SUFFICES ASSUME SessionAssumption PROVE Spec => []SInv
  OBVIOUS
<1>1. Init => SInv
  BY SessionInit
<1>2. SInv /\ [Next]_vars => SInv'
  <2> SUFFICES ASSUME SInv, [Next]_vars PROVE SInv'
    OBVIOUS
  <2>1. TypeOK' /\ CountIsExact'
    BY BatchCounts, MainCounts DEF Next
  <2> QED
    BY <2>1, CellsStep, MainStep, CloseStep DEF SInv
<1> QED
  BY <1>1, <1>2, PTL DEF Spec
-----------------------------------------------------------------------------
\* What is promoted was whole in the workspace, a caller that close returned
\* to finds nobody inside, and a run recorded complete promoted all it touched.
THEOREM SessionSafe == SessionAssumption => (Spec => []SessionInvariant)
<1> SUFFICES ASSUME SessionAssumption PROVE Spec => []SessionInvariant
  OBVIOUS
<1>1. SInv => SessionInvariant
  <2> SUFFICES ASSUME SInv PROVE SessionInvariant
    OBVIOUS
  <2> USE DEF SInv
  <2>1. PromotionIsWhole
    <3> SUFFICES ASSUME Staged, puts # {}
                 PROVE  /\ \A u \in puts : u \subseteq landed
                        /\ \A t \in Threads : pc[t] \notin Inside
      BY DEF PromotionIsWhole
    <3>1. Quiet /\ FullyWritten /\ puts \subseteq TouchedUnits
      BY DEF DrainIsFinal, CoverageStands
    <3> QED
      BY <3>1 DEF Quiet, FullyWritten, CellsAreOrderly
  <2>2. ReturnedMeansDrained
    <3> SUFFICES ASSUME NEW c \in Closers, cpc[c] = "returned"
                 PROVE  inFlight = 0 /\ \A t \in Threads : pc[t] \notin Inside
      BY DEF ReturnedMeansDrained
    <3>1. inFlight = 0
      BY DEF CloseIsOrderly
    <3> QED
      BY <3>1, InsideIsFinite DEF CountIsExact
  <2>3. CompleteMeansPromoted
    <3> SUFFICES ASSUME verdict = "complete", Staged
                 PROVE  puts = {u \in Units : u \cap landed # {}} /\ docs
      BY DEF CompleteMeansPromoted
    <3>1. FullyWritten /\ puts = TouchedUnits /\ docs
      BY DEF VerdictIsEarned, CoverageStands
    <3>2. written \subseteq landed /\ landed \subseteq touched
      BY DEF CellsAreOrderly
    <3>3. TouchedUnits = {u \in Units : u \cap landed # {}}
      <4>1. ASSUME NEW u \in TouchedUnits PROVE u \cap landed # {}
        BY <3>1, <3>2 DEF FullyWritten, TouchedUnits
      <4>2. ASSUME NEW u \in Units, u \cap landed # {} PROVE u \cap touched # {}
        BY <3>2, <4>2
      <4> QED
        BY <4>1, <4>2 DEF TouchedUnits
    <3> QED
      BY <3>1, <3>3
  <2> QED
    BY <2>1, <2>2, <2>3 DEF SessionInvariant
<1> QED
  BY <1>1, Inductive, PTL

\* Nothing lands in a deleted workspace, and no metadata is written once close
\* has let its callers go on, whatever permission a thread was given before.
THEOREM SessionEnds == SessionAssumption => (Spec => [][SessionStep]_vars)
<1> SUFFICES ASSUME SessionAssumption PROVE Spec => [][SessionStep]_vars
  OBVIOUS
<1>1. SInv /\ [Next]_vars => [SessionStep]_vars
  <2> SUFFICES ASSUME SInv, [Next]_vars PROVE [SessionStep]_vars
    OBVIOUS
  <2> USE DEF SInv
  <2>1. ASSUME closed PROVE UNCHANGED <<seeded, docs>>
    <3>1. state = "terminal" /\ ~seeding /\ publishing # "held"
      BY <2>1 DEF CloseIsOrderly
    <3>2. UNCHANGED seeded
      <4>1. ASSUME NEW t \in Threads, Batch(t) PROVE UNCHANGED seeded
        BY <3>1, <4>1 DEF Batch, AskSeeding, Seed, AdmitWrite, AdmitRefused, RecordTouched,
           Write, RecordWritten, Leave, store
      <4>2. CASE Main \/ (\E c \in Closers : CloseStarts(c) \/ Close(c)) \/ LoseClaim
                   \/ UNCHANGED vars
        BY <4>2 DEF Main, JoinPool, VerifyPromotion, Drained, Cover, HoldAuthority, AskUnits,
           GetUnits, PutUnit, PutsDone, PublishMetadata, ConfirmClaims, RegisterRun, TearDown,
           Close, CloseStarts, CloseDrains, CloseJoins, LoseClaim, vars, store
      <4> QED
        BY <4>1, <4>2 DEF Next
    <3>3. UNCHANGED docs
      <4>1. CASE Main
        BY <3>1, <4>1 DEF Main, JoinPool, VerifyPromotion, Drained, Cover, HoldAuthority,
           AskUnits, GetUnits, PutUnit, PutsDone, PublishMetadata, ConfirmClaims, RegisterRun,
           TearDown, target
      <4> QED
        BY <4>1, OthersLeaveMain DEF Next
    <3> QED
      BY <3>2, <3>3
  <2>2. ASSUME workspace = "deleted" PROVE UNCHANGED <<landed, seeded>>
    <3>1. cpc["run"] = "returned" /\ closed /\ inFlight = 0 /\ state = "terminal"
      BY <2>2 DEF CloseIsOrderly, Closers
    <3>2. Quiet
      BY <3>1, InsideIsFinite DEF Quiet, CountIsExact
    <3> QED
      BY <2>1, <3>1, <3>2, QuietIsFinal
  <2> QED
    BY <2>1, <2>2 DEF SessionStep, NothingLandsAfterDelete, NoMetadataAfterClose
<1> QED
  BY <1>1, Inductive, PTL DEF Spec

\* What a session promises to its run, for any number of batches, strays and units.
THEOREM SessionIsKept == SessionAssumption => (Spec => SessionIsSound)
<1> SUFFICES ASSUME SessionAssumption PROVE Spec => SessionIsSound
  OBVIOUS
<1> QED
  BY SessionSafe, SessionEnds, PTL DEF SessionIsSound
=============================================================================
