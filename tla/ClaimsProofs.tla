---------------------------- MODULE ClaimsProofs ----------------------------
(***************************************************************************)
(* What Claims promises for any number of acquisitions, operators,         *)
(* revisions and unanswered requests.                                      *)
(*                                                                         *)
(* The record of an acquisition only moves forward: a heartbeat names the  *)
(* generation it follows and draws a later revision.  So a request the     *)
(* store applies late finds its generation either current, and then the    *)
(* owner remembers the revision as unconfirmed, or gone for good.          *)
(***************************************************************************)
EXTENDS Claims, TLAPS

-----------------------------------------------------------------------------
(* The inductive invariant.                                                *)

\* The handles that have held the record once and whose process still runs.
Owner(i) ==
    handle[i].pc \in {"held", "beating", "refused", "unanswered", "retiring",
                      "rereading", "released"}

\* The requests a heartbeat of acquisition `i` left behind.
LateBeats(i) == {w \in late : w.kind = "replace" /\ w.inc = i /\ w.expect[3] = Held}

\* The owner is told to stop before its record is retired.
StopsFirst(i) == handle[i].pc \in {"retiring", "rereading", "released"} => handle[i].stop

\* A takeover replaces a released generation.
TakeOverSeesReleased(i) ==
    At(i, "replacing") => handle[i].seen \in Validator /\ handle[i].seen[3] = Released

\* Before it holds the record a handle has drawn, lost and stopped nothing.
NewHandleIsClean(i) ==
    handle[i].pc \in {"new", "taking", "replacing", "failed"} =>
        /\ handle[i].rev = 1 /\ handle[i].drawn = 1 /\ handle[i].arg = 0
        /\ handle[i].unconfirmed = {} /\ ~handle[i].lost /\ ~handle[i].stop
        /\ ~handle[i].blind /\ ~handle[i].retried

\* Between two calls an owner has no revision under way.
HeldIsIdle(i) == At(i, "held") => handle[i].arg = 0 /\ ~handle[i].retried

\* Revisions move forward: those under way are later than the one adopted, and
\* so is whatever the record holds of this acquisition.
RevisionsAdvance(i) ==
    Owner(i) =>
        /\ handle[i].rev <= handle[i].drawn
        /\ \A u \in handle[i].unconfirmed : handle[i].rev < u /\ u <= handle[i].drawn
        /\ handle[i].pc \in {"beating", "refused", "unanswered"} =>
              \/ handle[i].arg = 0
              \/ handle[i].rev < handle[i].arg /\ handle[i].arg <= handle[i].drawn
        /\ Mine(i) => handle[i].rev <= rec.rev

\* A late heartbeat follows the adopted generation or an earlier one, and the
\* owner remembers those that follow the adopted one.
LateBeatsAreKnown(i) ==
    Owner(i) => \A w \in LateBeats(i) :
        /\ w.expect[2] <= handle[i].rev
        /\ w.expect[2] = handle[i].rev => w.rev \in handle[i].unconfirmed

\* What an owner finds in its record it recognises.
Recognised(i) ==
    Owner(i) /\ Mine(i) /\ ~handle[i].blind =>
        \/ rec.rev = handle[i].rev
        \/ rec.rev \in handle[i].unconfirmed
        \/ At(i, "refused") /\ rec.rev = handle[i].arg

\* A refusal means that the record moved on, and no late heartbeat is left that
\* could get a second retire refused.
RefusedMeansMoved(i) ==
    /\ At(i, "refused") \/ At(i, "rereading") => (Mine(i) => rec.rev # handle[i].rev)
    /\ At(i, "retiring") /\ ~handle[i].retried => handle[i].arg = handle[i].rev
    /\ At(i, "retiring") /\ handle[i].retried =>
          /\ handle[i].rev < handle[i].arg
          /\ Mine(i) => rec.rev = handle[i].arg
    /\ At(i, "rereading") /\ handle[i].retried => ~Mine(i)

\* A loss other than a blind one is final, and so is a release.
LossIsFinal(i) ==
    Owner(i) /\ ~handle[i].blind /\ (handle[i].lost \/ At(i, "released")) => ~Mine(i)

\* A handle that lost its claim blindly does nothing but release.
BlindHandleRests(i) ==
    handle[i].blind =>
        handle[i].lost /\ ~handle[i].beating /\ handle[i].pc \in {"held", "released", "crashed"}

\* The invariants of the runs, of one handle.
OwnsRecord(i) == Holds(i) => Mine(i) \/ i \in evicted
LosesNothing(i) == handle[i].lost /\ ~handle[i].stop => i \in evicted \/ handle[i].blind

HandleInv(i) ==
    /\ StopsFirst(i) /\ TakeOverSeesReleased(i) /\ NewHandleIsClean(i) /\ HeldIsIdle(i)
    /\ RevisionsAdvance(i) /\ LateBeatsAreKnown(i) /\ Recognised(i) /\ RefusedMeansMoved(i)
    /\ LossIsFinal(i) /\ BlindHandleRests(i) /\ OwnsRecord(i) /\ LosesNothing(i)

\* What a request left behind expects, and which handles leave it: acquire and
\* takeover fail with it, a heartbeat follows the owner's own record, a retire
\* of the owner comes after it was told to stop.
LateIsOrderly(w) ==
    /\ w.kind = "create" => At(w.inc, "failed")
    /\ w.kind = "replace" =>
          /\ w.expect \in Validator
          /\ \/ w.expect[3] = Released /\ At(w.inc, "failed")
             \/ w.expect[3] = Held /\ w.expect[1] = w.inc /\ (Owner(w.inc) \/ At(w.inc, "crashed"))
    /\ w.kind = "retire" =>
          /\ w.expect \in Validator /\ w.expect[1] = w.inc /\ w.expect[3] = Held
          /\ w.by = "handle" => handle[w.inc].stop
    /\ w.by = "sweep" => w.kind = "retire" /\ <<w.expect[1], w.expect[2]>> \in aged

\* An operator at work has read a held generation, a sweep a stale one.
OperatorSawHeld(o) ==
    /\ op[o].pc # "idle" => op[o].seen \in Validator /\ op[o].seen[3] = Held
    /\ op[o].pc = "clearing" /\ op[o].staleOnly => <<op[o].seen[1], op[o].seen[2]>> \in aged

ClaimsInv ==
    /\ TypeOK
    /\ \A i \in Incs : HandleInv(i)
    /\ \A w \in late : LateIsOrderly(w)
    /\ \A o \in Ops : OperatorSawHeld(o)
-----------------------------------------------------------------------------
(* Steps that leave a handle alone.                                        *)

\* A handle keeps its invariant through steps that do not touch it, give its
\* record to nobody else's revision and leave no new heartbeat of its own.
LEMMA OthersKeep ==
  ASSUME NEW j \in Incs, HandleInv(j),
         handle'[j] = handle[j],
         rec \in Record \cup {NoRecord}, rec' \in Record \cup {NoRecord},
         Mine(j)' => Mine(j) /\ rec'.rev = rec.rev,
         Mine(j) => Mine(j)' \/ j \in evicted' \/ handle[j].stop \/ ~Holds(j),
         LateBeats(j)' \subseteq LateBeats(j),
         evicted \subseteq evicted'
  PROVE  HandleInv(j)'
<1>1. Owner(j)' = Owner(j) /\ Holds(j)' = Holds(j) /\ \A pc : At(j, pc)' = At(j, pc)
  BY DEF Owner, Holds, At
<1>2. /\ StopsFirst(j)' /\ TakeOverSeesReleased(j)' /\ NewHandleIsClean(j)' /\ HeldIsIdle(j)'
      /\ BlindHandleRests(j)'
  BY DEF HandleInv, StopsFirst, TakeOverSeesReleased, NewHandleIsClean, HeldIsIdle, BlindHandleRests, At
<1>3. RevisionsAdvance(j)'
  BY <1>1 DEF HandleInv, RevisionsAdvance
<1>4. LateBeatsAreKnown(j)'
  BY <1>1 DEF HandleInv, LateBeatsAreKnown
<1>5. Recognised(j)'
  BY <1>1 DEF HandleInv, Recognised
<1>6. RefusedMeansMoved(j)'
  BY <1>1 DEF HandleInv, RefusedMeansMoved
<1>7. LossIsFinal(j)'
  BY <1>1 DEF HandleInv, LossIsFinal
<1>8. OwnsRecord(j)' /\ LosesNothing(j)'
  BY <1>1 DEF HandleInv, OwnsRecord, LosesNothing, Holds
<1> QED
  BY <1>2, <1>3, <1>4, <1>5, <1>6, <1>7, <1>8 DEF HandleInv

\* What the typing of a state says of the handle of an acquisition.
LEMMA HandleTypes ==
  ASSUME ClaimsInv, NEW i \in Incs
  PROVE  /\ handle[i] \in HandleState /\ HandleInv(i)
         /\ rec \in Record \cup {NoRecord}
         /\ MaxRev \in Nat
BY ClaimsAssumption DEF ClaimsInv, TypeOK

\* A record just stored is held under its name, a retired one is not held.
LEMMA HeldRecordIsHeld ==
  ASSUME NEW i, NEW r, rec' = HeldRecord(i, r)
  PROVE  IsHeld' /\ rec'.inc = i /\ rec'.rev = r
BY DEF HeldRecord, IsHeld, NoRecord, Held

LEMMA RetiredIsNotHeld ==
  ASSUME rec \in Record, rec' = Retired(rec)
  PROVE  ~IsHeld' /\ rec' \in Record \cup {NoRecord}
BY DEF Retired, Record, IsHeld, NoRecord, Held, Released

-----------------------------------------------------------------------------
(* Steps of a handle, in the order of HandleStep.                          *)

\* The states a handle passes through are states of a handle.
LEMMA HandleTypeKept ==
  ASSUME ClaimsInv, NEW i \in Incs, HandleStep(i)
  PROVE  handle'[i] \in HandleState
<1>1. handle \in [Incs -> HandleState] /\ handle[i] \in HandleState /\ MaxRev \in Nat
  BY HandleTypes DEF ClaimsInv, TypeOK
<1>2. NoValidator \in Validator \cup {NoValidator} /\ 0 \in 0..MaxRev
  BY <1>1
<1>3. ASSUME NEW h \in HandleState, NEW where \in Pcs
      PROVE  Idle(h, where) \in HandleState
  BY <1>2 DEF Idle, HandleState
<1>a. ASSUME NEW h \in HandleState, NEW r \in 1..MaxRev
      PROVE  Adopted(h, r) \in HandleState
  <2>1. Idle(h, "held") \in HandleState /\ {} \in SUBSET (1..MaxRev)
    BY <1>3 DEF Pcs
  <2> QED
    BY <2>1 DEF Adopted, HandleState
<1>b. ASSUME NEW h \in HandleState
      PROVE  Lost(h) \in HandleState /\ LostRelease(h) \in HandleState
  <2>1. Idle(h, "held") \in HandleState /\ Idle(h, "released") \in HandleState
    BY <1>3 DEF Pcs
  <2> QED
    BY <2>1 DEF Lost, LostRelease, HandleState
<1>4. CASE AcquireCreates(i)
  BY <1>1, <1>4 DEF AcquireCreates, Become, HandleState, Pcs
<1>5. CASE AcquireFindsRecord(i)
  BY <1>1, <1>5 DEF AcquireFindsRecord, Become, HandleState, Pcs
<1>6. CASE AcquireRaises(i)
  BY <1>1, <1>3, <1>6 DEF AcquireRaises, Become, Pcs
<1>7. CASE TakeOverReads(i)
  <2>1. CASE rec # NoRecord /\ Become(i, [handle[i] EXCEPT !.pc = "replacing", !.seen = ValidatorOf(rec)])
    <3>1. ValidatorOf(rec) \in Validator
      BY <2>1, HandleTypes DEF ValidatorOf, Record, Validator
    <3> QED
      BY <1>1, <2>1, <3>1 DEF Become, HandleState, Pcs
  <2>2. CASE Become(i, Idle(handle[i], "failed"))
    BY <1>1, <1>3, <2>2 DEF Become, Pcs
  <2> QED
    BY <1>7, <2>1, <2>2 DEF TakeOverReads
<1>8. CASE TakeOverReplaces(i)
  BY <1>1, <1>3, <1>8 DEF TakeOverReplaces, Become, Pcs
<1>9. CASE TakeOverFails(i)
  BY <1>1, <1>3, <1>9 DEF TakeOverFails, Become, Pcs
<1>10. CASE BeatStarts(i)
  <2>1. CASE CanDraw(i)
    <3>1. Fresh(i) \in 1..MaxRev /\ Fresh(i) \in 0..MaxRev
      BY <1>1, <2>1 DEF CanDraw, Fresh, HandleState
    <3> QED
      BY <1>1, <1>10, <2>1, <3>1 DEF BeatStarts, Become, HandleState, Pcs
  <2>2. CASE ~CanDraw(i)
    BY <1>1, <1>10, <2>2 DEF BeatStarts, Become, HandleState, Pcs
  <2> QED
    BY <2>1, <2>2
<1>11. CASE BeatCommits(i)
  <2>1. handle[i].arg \in 1..MaxRev
    BY <1>1, <1>11 DEF BeatCommits, HandleState
  <2>2. Adopted(handle[i], handle[i].arg) \in HandleState
    BY <1>1, <1>a, <2>1
  <2> QED
    BY <1>1, <1>11, <2>2 DEF BeatCommits, Become, HandleState, Pcs
<1>12. CASE BeatRefused(i)
  BY <1>1, <1>2, <1>12 DEF BeatRefused, Become, HandleState, Pcs
<1>13. CASE BeatRaises(i)
  <2>1. handle[i].unconfirmed \cup {handle[i].arg} \in SUBSET (1..MaxRev)
    BY <1>1, <1>13 DEF BeatRaises, HandleState
  <2> QED
    BY <1>1, <1>13, <2>1 DEF BeatRaises, Become, HandleState, Pcs
<1>14. CASE Reconcile(i)
  <2>1. Mine(i) => rec.rev \in 1..MaxRev
    BY HandleTypes DEF Mine, IsHeld, Record
  <2>2. Reconciled(i) \in HandleState
    BY <1>1, <1>3, <1>a, <1>b, <2>1 DEF Reconciled, Pcs
  <2> QED
    BY <1>1, <1>14, <2>2 DEF Reconcile, Become
<1>15. CASE ReconcileReadFails(i)
  <2>1. Lost(handle[i]) \in HandleState
    BY <1>1, <1>b
  <2>2. [Lost(handle[i]) EXCEPT !.blind = TRUE] \in HandleState
    BY <2>1 DEF HandleState
  <2> QED
    BY <1>1, <1>3, <1>15, <2>2 DEF ReconcileReadFails, Become, Pcs
<1>16. CASE Confirm(i)
  <2>1. Mine(i) => rec.rev \in 1..MaxRev
    BY HandleTypes DEF Mine, IsHeld, Record
  <2>2. [handle[i] EXCEPT !.lost = TRUE] \in HandleState
    BY <1>1 DEF HandleState
  <2>3. Confirmed(i) \in HandleState
    BY <1>1, <1>a, <2>1, <2>2 DEF Confirmed
  <2> QED
    BY <1>1, <1>16, <2>3 DEF Confirm, Become
<1>17. CASE ReleaseStarts(i)
  <2>1. handle[i].rev \in 0..MaxRev
    BY <1>1 DEF HandleState
  <2> QED
    BY <1>1, <1>2, <1>17, <2>1 DEF ReleaseStarts, Become, HandleState, Pcs
<1>18. CASE ReleaseTimesOut(i)
  BY <1>1, <1>18 DEF ReleaseTimesOut, Become, HandleState, Pcs
<1>19. CASE RetireCommits(i)
  BY <1>1, <1>3, <1>19 DEF RetireCommits, Become, HandleState, Pcs
<1>20. CASE RetireRefused(i)
  BY <1>1, <1>20 DEF RetireRefused, Become, HandleState, Pcs
<1>21. CASE RetireRaises(i)
  <2>1. Idle(handle[i], "held") \in HandleState
    BY <1>1, <1>3 DEF Pcs
  <2>2. [Idle(handle[i], "held") EXCEPT !.uncertain = TRUE] \in HandleState
    BY <2>1 DEF HandleState
  <2> QED
    BY <1>1, <1>21, <2>2 DEF RetireRaises, Become
<1>22. CASE RetireRereads(i)
  <2>1. Mine(i) => rec.rev \in 0..MaxRev
    BY <1>1, HandleTypes DEF Mine, IsHeld, Record
  <2>2. Mine(i) => [handle[i] EXCEPT !.pc = "retiring", !.arg = rec.rev, !.retried = TRUE] \in HandleState
    BY <1>1, <2>1 DEF HandleState, Pcs
  <2>3. AfterRefusal(i) \in HandleState
    BY <1>1, <1>3, <1>b, <2>2 DEF AfterRefusal, Pcs
  <2> QED
    BY <1>1, <1>3, <1>22, <2>3 DEF RetireRereads, Become, Pcs
<1>23. CASE Crash(i)
  BY <1>1, <1>3, <1>23 DEF Crash, Become, Pcs
<1> QED
  BY <1>4, <1>5, <1>6, <1>7, <1>8, <1>9, <1>10, <1>11, <1>12, <1>13, <1>14, <1>15, <1>16,
     <1>17, <1>18, <1>19, <1>20, <1>21, <1>22, <1>23 DEF HandleStep

\* A step of a handle keeps the invariant of the handle.
LEMMA HandleInvKept ==
  ASSUME ClaimsInv, NEW i \in Incs, HandleStep(i)
  PROVE  HandleInv(i)'
<1> USE DEF HandleInv, StopsFirst, TakeOverSeesReleased, NewHandleIsClean, HeldIsIdle, RevisionsAdvance,
        LateBeatsAreKnown, Recognised, RefusedMeansMoved, LossIsFinal, BlindHandleRests,
        OwnsRecord, LosesNothing, LateBeats, Owner, Holds, At, Mine, IsHeld, Become, Idle
<1>1. /\ handle \in [Incs -> HandleState] /\ handle[i] \in HandleState /\ HandleInv(i)
      /\ rec \in Record \cup {NoRecord} /\ MaxRev \in Nat
  BY HandleTypes DEF ClaimsInv, TypeOK
<1>2. /\ handle[i].rev \in Nat /\ handle[i].drawn \in Nat /\ handle[i].arg \in Nat
      /\ handle[i].unconfirmed \subseteq Nat
      /\ rec # NoRecord => rec.rev \in Nat /\ rec.rev # 0
  BY <1>1 DEF HandleState, Record
<1>3. \A w \in late : LateIsOrderly(w) /\ w \in Request
  BY DEF ClaimsInv, TypeOK
<1>b. \A w \in LateBeats(i) : w.expect[2] \in Nat
  <2> SUFFICES ASSUME NEW w \in LateBeats(i) PROVE w.expect[2] \in Nat
    OBVIOUS
  <2>1. w.expect \in Validator
    BY <1>3 DEF LateIsOrderly
  <2> QED
    BY <1>1, <2>1 DEF Validator
<1>4. CASE AcquireCreates(i)
  <2>1. rec' # NoRecord /\ rec'.inc = i /\ rec'.rev = 1 /\ rec'.state = Held
    BY <1>4 DEF AcquireCreates, HeldRecord, NoRecord, Held
  <2>2. LateBeats(i)' = {}
    BY <1>3, <1>4 DEF AcquireCreates, LateIsOrderly, Held, Released
  <2>3. CASE handle' = [handle EXCEPT ![i] = [handle[i] EXCEPT !.pc = "held"]]
    <3>1. handle'[i] = [handle[i] EXCEPT !.pc = "held"]
      BY <1>1, <2>3
    <3> QED
      BY <1>1, <1>2, <2>1, <2>2, <3>1, <1>4 DEF AcquireCreates, HandleState
  <2>4. CASE handle' = [handle EXCEPT ![i] = [handle[i] EXCEPT !.pc = "taking"]]
    <3>1. handle'[i] = [handle[i] EXCEPT !.pc = "taking"]
      BY <1>1, <2>4
    <3> QED
      BY <1>1, <1>2, <3>1, <1>4 DEF AcquireCreates, HandleState
  <2> QED
    BY <1>4, <2>3, <2>4 DEF AcquireCreates
<1>5. CASE AcquireFindsRecord(i)
  BY <1>1, <1>2, <1>5 DEF AcquireFindsRecord, HandleState
<1>6. CASE AcquireRaises(i)
  BY <1>1, <1>2, <1>6 DEF AcquireRaises, HandleState
<1>7. CASE TakeOverReads(i)
  <2>1. CASE /\ rec # NoRecord /\ rec.state = Released
             /\ handle'[i] = [handle[i] EXCEPT !.pc = "replacing", !.seen = ValidatorOf(rec)]
    <3>1. ValidatorOf(rec) \in Validator /\ ValidatorOf(rec)[3] = Released
      BY <1>1, <2>1 DEF ValidatorOf, Validator, Record
    <3> QED
      BY <1>1, <1>2, <1>7, <2>1, <3>1 DEF TakeOverReads, HandleState
  <2>2. CASE handle'[i] = Idle(handle[i], "failed")
    BY <1>1, <1>2, <1>7, <2>2 DEF TakeOverReads, HandleState
  <2> QED
    BY <1>1, <1>7, <2>1, <2>2 DEF TakeOverReads
<1>8. CASE TakeOverReplaces(i)
  <2>1. rec' # NoRecord /\ rec'.inc = i /\ rec'.rev = 1 /\ rec'.state = Held
    BY <1>8 DEF TakeOverReplaces, HeldRecord, NoRecord, Held
  <2>2. LateBeats(i)' = {}
    BY <1>3, <1>8 DEF TakeOverReplaces, LateIsOrderly, Held, Released
  <2>3. CASE handle'[i] = Idle(handle[i], "held")
    BY <1>1, <1>2, <2>1, <2>2, <2>3, <1>8 DEF TakeOverReplaces, HandleState
  <2>4. CASE handle'[i] = Idle(handle[i], "failed")
    BY <1>1, <1>2, <2>4, <1>8 DEF TakeOverReplaces, HandleState
  <2> QED
    BY <1>1, <1>8, <2>3, <2>4 DEF TakeOverReplaces
<1>9. CASE TakeOverFails(i)
  BY <1>1, <1>2, <1>9 DEF TakeOverFails, HandleState
<1>10. CASE BeatStarts(i)
  <2>1. At(i, "held") /\ handle[i].beating /\ ~handle[i].stop /\ UNCHANGED <<rec, late, evicted>>
    BY <1>10 DEF BeatStarts, MayBeat
  <2>2. CASE CanDraw(i)
    <3>1. handle'[i] = [handle[i] EXCEPT !.pc = "beating", !.drawn = Fresh(i), !.arg = Fresh(i)]
      BY <1>1, <1>10, <2>2 DEF BeatStarts
    <3>2. RevisionsAdvance(i)'
      BY <1>1, <1>2, <2>1, <3>1 DEF HandleState, Fresh
    <3> QED
      BY <1>1, <1>2, <2>1, <3>1, <3>2 DEF HandleState
  <2>3. CASE ~CanDraw(i)
    <3>1. handle'[i] = [handle[i] EXCEPT !.pc = "beating"]
      BY <1>1, <1>10, <2>3 DEF BeatStarts
    <3>2. RevisionsAdvance(i)'
      BY <1>1, <1>2, <2>1, <3>1 DEF HandleState
    <3> QED
      BY <1>1, <1>2, <2>1, <3>1, <3>2 DEF HandleState
  <2> QED
    BY <2>2, <2>3
<1>11. CASE BeatCommits(i)
  <2>1. /\ rec' # NoRecord /\ rec'.inc = i /\ rec'.rev = handle[i].arg /\ rec'.state = Held
        /\ UNCHANGED <<late, evicted>>
    BY <1>11 DEF BeatCommits, HeldRecord, NoRecord, Held
  <2>2. Mine(i) /\ rec.rev = handle[i].rev
    BY <1>11 DEF BeatCommits, IsCurrent, ValidatorOf, Own, Held
  <2>3. CASE handle'[i] = Adopted(handle[i], handle[i].arg)
    <3>1. /\ handle'[i].pc = "held" /\ handle'[i].rev = rec'.rev /\ handle'[i].unconfirmed = {}
          /\ handle'[i].drawn = handle[i].drawn /\ handle'[i].lost = handle[i].lost
          /\ handle'[i].stop = handle[i].stop /\ handle'[i].blind = handle[i].blind
          /\ handle'[i].arg = 0 /\ ~handle'[i].retried
      BY <1>1, <2>1, <2>3 DEF Adopted, HandleState
    <3>2. /\ handle[i].rev < rec'.rev /\ rec'.rev <= handle[i].drawn /\ ~handle[i].blind
          /\ Owner(i) /\ ~handle[i].lost
      BY <1>1, <1>2, <1>11, <2>1, <2>2 DEF BeatCommits
    <3>3. RevisionsAdvance(i)'
      BY <1>1, <1>2, <3>1, <3>2, <2>1
    <3>4. LateBeatsAreKnown(i)'
      BY <1>1, <1>2, <1>b, <3>1, <3>2, <1>11, <2>1, <2>2 DEF BeatCommits
    <3> QED
      BY <1>1, <1>2, <1>b, <3>1, <3>2, <3>3, <3>4, <1>11, <2>1, <2>2 DEF BeatCommits
  <2>4. CASE handle'[i] = [handle[i] EXCEPT !.pc = "refused"]
    BY <1>1, <1>2, <1>11, <2>1, <2>2, <2>4 DEF BeatCommits, HandleState
  <2> QED
    BY <1>1, <1>11, <2>3, <2>4 DEF BeatCommits
<1>12. CASE BeatRefused(i)
  BY <1>1, <1>2, <1>12 DEF BeatRefused, HandleState, IsCurrent, Own, ValidatorOf, Held
<1>13. CASE BeatRaises(i)
  BY <1>1, <1>2, <1>13 DEF BeatRaises, HandleState, Unanswered, BeatRequest, Own
<1>14. CASE Reconcile(i)
  <2>1. handle'[i] = Reconciled(i) /\ UNCHANGED <<rec, late, evicted>>
    BY <1>1, <1>14 DEF Reconcile
  <2>2. CASE handle'[i] = Lost(handle[i]) /\ ~Mine(i)
    BY <1>1, <1>2, <1>14, <2>1, <2>2 DEF Reconcile, Lost, HandleState
  <2>3. CASE /\ Mine(i) /\ rec.rev \in handle[i].unconfirmed \cup {handle[i].arg}
             /\ handle'[i] = Adopted(handle[i], rec.rev)
    <3>1. /\ handle'[i].pc = "held" /\ handle'[i].rev = rec'.rev /\ handle'[i].unconfirmed = {}
          /\ handle'[i].drawn = handle[i].drawn /\ handle'[i].lost = handle[i].lost
          /\ handle'[i].stop = handle[i].stop /\ handle'[i].blind = handle[i].blind
          /\ handle'[i].arg = 0 /\ ~handle'[i].retried
      BY <1>1, <2>1, <2>3 DEF Adopted, HandleState
    <3>2. /\ handle[i].rev < rec'.rev /\ rec'.rev <= handle[i].drawn /\ ~handle[i].blind
          /\ Owner(i) /\ ~handle[i].lost
      BY <1>1, <1>2, <1>14, <2>1, <2>3 DEF Reconcile
    <3>3. RevisionsAdvance(i)'
      BY <1>1, <1>2, <3>1, <3>2, <2>1
    <3>4. LateBeatsAreKnown(i)'
      BY <1>1, <1>2, <1>b, <3>1, <3>2, <1>14, <2>1, <2>3 DEF Reconcile
    <3> QED
      BY <1>1, <1>2, <1>b, <3>1, <3>2, <3>3, <3>4, <1>14, <2>1, <2>3 DEF Reconcile
  <2>4. CASE Mine(i) /\ rec.rev = handle[i].rev /\ handle'[i] = Idle(handle[i], "held")
    BY <1>1, <1>2, <1>14, <2>1, <2>4 DEF Reconcile, HandleState
  <2>5. CASE /\ Mine(i) /\ rec.rev \notin handle[i].unconfirmed \cup {handle[i].arg}
             /\ ~(At(i, "unanswered") /\ rec.rev = handle[i].rev)
    BY <1>1, <1>2, <1>14, <2>5 DEF Reconcile
  <2> QED
    BY <2>1, <2>2, <2>3, <2>4, <2>5 DEF Reconciled
<1>15. CASE ReconcileReadFails(i)
  <2>1. CASE handle'[i] = [Lost(handle[i]) EXCEPT !.blind = TRUE]
    BY <1>1, <1>2, <1>15, <2>1 DEF ReconcileReadFails, Lost, HandleState
  <2>2. CASE At(i, "unanswered") /\ handle'[i] = Idle(handle[i], "held")
    BY <1>1, <1>2, <1>15, <2>2 DEF ReconcileReadFails, HandleState
  <2> QED
    BY <1>1, <1>15, <2>1, <2>2 DEF ReconcileReadFails
<1>16. CASE Confirm(i)
  <2>1. handle'[i] = Confirmed(i) /\ UNCHANGED <<rec, late, evicted>> /\ At(i, "held") /\ ~handle[i].lost
    BY <1>1, <1>16 DEF Confirm
  <2>2. CASE handle'[i] = handle[i]
    BY <1>1, <2>1, <2>2
  <2>3. CASE /\ Mine(i) /\ rec.rev \in handle[i].unconfirmed
             /\ handle'[i] = Adopted(handle[i], rec.rev)
    <3>1. /\ handle'[i].pc = "held" /\ handle'[i].rev = rec'.rev /\ handle'[i].unconfirmed = {}
          /\ handle'[i].drawn = handle[i].drawn /\ handle'[i].lost = handle[i].lost
          /\ handle'[i].stop = handle[i].stop /\ handle'[i].blind = handle[i].blind
          /\ handle'[i].arg = 0 /\ ~handle'[i].retried
      BY <1>1, <2>1, <2>3 DEF Adopted, HandleState
    <3>2. /\ handle[i].rev < rec'.rev /\ rec'.rev <= handle[i].drawn /\ ~handle[i].blind
          /\ Owner(i) /\ ~handle[i].lost
      BY <1>1, <1>2, <2>1, <2>3
    <3>3. RevisionsAdvance(i)'
      BY <1>1, <1>2, <3>1, <3>2, <2>1
    <3>4. LateBeatsAreKnown(i)'
      BY <1>1, <1>2, <1>b, <3>1, <3>2, <2>1, <2>3
    <3> QED
      BY <1>1, <1>2, <1>b, <3>1, <3>2, <3>3, <3>4, <2>1, <2>3
  <2>4. CASE ~Mine(i) /\ handle'[i] = [handle[i] EXCEPT !.lost = TRUE]
    BY <1>1, <1>2, <2>1, <2>4 DEF HandleState
  <2>5. CASE Mine(i) /\ rec.rev # handle[i].rev /\ rec.rev \notin handle[i].unconfirmed
    BY <1>1, <1>2, <2>1, <2>5
  <2> QED
    BY <2>1, <2>2, <2>3, <2>4, <2>5 DEF Confirmed
<1>17. CASE ReleaseStarts(i)
  <2>1. CASE handle[i].lost
    <3>1. handle'[i] = [handle[i] EXCEPT !.stop = TRUE, !.arg = 0, !.pc = "released"]
      BY <1>1, <1>17, <2>1 DEF ReleaseStarts
    <3> QED
      BY <1>1, <1>2, <1>17, <2>1, <3>1 DEF ReleaseStarts, HandleState
  <2>2. CASE ~handle[i].lost
    <3>1. handle'[i] = [handle[i] EXCEPT !.stop = TRUE, !.arg = handle[i].rev, !.pc = "retiring"]
      BY <1>1, <1>17, <2>2 DEF ReleaseStarts
    <3>2. At(i, "held") /\ ~handle[i].retried /\ UNCHANGED <<rec, late, evicted>>
      BY <1>1, <1>17 DEF ReleaseStarts
    <3> QED
      BY <1>1, <1>2, <2>2, <3>1, <3>2 DEF HandleState
  <2> QED
    BY <2>1, <2>2
<1>18. CASE ReleaseTimesOut(i)
  BY <1>1, <1>2, <1>18 DEF ReleaseTimesOut, HandleState
<1>19. CASE RetireCommits(i)
  <2>1. ~Mine(i)'
    BY <1>1, <1>19 DEF RetireCommits, Retired, Record, NoRecord, Held, Released
  <2>2. CASE handle'[i] = Idle(handle[i], "released")
    BY <1>1, <1>2, <1>19, <2>1, <2>2 DEF RetireCommits, HandleState
  <2>3. CASE handle'[i] = [handle[i] EXCEPT !.pc = "rereading"]
    BY <1>1, <1>2, <1>19, <2>1, <2>3 DEF RetireCommits, HandleState
  <2> QED
    BY <1>1, <1>19, <2>2, <2>3 DEF RetireCommits
<1>20. CASE RetireRefused(i)
  BY <1>1, <1>2, <1>20 DEF RetireRefused, HandleState, IsCurrent, Target, ValidatorOf, Held
<1>21. CASE RetireRaises(i)
  BY <1>1, <1>2, <1>21 DEF RetireRaises, HandleState, Unanswered, RetireRequest
<1>22. CASE RetireRereads(i)
  <2>1. At(i, "rereading") /\ UNCHANGED <<rec, late, evicted>> /\ ~handle[i].blind /\ handle[i].stop
    BY <1>1, <1>22 DEF RetireRereads
  <2>2. CASE ~Mine(i) /\ handle'[i] = Idle(handle[i], "released")
    BY <1>1, <1>2, <2>1, <2>2 DEF HandleState
  <2>3. CASE /\ Mine(i) /\ rec.rev \in handle[i].unconfirmed \cup {handle[i].rev}
             /\ handle'[i] = [handle[i] EXCEPT !.pc = "retiring", !.arg = rec.rev, !.retried = TRUE]
    BY <1>1, <1>2, <2>1, <2>3 DEF HandleState
  <2>4. CASE ~Mine(i) /\ handle'[i] = LostRelease(handle[i])
    BY <1>1, <1>2, <2>1, <2>4 DEF LostRelease, HandleState
  <2>5. CASE Mine(i) /\ (handle[i].retried \/ rec.rev \notin handle[i].unconfirmed \cup {handle[i].rev})
    BY <1>1, <1>2, <2>1, <2>5
  <2>6. CASE handle'[i] = Idle(handle[i], "held")
    BY <1>1, <1>2, <2>1, <2>6 DEF HandleState
  <2>7. handle'[i] = AfterRefusal(i) \/ handle'[i] = Idle(handle[i], "held")
    BY <1>1, <1>22 DEF RetireRereads
  <2>8. rec = NoRecord \/ (rec.inc = i /\ rec.state = Released) => ~Mine(i)
    BY DEF Held, Released
  <2> QED
    BY <2>2, <2>3, <2>4, <2>5, <2>6, <2>7, <2>8 DEF AfterRefusal
<1>23. CASE Crash(i)
  BY <1>1, <1>2, <1>23 DEF Crash, HandleState
<1> QED
  BY <1>4, <1>5, <1>6, <1>7, <1>8, <1>9, <1>10, <1>11, <1>12, <1>13, <1>14, <1>15, <1>16,
     <1>17, <1>18, <1>19, <1>20, <1>21, <1>22, <1>23 DEF HandleStep

\* A step of a handle is about that handle; a process that failed or ended stays
\* so, and what told an owner to stop is never taken back.
LEMMA HandleStepSets ==
  ASSUME ClaimsInv, NEW i \in Incs, HandleStep(i)
  PROVE  /\ handle' = [handle EXCEPT ![i] = handle'[i]]
         /\ UNCHANGED <<aged, op, evicted, local>>
         /\ ~At(i, "failed")
         /\ Owner(i) => Owner(i)' \/ At(i, "crashed")'
         /\ ~At(i, "crashed")
         /\ handle[i].stop => handle'[i].stop
         /\ handle[i].lost => handle'[i].lost
<1>1. handle \in [Incs -> HandleState] /\ handle[i] \in HandleState
  BY HandleTypes DEF ClaimsInv, TypeOK
<1>2. ASSUME NEW g, Become(i, g)
      PROVE  handle' = [handle EXCEPT ![i] = handle'[i]] /\ handle'[i] = g
  BY <1>1, <1>2 DEF Become
<1>3. (\E g : Become(i, g)) /\ UNCHANGED <<aged, op, evicted, local>>
  BY DEF HandleStep, AcquireCreates, AcquireFindsRecord, AcquireRaises, TakeOverReads,
     TakeOverReplaces, TakeOverFails, BeatStarts, BeatCommits, BeatRefused, BeatRaises,
     Reconcile, ReconcileReadFails, Confirm, ReleaseStarts, ReleaseTimesOut, RetireCommits,
     RetireRefused, RetireRaises, RetireRereads, Crash
<1>4. ~At(i, "failed") /\ ~At(i, "crashed")
  BY DEF HandleStep, AcquireCreates, AcquireFindsRecord, AcquireRaises, TakeOverReads,
     TakeOverReplaces, TakeOverFails, BeatStarts, BeatCommits, BeatRefused, BeatRaises,
     Reconcile, ReconcileReadFails, Confirm, ReleaseStarts, ReleaseTimesOut, RetireCommits,
     RetireRefused, RetireRaises, RetireRereads, Crash, MayBeat, At
<1>5. ASSUME NEW h \in HandleState, NEW where
      PROVE  Idle(h, where).pc = where /\ Idle(h, where).stop = h.stop /\ Idle(h, where).lost = h.lost
  BY DEF Idle, HandleState
<1>6. ASSUME NEW h \in HandleState, NEW r
      PROVE  /\ Adopted(h, r).pc = "held" /\ Adopted(h, r).stop = h.stop /\ Adopted(h, r).lost = h.lost
             /\ Lost(h).pc = "held" /\ Lost(h).stop = h.stop /\ Lost(h).lost
             /\ LostRelease(h).pc = "released" /\ LostRelease(h).stop = h.stop /\ LostRelease(h).lost
  BY DEF Adopted, Lost, LostRelease, Idle, HandleState
<1>7. /\ Owner(i) => Owner(i)' \/ At(i, "crashed")'
      /\ handle[i].stop => handle'[i].stop
      /\ handle[i].lost => handle'[i].lost
  <2>1. CASE \/ AcquireCreates(i) \/ AcquireFindsRecord(i) \/ AcquireRaises(i)
             \/ TakeOverReads(i) \/ TakeOverReplaces(i) \/ TakeOverFails(i)
    <3>1. handle[i].pc \in {"new", "taking", "replacing"}
      BY <2>1 DEF AcquireCreates, AcquireFindsRecord, AcquireRaises, TakeOverReads,
         TakeOverReplaces, TakeOverFails, At
    <3> QED
      BY <3>1, HandleTypes DEF Owner, HandleInv, NewHandleIsClean
  <2>2. CASE BeatStarts(i) \/ BeatRefused(i) \/ BeatRaises(i)
    <3>1. CASE BeatStarts(i)
      BY <1>1, <3>1 DEF BeatStarts, Become, Owner, HandleState
    <3>2. CASE BeatRefused(i)
      BY <1>1, <3>2 DEF BeatRefused, Become, Owner, HandleState
    <3>3. CASE BeatRaises(i)
      BY <1>1, <3>3 DEF BeatRaises, Become, Owner, HandleState
    <3> QED
      BY <2>2, <3>1, <3>2, <3>3
  <2>3. CASE BeatCommits(i)
    BY <1>1, <1>2, <1>6, <2>3 DEF BeatCommits, Owner, At, HandleState
  <2>4. CASE Reconcile(i)
    BY <1>1, <1>2, <1>5, <1>6, <2>4 DEF Reconcile, Reconciled, Owner, At
  <2>5. CASE ReconcileReadFails(i)
    <3>1. ASSUME NEW h \in HandleState
          PROVE  /\ [Lost(h) EXCEPT !.blind = TRUE].pc = "held"
                 /\ [Lost(h) EXCEPT !.blind = TRUE].stop = h.stop
                 /\ [Lost(h) EXCEPT !.blind = TRUE].lost
      BY DEF Lost, Idle, HandleState
    <3>2. \/ handle'[i] = [Lost(handle[i]) EXCEPT !.blind = TRUE]
          \/ handle'[i] = Idle(handle[i], "held")
      BY <1>1, <2>5 DEF ReconcileReadFails, Become
    <3>3. handle'[i].pc = "held" /\ handle'[i].stop = handle[i].stop /\ (handle[i].lost => handle'[i].lost)
      <4>1. Idle(handle[i], "held").pc = "held" /\ Idle(handle[i], "held").stop = handle[i].stop
            /\ Idle(handle[i], "held").lost = handle[i].lost
        BY <1>1, <1>5
      <4>2. /\ [Lost(handle[i]) EXCEPT !.blind = TRUE].pc = "held"
            /\ [Lost(handle[i]) EXCEPT !.blind = TRUE].stop = handle[i].stop
            /\ [Lost(handle[i]) EXCEPT !.blind = TRUE].lost
        BY <1>1, <3>1
      <4> QED
        BY <3>2, <4>1, <4>2
    <3> QED
      BY <3>3 DEF Owner
  <2>6. CASE Confirm(i)
    BY <1>1, <1>2, <1>6, <2>6 DEF Confirm, Confirmed, Owner, At, HandleState
  <2>7. CASE ReleaseStarts(i) \/ ReleaseTimesOut(i) \/ RetireRefused(i)
    <3>1. CASE ReleaseStarts(i)
      BY <1>1, <3>1 DEF ReleaseStarts, Become, Owner, HandleState
    <3>2. CASE ReleaseTimesOut(i)
      BY <1>1, <3>2 DEF ReleaseTimesOut, Become, Owner, At, HandleState
    <3>3. CASE RetireRefused(i)
      BY <1>1, <3>3 DEF RetireRefused, Become, Owner, HandleState
    <3> QED
      BY <2>7, <3>1, <3>2, <3>3
  <2>8. CASE RetireCommits(i)
    BY <1>1, <1>2, <1>5, <2>8 DEF RetireCommits, Owner, At, HandleState
  <2>9. CASE RetireRaises(i)
    BY <1>1, <2>9 DEF RetireRaises, Become, Idle, Owner, At, HandleState
  <2>10. CASE RetireRereads(i)
    <3>1. \/ handle'[i] = Idle(handle[i], "released")
          \/ handle'[i] = [handle[i] EXCEPT !.pc = "retiring", !.arg = rec.rev, !.retried = TRUE]
          \/ handle'[i] = LostRelease(handle[i])
          \/ handle'[i] = Idle(handle[i], "held")
      BY <1>1, <2>10 DEF RetireRereads, AfterRefusal, Become
    <3>2. /\ handle'[i].pc \in {"held", "released", "retiring"} /\ handle'[i].stop = handle[i].stop
          /\ handle[i].lost => handle'[i].lost
      <4>1. ASSUME NEW where
            PROVE  Idle(handle[i], where).pc = where /\ Idle(handle[i], where).stop = handle[i].stop
                   /\ Idle(handle[i], where).lost = handle[i].lost
        BY <1>1, <1>5
      <4>2. LostRelease(handle[i]).pc = "released" /\ LostRelease(handle[i]).stop = handle[i].stop
            /\ LostRelease(handle[i]).lost
        BY <1>1, <1>6
      <4>3. ASSUME handle'[i] = [handle[i] EXCEPT !.pc = "retiring", !.arg = rec.rev, !.retried = TRUE]
            PROVE  /\ handle'[i].pc = "retiring" /\ handle'[i].stop = handle[i].stop
                   /\ handle'[i].lost = handle[i].lost
        BY <1>1, <4>3 DEF HandleState
      <4> QED
        BY <3>1, <4>1, <4>2, <4>3
    <3> QED
      BY <3>2 DEF Owner
  <2>11. CASE Crash(i)
    BY <1>1, <1>2, <1>5, <2>11 DEF Crash, Owner, At
  <2> QED
    BY <2>1, <2>2, <2>3, <2>4, <2>5, <2>6, <2>7, <2>8, <2>9, <2>10, <2>11 DEF HandleStep
<1> QED
  BY <1>2, <1>3, <1>4, <1>7

\* What a step of a handle does to the record: nothing, or it stores a held
\* generation of its own where no other is held, or it retires its own after it
\* was told to stop.
LEMMA HandleStepRecord ==
  ASSUME ClaimsInv, NEW i \in Incs, HandleStep(i)
  PROVE  \/ rec' = rec
         \/ /\ (~IsHeld /\ ~Holds(i)) \/ Mine(i)
            /\ \E r \in 1..MaxRev : rec' = HeldRecord(i, r)
         \/ Mine(i) /\ rec' = Retired(rec) /\ handle[i].stop /\ UNCHANGED late
<1>1. /\ handle[i] \in HandleState /\ HandleInv(i) /\ rec \in Record \cup {NoRecord}
      /\ 1 \in 1..MaxRev
  BY HandleTypes, ClaimsAssumption
<1>2. CASE AcquireCreates(i)
  BY <1>1, <1>2 DEF AcquireCreates, IsHeld, Holds, At
<1>3. CASE TakeOverReplaces(i)
  BY <1>1, <1>3 DEF TakeOverReplaces, IsHeld, HandleInv, TakeOverSeesReleased, IsCurrent,
     ValidatorOf, Held, Released, Holds, At
<1>4. CASE BeatCommits(i)
  <2>1. Mine(i) /\ handle[i].arg \in 1..MaxRev
    BY <1>1, <1>4, HandleTypes DEF BeatCommits, IsCurrent, ValidatorOf, Own, Mine, IsHeld, HandleState
  <2> QED
    BY <1>4, <2>1 DEF BeatCommits
<1>5. CASE RetireCommits(i)
  BY <1>1, <1>5 DEF RetireCommits, HandleInv, StopsFirst, IsCurrent, ValidatorOf, Target, Mine,
     IsHeld, At
<1> QED
  BY <1>2, <1>3, <1>4, <1>5 DEF HandleStep, AcquireFindsRecord, AcquireRaises, TakeOverReads,
     TakeOverFails, BeatStarts, BeatRefused, BeatRaises, Reconcile, ReconcileReadFails, Confirm,
     ReleaseStarts, ReleaseTimesOut, RetireRefused, RetireRaises, RetireRereads, Crash

\* The requests a step of a handle leaves behind are orderly.
LEMMA HandleStepLate ==
  ASSUME ClaimsInv, NEW i \in Incs, HandleStep(i), NEW w \in late', w \notin late
  PROVE  w \in Request /\ w.inc = i /\ LateIsOrderly(w)'
<1>1. /\ handle \in [Incs -> HandleState] /\ handle[i] \in HandleState /\ HandleInv(i)
      /\ 1 \in 1..MaxRev
  BY HandleTypes, ClaimsAssumption DEF ClaimsInv, TypeOK
<1>2. CASE AcquireRaises(i)
  <2>1. w = CreateRequest(i) /\ At(i, "failed")'
    BY <1>1, <1>2 DEF AcquireRaises, Unanswered, Become, Idle, At, HandleState
  <2> QED
    BY <1>1, <2>1 DEF CreateRequest, Request, LateIsOrderly
<1>3. CASE TakeOverFails(i)
  <2>1. w = ReplaceRequest(i) /\ At(i, "failed")' /\ At(i, "replacing")
    BY <1>1, <1>3 DEF TakeOverFails, Unanswered, Become, Idle, At, HandleState
  <2>2. handle[i].seen \in Validator /\ handle[i].seen[3] = Released
    BY <1>1, <2>1 DEF HandleInv, TakeOverSeesReleased
  <2> QED
    BY <1>1, <2>1, <2>2 DEF ReplaceRequest, Request, LateIsOrderly
<1>4. CASE BeatRaises(i)
  <2>1. w = BeatRequest(i) /\ Owner(i)'
    BY <1>1, <1>4 DEF BeatRaises, Unanswered, Become, Owner, HandleState
  <2>2. Own(i) \in Validator /\ Own(i)[1] = i /\ Own(i)[3] = Held
    BY <1>1 DEF Own, Validator, HandleState
  <2>3. handle[i].arg \in 1..MaxRev
    BY <1>1, <1>4, HandleTypes DEF BeatRaises, HandleState
  <2> QED
    BY <2>1, <2>2, <2>3 DEF BeatRequest, Request, LateIsOrderly
<1>5. CASE RetireRaises(i)
  <2>1. w = RetireRequest(i, Target(i), "handle") /\ handle'[i].stop
    BY <1>1, <1>5 DEF RetireRaises, Unanswered, Become, Idle, At, HandleState, HandleInv, StopsFirst
  <2>2. handle[i].arg \in 1..MaxRev
    BY <1>1, <1>5, HandleTypes DEF RetireRaises, HandleInv, RefusedMeansMoved, HandleState
  <2>3. Target(i) \in Validator /\ Target(i)[1] = i /\ Target(i)[2] = handle[i].arg /\ Target(i)[3] = Held
    BY <2>2 DEF Target, Validator
  <2> QED
    BY <2>1, <2>2, <2>3 DEF RetireRequest, Request, LateIsOrderly
<1> QED
  BY <1>2, <1>3, <1>4, <1>5 DEF HandleStep, AcquireCreates, AcquireFindsRecord, TakeOverReads,
     TakeOverReplaces, BeatStarts, BeatCommits, BeatRefused, Reconcile, ReconcileReadFails, Confirm,
     ReleaseStarts, ReleaseTimesOut, RetireCommits, RetireRefused, RetireRereads, Crash

\* A step of a handle keeps the invariant.
LEMMA HandleStepKeepsInv ==
  ASSUME ClaimsInv, NEW i \in Incs, HandleStep(i)
  PROVE  ClaimsInv'
<1>1. /\ handle' = [handle EXCEPT ![i] = handle'[i]] /\ handle'[i] \in HandleState
      /\ handle' \in [Incs -> HandleState]
      /\ \A j \in Incs \ {i} : handle'[j] = handle[j]
      /\ UNCHANGED <<aged, op, evicted, local>>
  BY HandleStepSets, HandleTypeKept DEF ClaimsInv, TypeOK
<1>2. /\ rec \in Record \cup {NoRecord} /\ rec' \in Record \cup {NoRecord}
      /\ \A j \in Incs \ {i} : (Mine(j)' <=> Mine(j)) /\ (Mine(j) => rec' = rec)
  <2>1. rec \in Record \cup {NoRecord}
    BY HandleTypes
  <2>2. CASE rec' = rec
    BY <2>1, <2>2 DEF Mine, IsHeld
  <2>3. CASE (~IsHeld \/ Mine(i)) /\ \E r \in 1..MaxRev : rec' = HeldRecord(i, r)
    BY <2>1, <2>3 DEF Mine, IsHeld, HeldRecord, Record, Held
  <2>4. CASE Mine(i) /\ rec' = Retired(rec)
    BY <2>1, <2>4 DEF Mine, IsHeld, Retired, Record, NoRecord, Held, Released
  <2> QED
    BY <2>1, <2>2, <2>3, <2>4, HandleStepRecord
<1>3. ASSUME NEW w \in late' PROVE w \in Request /\ LateIsOrderly(w)' /\ (w \in late \/ w.inc = i)
  <2>1. CASE w \in late
    <3>1. LateIsOrderly(w) /\ w \in Request
      BY <2>1 DEF ClaimsInv, TypeOK
    <3>2. w.inc \in Incs
      BY <3>1 DEF Request
    <3>3. /\ At(w.inc, "failed") => At(w.inc, "failed")'
          /\ Owner(w.inc) \/ At(w.inc, "crashed") => Owner(w.inc)' \/ At(w.inc, "crashed")'
          /\ handle[w.inc].stop => handle'[w.inc].stop
      BY <1>1, <3>2, HandleStepSets DEF At, Owner
    <3> QED
      BY <1>1, <2>1, <3>1, <3>3 DEF LateIsOrderly
  <2> QED
    BY <2>1, HandleStepLate
<1>4. TypeOK'
  BY <1>1, <1>2, <1>3 DEF ClaimsInv, TypeOK
<1>5. ASSUME NEW j \in Incs PROVE HandleInv(j)'
  <2>1. CASE j = i
    BY <2>1, HandleInvKept
  <2>2. CASE j # i
    <3>1. LateBeats(j)' \subseteq LateBeats(j)
      BY <1>3, <2>2 DEF LateBeats
    <3>2. HandleInv(j)
      BY DEF ClaimsInv
    <3> QED
      BY <1>1, <1>2, <2>2, <3>1, <3>2, OthersKeep
  <2> QED
    BY <2>1, <2>2
<1>6. ASSUME NEW o \in Ops PROVE OperatorSawHeld(o)'
  BY <1>1 DEF ClaimsInv, OperatorSawHeld
<1> QED
  BY <1>3, <1>4, <1>5, <1>6 DEF ClaimsInv

-----------------------------------------------------------------------------
(* Steps of operators, of the store and of time.                           *)

\* Steps that leave the handles alone keep the invariant if they store nothing
\* as held but a late heartbeat or a fresh grant.
LEMMA LateWriteKeepsInv ==
  ASSUME ClaimsInv, NEW v \in late, LateWrite(v)
  PROVE  ClaimsInv'
<1>1. /\ UNCHANGED <<handle, aged, op, local>> /\ late' \subseteq late
      /\ rec \in Record \cup {NoRecord} /\ v \in Request /\ LateIsOrderly(v)
      /\ evicted \subseteq evicted'
  BY DEF LateWrite, ClaimsInv, TypeOK
<1>2. v.inc \in Incs /\ v.rev \in 1..MaxRev
  BY <1>1 DEF Request
<1>3. CASE UNCHANGED <<rec, evicted>>
  <2>1. ASSUME NEW j \in Incs PROVE HandleInv(j)'
    <3>1. LateBeats(j)' \subseteq LateBeats(j) /\ HandleInv(j) /\ (Mine(j)' <=> Mine(j))
      BY <1>1, <1>3 DEF LateBeats, ClaimsInv, Mine, IsHeld
    <3> QED
      BY <1>1, <1>3, <3>1, OthersKeep
  <2> QED
    BY <1>1, <1>3, <2>1 DEF ClaimsInv, TypeOK, LateIsOrderly, OperatorSawHeld, At, Owner
<1>4. CASE /\ Applies(v) /\ v.kind = "retire" /\ rec' = Retired(rec)
           /\ evicted' = IF v.by = "handle" THEN evicted ELSE evicted \cup {v.inc}
  <2>1. Mine(v.inc) /\ ~IsHeld' /\ rec' \in Record \cup {NoRecord}
    BY <1>1, <1>4 DEF Applies, IsCurrent, ValidatorOf, LateIsOrderly, Mine, IsHeld, Retired,
       Record, NoRecord, Held, Released
  <2>2. v.by = "handle" => handle[v.inc].stop
    BY <1>1, <1>4 DEF LateIsOrderly
  <2>3. ASSUME NEW j \in Incs PROVE HandleInv(j)'
    <3>1. LateBeats(j)' \subseteq LateBeats(j) /\ HandleInv(j) /\ ~Mine(j)'
      BY <1>1, <2>1 DEF LateBeats, ClaimsInv, Mine
    <3>2. Mine(j) => j \in evicted' \/ handle[j].stop
      BY <1>4, <2>1, <2>2 DEF Mine
    <3> QED
      BY <1>1, <2>1, <3>1, <3>2, OthersKeep
  <2>4. TypeOK'
    BY <1>1, <1>2, <1>4, <2>1 DEF ClaimsInv, TypeOK
  <2> QED
    BY <1>1, <2>3, <2>4 DEF ClaimsInv, LateIsOrderly, OperatorSawHeld, At, Owner
<1>5. CASE Applies(v) /\ v.kind # "retire" /\ rec' = HeldRecord(v.inc, v.rev) /\ UNCHANGED evicted
  <2>1. /\ rec' \in Record /\ IsHeld' /\ rec'.inc = v.inc /\ rec'.rev = v.rev
        /\ \A j \in Incs : Mine(j)' <=> j = v.inc
    BY <1>2, <1>5 DEF HeldRecord, Record, IsHeld, Mine, NoRecord, Held
  <2>2. \/ ~IsHeld /\ At(v.inc, "failed")
        \/ /\ Mine(v.inc) /\ rec.rev = v.expect[2] /\ v \in LateBeats(v.inc)
           /\ Owner(v.inc) \/ At(v.inc, "crashed")
    BY <1>1, <1>5 DEF Applies, IsCurrent, ValidatorOf, LateIsOrderly, LateBeats, IsHeld, Mine,
       Request, Held, Released
  <2>3. ASSUME NEW j \in Incs, j # v.inc PROVE HandleInv(j)'
    <3>1. LateBeats(j)' \subseteq LateBeats(j) /\ HandleInv(j) /\ ~Mine(j)' /\ ~Mine(j)
      BY <1>1, <2>1, <2>2, <2>3 DEF LateBeats, ClaimsInv, Mine
    <3> QED
      BY <1>1, <1>5, <2>1, <3>1, OthersKeep
  <2>4. HandleInv(v.inc)'
    <3> DEFINE i == v.inc
    <3>1. /\ HandleInv(i) /\ LateBeats(i)' \subseteq LateBeats(i) /\ handle[i] \in HandleState
          /\ handle'[i] = handle[i]
      BY <1>1, <1>2, HandleTypes DEF LateBeats, ClaimsInv
    <3>2. CASE ~IsHeld /\ At(i, "failed")
      BY <1>1, <2>1, <3>1, <3>2 DEF HandleInv, StopsFirst, TakeOverSeesReleased, NewHandleIsClean,
         HeldIsIdle, RevisionsAdvance, LateBeatsAreKnown, Recognised, RefusedMeansMoved,
         LossIsFinal, BlindHandleRests, OwnsRecord, LosesNothing, Owner, Holds, At
    <3>3. CASE At(i, "crashed")
      BY <1>1, <2>1, <3>1, <3>3 DEF HandleInv, StopsFirst, TakeOverSeesReleased, NewHandleIsClean,
         HeldIsIdle, RevisionsAdvance, LateBeatsAreKnown, Recognised, RefusedMeansMoved,
         LossIsFinal, BlindHandleRests, OwnsRecord, LosesNothing, Owner, Holds, At, Mine
    <3>4. CASE Mine(i) /\ rec.rev = v.expect[2] /\ v \in LateBeats(i) /\ Owner(i)
      <4>1. /\ rec.rev \in Nat /\ handle[i].rev \in Nat /\ v.rev \in Nat
            /\ handle[i].unconfirmed \subseteq Nat /\ handle[i].arg \in Nat
        BY <1>1, <1>2, <3>1, <3>4 DEF Mine, IsHeld, Record, HandleState
      <4>2. rec.rev = handle[i].rev /\ v.rev \in handle[i].unconfirmed /\ handle[i].rev < v.rev
        BY <3>1, <3>4, <4>1 DEF HandleInv, RevisionsAdvance, LateBeatsAreKnown
      <4>3. /\ ~At(i, "refused") /\ ~At(i, "rereading")
            /\ ~(At(i, "retiring") /\ handle[i].retried)
            /\ ~handle[i].blind => ~handle[i].lost /\ ~At(i, "released")
        BY <3>1, <3>4, <4>1, <4>2 DEF HandleInv, RefusedMeansMoved, LossIsFinal
      <4> QED
        <5>1. /\ StopsFirst(i)' /\ TakeOverSeesReleased(i)' /\ NewHandleIsClean(i)' /\ HeldIsIdle(i)'
              /\ BlindHandleRests(i)' /\ LosesNothing(i)'
          BY <1>5, <3>1 DEF HandleInv, StopsFirst, TakeOverSeesReleased, NewHandleIsClean,
             HeldIsIdle, BlindHandleRests, LosesNothing, At
        <5>2. RevisionsAdvance(i)'
          BY <2>1, <3>1, <3>4, <4>1, <4>2 DEF HandleInv, RevisionsAdvance, Owner
        <5>3. LateBeatsAreKnown(i)'
          BY <3>1, <3>4 DEF HandleInv, LateBeatsAreKnown, Owner
        <5>4. Recognised(i)' /\ OwnsRecord(i)'
          BY <1>2, <2>1, <3>1, <4>2 DEF Recognised, OwnsRecord
        <5>5. RefusedMeansMoved(i)' /\ LossIsFinal(i)'
          BY <2>1, <3>1, <3>4, <4>1, <4>2, <4>3 DEF HandleInv, RefusedMeansMoved, LossIsFinal, At, Owner
        <5> QED
          BY <5>1, <5>2, <5>3, <5>4, <5>5 DEF HandleInv
    <3> QED
      BY <2>2, <3>2, <3>3, <3>4
  <2>5. TypeOK'
    BY <1>1, <1>5, <2>1 DEF ClaimsInv, TypeOK
  <2> QED
    BY <1>1, <2>3, <2>4, <2>5 DEF ClaimsInv, LateIsOrderly, OperatorSawHeld, At, Owner
<1> QED
  BY <1>3, <1>4, <1>5 DEF LateWrite

\* The steps of an operator keep the invariant.
LEMMA OperatorKeepsInv ==
  ASSUME ClaimsInv, NEW o \in Ops, OperatorStep(o)
  PROVE  ClaimsInv'
<1>1. /\ UNCHANGED <<handle, aged, local>> /\ rec \in Record \cup {NoRecord}
      /\ op \in [Ops -> OperatorState] /\ op[o] \in OperatorState /\ OperatorSawHeld(o)
  BY DEF OperatorStep, ClearReads, ListClaim, RecheckClaim, OperatorRetires, OperatorRefused,
     ClaimsInv, TypeOK
<1>2. IsHeld => ValidatorOf(rec) \in Validator /\ ValidatorOf(rec)[1] = rec.inc
                /\ ValidatorOf(rec)[2] = rec.rev /\ ValidatorOf(rec)[3] = Held
  BY <1>1 DEF IsHeld, ValidatorOf, Validator, Record
<1>3. ASSUME NEW s \in OperatorState, SetOp(o, s)
      PROVE  op' \in [Ops -> OperatorState] /\ op'[o] = s /\ \A p \in Ops \ {o} : op'[p] = op[p]
  BY <1>1, <1>3 DEF SetOp
<1>4. IdleOperator \in OperatorState /\ IdleOperator.pc = "idle"
  BY DEF IdleOperator, OperatorState
<1>5. op' \in [Ops -> OperatorState] /\ \A p \in Ops : OperatorSawHeld(p)'
  <2>1. \A p \in Ops : OperatorSawHeld(p)
    BY DEF ClaimsInv
  <2>2. ASSUME NEW s \in OperatorState, SetOp(o, s), IsHeld, s.seen = ValidatorOf(rec),
               s.staleOnly => IsStale
        PROVE  op' \in [Ops -> OperatorState] /\ \A p \in Ops : OperatorSawHeld(p)'
    <3>1. op' \in [Ops -> OperatorState] /\ op'[o] = s /\ \A p \in Ops \ {o} : op'[p] = op[p]
      BY <1>3, <2>2
    <3>2. OperatorSawHeld(o)'
      BY <1>1, <1>2, <2>2, <3>1 DEF OperatorSawHeld, IsStale
    <3>3. ASSUME NEW p \in Ops \ {o} PROVE OperatorSawHeld(p)'
      BY <1>1, <2>1, <3>1 DEF OperatorSawHeld
    <3> QED
      BY <3>1, <3>2, <3>3
  <2>3. ASSUME SetOp(o, IdleOperator)
        PROVE  op' \in [Ops -> OperatorState] /\ \A p \in Ops : OperatorSawHeld(p)'
    BY <1>1, <1>3, <1>4, <2>1, <2>3 DEF OperatorSawHeld
  <2>4. ASSUME NEW force \in BOOLEAN, ClearReads(o, force)
        PROVE  op' \in [Ops -> OperatorState] /\ \A p \in Ops : OperatorSawHeld(p)'
    <3> DEFINE s == [pc |-> "clearing", staleOnly |-> ~force, seen |-> ValidatorOf(rec)]
    <3>1. SetOp(o, s) /\ IsHeld /\ (~force => IsStale)
      BY <2>4 DEF ClearReads
    <3>2. s \in OperatorState
      BY <1>2, <3>1 DEF OperatorState
    <3> QED
      BY <2>2, <3>1, <3>2
  <2>5. ASSUME NEW staleOnly \in BOOLEAN, ListClaim(o, staleOnly)
        PROVE  op' \in [Ops -> OperatorState] /\ \A p \in Ops : OperatorSawHeld(p)'
    <3> DEFINE s == [pc |-> "listed", staleOnly |-> staleOnly, seen |-> ValidatorOf(rec)]
    <3>1. SetOp(o, s) /\ IsHeld /\ (staleOnly => IsStale)
      BY <2>5 DEF ListClaim
    <3>2. s \in OperatorState
      BY <1>2, <3>1 DEF OperatorState
    <3> QED
      BY <2>2, <3>1, <3>2
  <2>6. ASSUME RecheckClaim(o)
        PROVE  op' \in [Ops -> OperatorState] /\ \A p \in Ops : OperatorSawHeld(p)'
    <3>1. CASE Unchanged(o)
      <4> DEFINE s == [op[o] EXCEPT !.pc = "clearing", !.seen = ValidatorOf(rec)]
      <4>1. SetOp(o, s)
        BY <2>6, <3>1 DEF RecheckClaim
      <4>2. IsHeld /\ (op[o].staleOnly => IsStale)
        BY <3>1 DEF Unchanged
      <4>3. s \in OperatorState /\ s.seen = ValidatorOf(rec) /\ s.staleOnly = op[o].staleOnly
        BY <1>1, <1>2, <4>2 DEF OperatorState
      <4> QED
        BY <2>2, <4>1, <4>2, <4>3
    <3>2. CASE ~Unchanged(o)
      BY <2>3, <2>6, <3>2 DEF RecheckClaim
    <3> QED
      BY <3>1, <3>2
  <2>7. ASSUME OperatorRetires(o) \/ OperatorRefused(o)
        PROVE  op' \in [Ops -> OperatorState] /\ \A p \in Ops : OperatorSawHeld(p)'
    BY <2>3, <2>7 DEF OperatorRetires, OperatorRefused
  <2> QED
    BY <2>4, <2>5, <2>6, <2>7 DEF OperatorStep
<1>6. CASE OperatorRetires(o)
  <2>1. /\ IsHeld /\ ~IsHeld' /\ rec' \in Record \cup {NoRecord}
        /\ evicted' = evicted \cup {rec.inc} /\ rec.inc \in Incs /\ late' = late
    BY <1>1, <1>6 DEF OperatorRetires, OperatorSawHeld, IsCurrent, ValidatorOf, IsHeld, Retired,
       Record, NoRecord, Held, Released
  <2>2. ASSUME NEW j \in Incs PROVE HandleInv(j)'
    <3>1. LateBeats(j)' \subseteq LateBeats(j) /\ HandleInv(j) /\ ~Mine(j)'
          /\ (Mine(j) => j \in evicted')
      BY <2>1 DEF LateBeats, ClaimsInv, Mine
    <3> QED
      BY <1>1, <2>1, <3>1, OthersKeep
  <2>3. TypeOK'
    BY <1>1, <1>5, <2>1 DEF ClaimsInv, TypeOK
  <2> QED
    BY <1>1, <1>5, <2>1, <2>2, <2>3 DEF ClaimsInv, LateIsOrderly, At, Owner
<1>7. CASE ~OperatorRetires(o)
  <2>1. UNCHANGED <<rec, evicted>>
    BY <1>7 DEF OperatorStep, ClearReads, ListClaim, RecheckClaim, OperatorRefused
  <2>2. ASSUME NEW w \in late', w \notin late
        PROVE  w \in Request /\ w.kind = "retire" /\ LateIsOrderly(w)'
    <3>1. w = RetireRequest(op[o].seen[1], op[o].seen, Clearer(o)) /\ op[o].pc = "clearing"
      BY <1>7, <2>2 DEF OperatorStep, ClearReads, ListClaim, RecheckClaim, OperatorRefused, Unanswered
    <3>2. op[o].seen \in Validator /\ op[o].seen[3] = Held
      BY <1>1, <3>1 DEF OperatorSawHeld
    <3>3. op[o].seen[1] \in Incs /\ op[o].seen[2] \in 1..MaxRev
      BY <3>2 DEF Validator
    <3>4. Clearer(o) = "sweep" => <<op[o].seen[1], op[o].seen[2]>> \in aged
      BY <1>1, <3>1 DEF Clearer, OperatorSawHeld
    <3>5. Clearer(o) \in {"operator", "sweep"}
      BY DEF Clearer
    <3> QED
      BY <1>1, <3>1, <3>2, <3>3, <3>4, <3>5 DEF RetireRequest, Request, LateIsOrderly
  <2>3. ASSUME NEW w \in late' PROVE w \in Request /\ LateIsOrderly(w)'
    BY <1>1, <2>2 DEF ClaimsInv, TypeOK, LateIsOrderly, At, Owner
  <2>4. ASSUME NEW j \in Incs PROVE HandleInv(j)'
    <3>1. LateBeats(j)' \subseteq LateBeats(j) /\ HandleInv(j) /\ (Mine(j)' <=> Mine(j))
      BY <2>1, <2>2 DEF LateBeats, ClaimsInv, Mine, IsHeld
    <3> QED
      BY <1>1, <2>1, <3>1, OthersKeep
  <2>5. TypeOK'
    BY <1>1, <1>5, <2>1, <2>3 DEF ClaimsInv, TypeOK
  <2> QED
    BY <1>5, <2>3, <2>4, <2>5 DEF ClaimsInv
<1> QED
  BY <1>6, <1>7

\* Time passing keeps the invariant.
LEMMA GoStaleKeepsInv ==
  ASSUME ClaimsInv, NEW i \in Incs, NEW r \in 1..MaxRev, GoStale(i, r)
  PROVE  ClaimsInv'
<1>1. UNCHANGED <<rec, handle, late, op, evicted, local>> /\ aged' = aged \cup {<<i, r>>}
  BY DEF GoStale
<1>2. TypeOK'
  BY <1>1 DEF ClaimsInv, TypeOK
<1>3. ASSUME NEW j \in Incs PROVE HandleInv(j)'
  <2>1. /\ LateBeats(j)' = LateBeats(j) /\ HandleInv(j)
        /\ (Mine(j)' <=> Mine(j)) /\ rec \in Record \cup {NoRecord}
    BY <1>1 DEF LateBeats, ClaimsInv, TypeOK, Mine, IsHeld
  <2> QED
    BY <1>1, <2>1, OthersKeep
<1> QED
  BY <1>1, <1>2, <1>3 DEF ClaimsInv, LateIsOrderly, OperatorSawHeld, At, Owner

-----------------------------------------------------------------------------
(* Theorems.                                                               *)

LEMMA InitHolds == Init => ClaimsInv
<1> SUFFICES ASSUME Init PROVE ClaimsInv
  OBVIOUS
<1>1. NewHandle \in HandleState
  BY ClaimsAssumption DEF NewHandle, HandleState, Pcs
<1>2. handle = [i \in Incs |-> NewHandle] /\ rec = NoRecord /\ late = {} /\ evicted = {}
  BY DEF Init
<1>3. TypeOK
  BY <1>1, <1>2 DEF Init, TypeOK, IdleOperator, OperatorState
<1>4. ASSUME NEW i \in Incs PROVE HandleInv(i)
  BY <1>2 DEF NewHandle, HandleInv, StopsFirst, TakeOverSeesReleased, NewHandleIsClean,
     HeldIsIdle, RevisionsAdvance, LateBeatsAreKnown, Recognised, RefusedMeansMoved, LossIsFinal,
     BlindHandleRests, OwnsRecord, LosesNothing, Owner, Holds, At
<1>5. ASSUME NEW o \in Ops PROVE OperatorSawHeld(o)
  BY DEF Init, OperatorSawHeld, IdleOperator
<1> QED
  BY <1>2, <1>3, <1>4, <1>5 DEF ClaimsInv

LEMMA NextKeepsInv == ClaimsInv /\ [Next]_vars => ClaimsInv'
<1> SUFFICES ASSUME ClaimsInv, [Next]_vars PROVE ClaimsInv'
  OBVIOUS
<1>1. CASE UNCHANGED vars
  BY <1>1 DEF vars, ClaimsInv, TypeOK, HandleInv, StopsFirst, TakeOverSeesReleased,
     NewHandleIsClean, HeldIsIdle, RevisionsAdvance, LateBeatsAreKnown, Recognised,
     RefusedMeansMoved, LossIsFinal, BlindHandleRests, OwnsRecord, LosesNothing, Owner, Holds, At,
     Mine, IsHeld, LateBeats, LateIsOrderly, OperatorSawHeld
<1> QED
  BY <1>1, HandleStepKeepsInv, OperatorKeepsInv, LateWriteKeepsInv, GoStaleKeepsInv DEF Next

\* Whatever answers are lost, requests applied late and operators at work, the
\* claim keeps its types and its inductive invariant.
LEMMA InvariantHolds == Spec => []ClaimsInv
BY InitHolds, NextKeepsInv, PTL DEF Spec

\* The record, the handles and the requests keep their types (claims.py).
THEOREM TypeCorrect == Spec => []TypeOK
<1>1. ClaimsInv => TypeOK
  BY DEF ClaimsInv
<1> QED
  BY <1>1, InvariantHolds, PTL

\* An owner that still acts on its claim has the held record of its acquisition,
\* unless an operator cleared it (ClaimHandle).
THEOREM OwnerHasRecord == Spec => []HolderOwnsRecord
<1>1. ClaimsInv => HolderOwnsRecord
  BY DEF ClaimsInv, HandleInv, OwnsRecord, HolderOwnsRecord
<1> QED
  BY <1>1, InvariantHolds, PTL

\* Lost answers and late heartbeats alone never cost an owner its claim (_reconcile, confirm).
THEOREM LossHasCause == Spec => []NoSpuriousLoss
<1>1. ClaimsInv => NoSpuriousLoss
  BY DEF ClaimsInv, HandleInv, LosesNothing, NoSpuriousLoss
<1> QED
  BY <1>1, InvariantHolds, PTL

\* After release returned, the record is not held again in its name
\* (release, _retire_own_record, _own_validator_after_refusal).
THEOREM ReleaseIsFinal == Spec => []ReleaseLeavesNoClaim
<1>1. ClaimsInv => ReleaseLeavesNoClaim
  BY DEF ClaimsInv, HandleInv, LossIsFinal, Owner, At, ReleaseLeavesNoClaim
<1> QED
  BY <1>1, InvariantHolds, PTL

\* A stale-only clear removes only what is stale (release_claim_if_unchanged).
THEOREM SweepsAreSafe == Spec => []SweepSparesLiveClaims
<1>1. ClaimsInv => SweepSparesLiveClaims
  BY DEF ClaimsInv, OperatorSawHeld, LateIsOrderly, SweepSparesLiveClaims, IsCurrent, ValidatorOf, IsStale
<1> QED
  BY <1>1, InvariantHolds, PTL

\* A held claim passes on only through a release or a clear (_take_over_released).
THEOREM ClaimIsNotDisplaced == Spec => NoDisplacement
<1>1. ClaimsInv /\ [Next]_vars => [IsHeld /\ IsHeld' => rec'.inc = rec.inc]_vars
  <2> SUFFICES ASSUME ClaimsInv, Next, IsHeld, IsHeld' PROVE rec'.inc = rec.inc
    BY DEF vars, IsHeld
  <2>0. rec \in Record
    BY DEF ClaimsInv, TypeOK, IsHeld
  <2>1. ASSUME NEW i \in Incs, HandleStep(i) PROVE rec'.inc = rec.inc
    BY <2>1, <2>0, HandleStepRecord, HeldRecordIsHeld, RetiredIsNotHeld DEF Mine
  <2>2. ASSUME NEW o \in Ops, OperatorStep(o) PROVE rec'.inc = rec.inc
    BY <2>0, <2>2, RetiredIsNotHeld DEF OperatorStep, ClearReads, ListClaim, RecheckClaim,
       OperatorRetires, OperatorRefused
  <2>3. ASSUME NEW w \in late, LateWrite(w) PROVE rec'.inc = rec.inc
    <3>1. LateIsOrderly(w)
      BY <2>3 DEF ClaimsInv
    <3>2. CASE rec' = rec
      BY <3>2
    <3>3. CASE rec' = Retired(rec)
      BY <2>0, <3>3, RetiredIsNotHeld
    <3>4. CASE Applies(w) /\ w.kind # "retire" /\ rec' = HeldRecord(w.inc, w.rev)
      BY <3>1, <3>4, HeldRecordIsHeld DEF Applies, LateIsOrderly, IsCurrent, ValidatorOf, IsHeld,
         Request, Held, Released, TypeOK, ClaimsInv
    <3> QED
      BY <2>3, <3>2, <3>3, <3>4 DEF LateWrite
  <2>4. ASSUME NEW i \in Incs, NEW r \in 1..MaxRev, GoStale(i, r) PROVE rec'.inc = rec.inc
    BY <2>4 DEF GoStale
  <2> QED
    BY <2>1, <2>2, <2>3, <2>4 DEF Next
<1> QED
  BY <1>1, InvariantHolds, PTL DEF Spec, NoDisplacement

-----------------------------------------------------------------------------
(* The claim implements the lease.                                         *)

\* The grant the record stands for, and the owners that act on theirs.
Granted == IF IsHeld THEN rec.inc ELSE NoOne
Acting == {i \in Incs : Holds(i)}

\* A step of a handle changes whether it acts only for that handle, and starts
\* to act only with its own record just stored where none was held.
LEMMA HandleStepActing ==
  ASSUME ClaimsInv, NEW i \in Incs, HandleStep(i)
  PROVE  /\ Acting' = Acting \/ Acting' = Acting \cup {i} \/ Acting' = Acting \ {i}
         /\ ~Holds(i) /\ Holds(i)' => ~IsHeld /\ Mine(i)'
<1>1. /\ handle \in [Incs -> HandleState] /\ handle[i] \in HandleState /\ HandleInv(i)
      /\ \A j \in Incs \ {i} : handle'[j] = handle[j]
  BY HandleTypes, HandleStepSets DEF ClaimsInv, TypeOK
<1>2. \A j \in Incs \ {i} : Holds(j)' = Holds(j)
  BY <1>1 DEF Holds
<1>3. ASSUME ~Holds(i), Holds(i)' PROVE ~IsHeld /\ Mine(i)'
  <2>1. CASE AcquireCreates(i)
    BY <2>1, HeldRecordIsHeld DEF AcquireCreates, Mine, IsHeld
  <2>2. CASE TakeOverReplaces(i)
    BY <1>1, <2>2, HeldRecordIsHeld DEF TakeOverReplaces, Mine, IsHeld, HandleInv,
       TakeOverSeesReleased, IsCurrent, ValidatorOf, Held, Released
  <2>3. CASE AcquireFindsRecord(i)
    BY <1>1, <1>3, <2>3 DEF AcquireFindsRecord, Become, Holds, HandleState
  <2>4. CASE AcquireRaises(i) \/ TakeOverReads(i) \/ TakeOverFails(i)
    <3>1. handle'[i].pc \in {"failed", "replacing"}
      BY <1>1, <2>4 DEF AcquireRaises, TakeOverReads, TakeOverFails, Become, Idle, HandleState
    <3> QED
      BY <1>3, <3>1 DEF Holds
  <2>5. CASE Crash(i)
    <3>1. handle'[i].pc = "crashed"
      BY <1>1, <2>5 DEF Crash, Become, Idle, HandleState
    <3> QED
      BY <1>3, <3>1 DEF Holds
  <2>6. CASE Owner(i)
    <3>1. handle[i].stop \/ handle[i].lost
      BY <1>1, <1>3, <2>6 DEF HandleInv, StopsFirst, Owner, Holds
    <3> QED
      BY <1>3, <3>1, HandleStepSets DEF Holds
  <2>7. CASE /\ ~Crash(i) /\ ~AcquireCreates(i) /\ ~AcquireFindsRecord(i) /\ ~AcquireRaises(i)
             /\ ~TakeOverReads(i) /\ ~TakeOverReplaces(i) /\ ~TakeOverFails(i)
    <3>1. Owner(i)
      BY <2>7 DEF HandleStep, BeatStarts, MayBeat, BeatCommits, BeatRefused, BeatRaises, Reconcile,
         ReconcileReadFails, Confirm, ReleaseStarts, ReleaseTimesOut, RetireCommits, RetireRefused,
         RetireRaises, RetireRereads, At, Owner
    <3> QED
      BY <2>6, <3>1
  <2> QED
    BY <2>1, <2>2, <2>3, <2>4, <2>5, <2>7
<1> QED
  BY <1>2, <1>3 DEF Acting

\* Every step of the claim is one of the lease or changes nothing of it.
LEMMA StepIsLeaseStep == ClaimsInv /\ [Next]_vars => [Lease!LeaseNext]_(Lease!lvars)
<1> SUFFICES ASSUME ClaimsInv, [Next]_vars
             PROVE  \/ Granted' = Granted /\ Acting' = Acting /\ evicted' = evicted
                    \/ \E i \in Incs :
                        \/ /\ Granted = NoOne /\ Granted' = i
                           /\ Acting' \in {Acting, Acting \cup {i}} /\ evicted' = evicted
                        \/ /\ i \in Acting /\ Acting' = Acting \ {i}
                           /\ Granted' = Granted /\ evicted' = evicted
                        \/ /\ Granted = i /\ i \notin Acting /\ Granted' = NoOne
                           /\ Acting' = Acting /\ evicted' = evicted
                        \/ /\ Granted = i /\ Granted' = NoOne
                           /\ evicted' = evicted \cup {i} /\ Acting' = Acting
  BY DEF Lease!LeaseNext, Lease!Grant, Lease!Retreat, Lease!GiveBack, Lease!Evict, Lease!lvars,
     Granted, Acting
<1>1. /\ rec \in Record \cup {NoRecord} /\ NoOne \notin Incs
      /\ IsHeld => rec \in Record /\ rec.inc \in Incs
  BY HandleTypes, ClaimsAssumption DEF ClaimsInv, TypeOK, IsHeld, Record
<1>2. ASSUME UNCHANGED rec PROVE Granted' = Granted
  BY <1>2 DEF Granted, IsHeld
<1>3. ASSUME UNCHANGED handle PROVE Acting' = Acting
  BY <1>3 DEF Acting, Holds
<1>4. ASSUME NEW i \in Incs, HandleStep(i)
      PROVE  \/ Granted' = Granted /\ Acting' = Acting /\ evicted' = evicted
             \/ /\ Granted = NoOne /\ Granted' = i
                /\ Acting' \in {Acting, Acting \cup {i}} /\ evicted' = evicted
             \/ /\ i \in Acting /\ Acting' = Acting \ {i}
                /\ Granted' = Granted /\ evicted' = evicted
             \/ /\ Granted = i /\ i \notin Acting /\ Granted' = NoOne
                /\ Acting' = Acting /\ evicted' = evicted
  <2>1. /\ Acting' = Acting \/ Acting' = Acting \cup {i} \/ Acting' = Acting \ {i}
        /\ ~Holds(i) /\ Holds(i)' => ~IsHeld /\ Mine(i)'
        /\ evicted' = evicted
    BY <1>4, HandleStepActing, HandleStepSets
  <2>2. \/ Acting' = Acting
        \/ Holds(i) /\ Acting' = Acting \ {i}
        \/ ~Holds(i) /\ Holds(i)' /\ Acting' = Acting \cup {i}
    BY <2>1 DEF Acting
  <2>3. CASE rec' = rec
    BY <1>2, <2>1, <2>2, <2>3 DEF Acting, IsHeld, Mine
  <2>4. CASE ((~IsHeld /\ ~Holds(i)) \/ Mine(i)) /\ \E r \in 1..MaxRev : rec' = HeldRecord(i, r)
    <3>1. Granted' = i
      BY <2>4, HeldRecordIsHeld DEF Granted
    <3>2. CASE IsHeld
      BY <1>4, <2>1, <2>2, <2>4, <3>1, <3>2 DEF Granted, Acting, Mine
    <3>3. CASE ~IsHeld
      BY <2>2, <2>1, <2>4, <3>1, <3>3 DEF Granted, Mine
    <3> QED
      BY <3>2, <3>3
  <2>5. CASE Mine(i) /\ rec' = Retired(rec) /\ handle[i].stop
    <3>1. Granted = i /\ Granted' = NoOne /\ i \notin Acting
      BY <1>1, <2>5, RetiredIsNotHeld DEF Granted, Mine, Acting, Holds
    <3>2. i \notin Acting'
      BY <1>4, <2>5, HandleStepSets DEF Acting, Holds
    <3> QED
      BY <2>1, <2>2, <3>1, <3>2 DEF Acting
  <2> QED
    BY <1>4, <2>3, <2>4, <2>5, HandleStepRecord
<1>5. ASSUME NEW o \in Ops, OperatorStep(o)
      PROVE  \/ Granted' = Granted /\ Acting' = Acting /\ evicted' = evicted
             \/ \E i \in Incs : /\ Granted = i /\ Granted' = NoOne
                               /\ evicted' = evicted \cup {i} /\ Acting' = Acting
  <2>1. Acting' = Acting
    BY <1>3, <1>5 DEF OperatorStep, ClearReads, ListClaim, RecheckClaim, OperatorRetires, OperatorRefused
  <2>2. CASE OperatorRetires(o)
    <3>1. IsHeld /\ Granted = rec.inc /\ rec' = Retired(rec) /\ evicted' = evicted \cup {rec.inc}
      <4>1. OperatorSawHeld(o)
        BY DEF ClaimsInv
      <4> QED
        BY <2>2, <4>1 DEF OperatorRetires, Granted, IsCurrent, ValidatorOf, IsHeld, OperatorSawHeld
    <3> QED
      BY <1>1, <2>1, <3>1, RetiredIsNotHeld DEF Granted
  <2>3. CASE ~OperatorRetires(o)
    BY <1>2, <1>5, <2>1, <2>3 DEF OperatorStep, ClearReads, ListClaim, RecheckClaim, OperatorRefused
  <2> QED
    BY <2>2, <2>3
<1>6. ASSUME NEW w \in late, LateWrite(w)
      PROVE  \/ Granted' = Granted /\ Acting' = Acting /\ evicted' = evicted
             \/ \E i \in Incs :
                 \/ /\ Granted = NoOne /\ Granted' = i
                    /\ Acting' = Acting /\ evicted' = evicted
                 \/ /\ Granted = i /\ i \notin Acting /\ Granted' = NoOne
                    /\ Acting' = Acting /\ evicted' = evicted
                 \/ /\ Granted = i /\ Granted' = NoOne
                    /\ evicted' = evicted \cup {i} /\ Acting' = Acting
  <2>1. /\ Acting' = Acting /\ LateIsOrderly(w) /\ w.inc \in Incs
        /\ w.kind \in {"create", "replace", "retire"}
    BY <1>3, <1>6 DEF LateWrite, ClaimsInv, TypeOK, Request
  <2>2. CASE UNCHANGED <<rec, evicted>>
    BY <1>2, <2>1, <2>2
  <2>3. CASE /\ Applies(w) /\ w.kind = "retire" /\ rec' = Retired(rec)
             /\ evicted' = IF w.by = "handle" THEN evicted ELSE evicted \cup {w.inc}
    <3>1. IsHeld /\ Granted = w.inc
      BY <1>1, <2>1, <2>3 DEF Applies, LateIsOrderly, IsCurrent, ValidatorOf, IsHeld, Granted
    <3>2. Granted' = NoOne
      BY <1>1, <2>3, <3>1, RetiredIsNotHeld DEF Granted
    <3>3. w.by = "handle" => w.inc \notin Acting
      BY <2>1, <2>3 DEF LateIsOrderly, Acting, Holds
    <3> QED
      BY <2>1, <2>3, <3>1, <3>2, <3>3
  <2>4. CASE /\ Applies(w) /\ w.kind # "retire" /\ rec' = HeldRecord(w.inc, w.rev)
             /\ UNCHANGED evicted
    <3>1. Granted' = w.inc
      BY <2>4, HeldRecordIsHeld DEF Granted
    <3>2. Granted = NoOne \/ Granted = w.inc
      <4>1. CASE w.kind = "create"
        BY <2>4, <4>1 DEF Applies, IsHeld, Granted
      <4>2. CASE w.kind = "replace"
        BY <2>1, <2>4, <4>2
        DEF Applies, LateIsOrderly, IsCurrent, ValidatorOf, IsHeld, Granted, Held, Released
      <4> QED
        BY <2>1, <2>4, <4>1, <4>2
    <3> QED
      BY <2>1, <2>4, <3>1, <3>2
  <2> QED
    BY <1>6, <2>2, <2>3, <2>4 DEF LateWrite
<1>7. ASSUME NEW i \in Incs, NEW r \in 1..MaxRev, GoStale(i, r)
      PROVE  Granted' = Granted /\ Acting' = Acting /\ evicted' = evicted
  BY <1>2, <1>3, <1>7 DEF GoStale
<1>8. CASE UNCHANGED vars
  BY <1>2, <1>3, <1>8 DEF vars
<1> QED
  BY <1>4, <1>5, <1>6, <1>7, <1>8 DEF Next

\* The claim implements the lease: a grant ends only after its owner stopped
\* acting on it or by an eviction, whatever is lost, late or cleared.
THEOREM ClaimImplementsLease == Spec => ImplementsLease
<1>1. Init => Lease!LeaseInit
  BY DEF Init, Lease!LeaseInit, IsHeld, NewHandle, Holds
<1> QED
  BY <1>1, StepIsLeaseStep, InvariantHolds, PTL DEF Spec, ImplementsLease, Lease!LeaseSpec
=============================================================================
