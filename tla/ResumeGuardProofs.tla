------------------------- MODULE ResumeGuardProofs -------------------------
(***************************************************************************)
(* What the guard of ResumeGuard promises, for any number of runs, groups  *)
(* and slots and any invocations.                                          *)
(*                                                                         *)
(* The properties speak of the instant after the guard; the argument has   *)
(* to follow what it read.  A run recorded when the guard began has been   *)
(* read by the time the guard judges (KnownAreRead); a terminal entry is   *)
(* still true, because only an operator changes one (ReadsLast), and with  *)
(* it the spans seen at the end; an entry read as started did not block    *)
(* (NoneBlocks), and the spans of the entries read as complete, or failed, *)
(* were not in the way (NoSpanInTheWay).                                   *)
(***************************************************************************)
EXTENDS ResumeGuard, TLAPS

\* The fields of the runs' invocations, from the assumption on Invocations.
Field == \A r \in Runs :
    /\ inv[r].from \in Nat /\ inv[r].to \in Nat /\ inv[r].from < inv[r].to
    /\ inv[r].ranged \in BOOLEAN /\ inv[r].windowed \in BOOLEAN
    /\ inv[r].group \in Groups \cup {AllGroups}
    /\ inv[r].mode \in Modes

\* Every invocation of a run has the fields the assumption gives it.
LEMMA Fields == TypeOK => Field
BY ResumeGuardAssumption DEF TypeOK, Field

\* The slots of an invocation are numbers.
LEMMA SlotsAreNumbers == Slots \subseteq Int
BY ResumeGuardAssumption DEF Slots

-----------------------------------------------------------------------------
\* Before any run begins every variable has its type.
LEMMA TypeInit == Init => TypeOK
BY DEF Init, TypeOK, NoEntries, Labels, Statuses, Terminal

\* Every step of the guard, of a run and of an operator keeps the types.
LEMMA TypeStep == TypeOK /\ [Next]_vars => TypeOK'
<1> SUFFICES ASSUME TypeOK, [Next]_vars PROVE TypeOK'
  OBVIOUS
<1>1. ASSUME NEW r \in Runs, Enforce(r) PROVE TypeOK'
  BY <1>1 DEF TypeOK, Enforce, Goto, Recorded, guard, ledger, Labels
<1>2. ASSUME NEW r \in Runs, ListRuns(r) PROVE TypeOK'
  BY <1>2 DEF TypeOK, ListRuns, Goto, Recorded, ledger, history, Labels
<1>14. ASSUME NEW r \in Runs, ListFails(r) PROVE TypeOK'
  BY <1>14 DEF TypeOK, ListFails, Goto, guard, ledger, Labels
<1>3. ASSUME NEW r \in Runs, NEW s \in Runs, ReadEntry(r, s) PROVE TypeOK'
  BY <1>3 DEF TypeOK, ReadEntry, ledger, history
<1>4. ASSUME NEW r \in Runs, CheckRuns(r) PROVE TypeOK'
  BY <1>4 DEF TypeOK, CheckRuns, Goto, NonTerminalRead, ledger, history, Labels
<1>5. ASSUME NEW r \in Runs, CheckSpans(r) PROVE TypeOK'
  BY <1>5 DEF TypeOK, CheckSpans, Goto, guard, ledger, history, Labels
<1>6. ASSUME NEW r \in Runs, Start(r) PROVE TypeOK'
  BY <1>6 DEF TypeOK, Start, Goto, PutStatus, guard, history, Labels, Statuses
<1>7. ASSUME NEW r \in Runs, NEW g \in Groups, NEW a \in Slots, NEW b \in Slots,
             RecordSpan(r, g, a, b)
      PROVE  TypeOK'
  <2>1. Span(g, a, b) \in Spans
    BY DEF Span, Spans
  <2>2. /\ Span(g, a, b).first = a /\ Span(g, a, b).last = b
        /\ inv[r].from <= a /\ b < inv[r].to
    BY <1>7 DEF Span, RecordSpan, InRange
  <2>3. status' \in [Runs -> Statuses]
    BY <1>7 DEF TypeOK, RecordSpan, PutStatus, Statuses
  <2>4. /\ seg' \in [Runs -> SUBSET Spans] /\ buf' \in [Runs -> SUBSET Spans]
        /\ \A q \in Runs : q # r => seg'[q] = seg[q] /\ buf'[q] = buf[q]
        /\ \A x \in seg'[r] \cup buf'[r] : x \in seg[r] \cup buf[r] \/ x = Span(g, a, b)
    <3>1. seg \in [Runs -> SUBSET Spans] /\ buf \in [Runs -> SUBSET Spans]
      BY DEF TypeOK
    <3>2. CASE /\ buf' = [buf EXCEPT ![r] = @ \cup {Span(g, a, b)}]
               /\ UNCHANGED seg
      BY <2>1, <3>1, <3>2
    <3>3. CASE /\ seg' = [seg EXCEPT ![r] = @ \cup buf[r] \cup {Span(g, a, b)}]
               /\ buf' = [buf EXCEPT ![r] = {}]
      BY <2>1, <3>1, <3>3
    <3> QED
      BY <1>7, <3>2, <3>3 DEF RecordSpan
  <2>5. \A q \in Runs : \A x \in seg'[q] \cup buf'[q] :
           inv'[q].from <= x.first /\ x.last < inv'[q].to
    BY <1>7, <2>2, <2>4 DEF TypeOK, RecordSpan
  <2> QED
    BY <1>7, <2>3, <2>4, <2>5 DEF TypeOK, RecordSpan, guard, history
<1>8. ASSUME NEW r \in Runs, NEW s \in {"complete", "failed"}, End(r, s) PROVE TypeOK'
  BY <1>8 DEF TypeOK, End, Goto, PutStatus, guard, history, Labels, Statuses, Terminal
<1>9. ASSUME NEW r \in Runs, Crash(r) PROVE TypeOK'
  BY <1>9 DEF TypeOK, Crash, Goto, guard, history, Labels
<1>10. ASSUME NEW s \in Runs, AbandonReads(s) PROVE TypeOK'
  BY <1>10 DEF TypeOK, AbandonReads, guard, ledger, history
<1>11. ASSUME NEW s \in Runs, AbandonWrites(s) PROVE TypeOK'
  BY <1>11 DEF TypeOK, AbandonWrites, PutStatus, guard, Statuses, Terminal
<1>12. ASSUME NEW g \in Sealable, Seal(g) PROVE TypeOK'
  BY <1>12, ResumeGuardAssumption DEF TypeOK, Seal, guard, ledger, history
<1>13. CASE UNCHANGED vars
  BY <1>13 DEF TypeOK, vars, guard, ledger, history
<1> QED
  BY <1>1, <1>2, <1>3, <1>4, <1>5, <1>6, <1>7, <1>8, <1>9, <1>10, <1>11, <1>12, <1>13,
     <1>14
  DEF Next

\* Type correctness: run.json, segments, buffers and the guard's cache keep
\* their types, and a run records spans of its own slots only.
THEOREM TypeCorrect == Spec => []TypeOK
BY TypeInit, TypeStep, PTL DEF Spec

-----------------------------------------------------------------------------
(* The inductive invariant: what a run that is not disowned was read to be *)
(* it still is, and whatever a later step of the guard relies on has been  *)
(* read by then.                                                           *)

\* run.json appears with the start, its terminal statuses with the end or an
\* abandon.
StatusFollowsRun ==
    \A s \in Runs :
        /\ status[s] # "none" => pc[s] \in {"running", "ended", "crashed"}
        /\ status[s] \in {"complete", "failed"} => pc[s] = "ended"
        /\ pc[s] = "running" \/ pc[s] = "crashed" => status[s] # "none"
        /\ status[s] = "abandoned" => s \in disowned
        /\ s \in doomed => status[s] # "none"

KnownAreRecorded == \A r \in Runs : \A s \in known[r] : status[s] # "none"

\* A terminal status that was read is final unless an operator interferes.
ReadsLast ==
    \A r, s \in Runs :
        /\ entry[r][s] \in {"complete", "failed"} /\ s \notin disowned => status[s] = entry[r][s]
        /\ entry[r][s] = "abandoned" => s \in disowned

Judging(r) == pc[r] \in {"spans", "passed", "running", "ended", "crashed"}
Beyond(r) == pc[r] \in {"passed", "running", "ended", "crashed"}

\* Every known run is yet to be read or has been read, unless the listing failed.
KnownAreRead ==
    \A r \in Runs \ blind : \A s \in known[r] :
        /\ pc[r] = "reading" => s \in listed[r] \/ entry[r][s] # "none"
        /\ Judging(r) /\ inv[r].mode # "force" => entry[r][s] # "none"

\* No run that was read as started stands in the way.
NoneBlocks ==
    \A r, s \in Runs :
        Judging(r) /\ entry[r][s] = "started" => ~BlockedBy(inv[r], inv[s], s \in old[r])

\* No span of a run that was read as complete, or failed, is in the way.
NoSpanInTheWay ==
    \A r, s \in Runs : Beyond(r) /\ s \notin disowned =>
        /\ inv[r].ranged /\ entry[r][s] = "complete" =>
             \A x \in seg[s] : OtherGroup(inv[r].group, x.group) \/ ~SpanOverlaps(x, inv[r])
        /\ ~inv[r].ranged /\ inv[r].mode = "plain" /\ entry[r][s] \in {"complete", "failed"} =>
             \A x \in seg[s] : ~SameGround(inv[r], s, x)

\* A sealed group is not among the groups of a run that went on.
SealsBind ==
    \A r \in Runs :
        (pc[r] \in {"listing", "reading"} \/ Judging(r)) /\ SealCoversGroups(inv[r]) =>
            GroupsOf(inv[r]) \cap closed[r] = {}

\* Entries are read only past the listing.
FreshEntries == \A r, s \in Runs : pc[r] \in {"new", "listing"} => entry[r][s] = "none"

IInv ==
    /\ TypeOK
    /\ StatusFollowsRun
    /\ KnownAreRecorded
    /\ ReadsLast
    /\ KnownAreRead
    /\ NoneBlocks
    /\ NoSpanInTheWay
    /\ SealsBind
    /\ FreshEntries

\* The invariant holds before any run begins.
LEMMA InitInductive == Init => IInv
<1> SUFFICES ASSUME Init PROVE IInv
  OBVIOUS
<1>1. TypeOK
  BY TypeInit
<1> QED
  BY <1>1 DEF Init, IInv, NoEntries, StatusFollowsRun, KnownAreRecorded, ReadsLast,
     KnownAreRead, NoneBlocks, NoSpanInTheWay, SealsBind, FreshEntries, Judging, Beyond

\* Every step preserves the invariant.
LEMMA StepInductive == IInv /\ [Next]_vars => IInv'
<1> SUFFICES ASSUME IInv, [Next]_vars PROVE IInv'
  OBVIOUS
<1>0. TypeOK'
  BY TypeStep DEF IInv
<1>1. ASSUME NEW r \in Runs, Enforce(r) PROVE IInv'
  <2>1. StatusFollowsRun'
    BY <1>1 DEF IInv, TypeOK, StatusFollowsRun, Enforce, Goto, Recorded, guard, ledger
  <2>2. KnownAreRecorded'
    BY <1>1 DEF IInv, TypeOK, KnownAreRecorded, Enforce, Goto, Recorded, guard, ledger
  <2>3. KnownAreRead'
    BY <1>1 DEF IInv, TypeOK, KnownAreRead, Judging, Enforce, Goto, Recorded, guard,
       ledger
  <2>4. NoneBlocks'
    BY <1>1 DEF IInv, TypeOK, NoneBlocks, Judging, FreshEntries, Enforce, Goto, Recorded,
       guard, ledger
  <2>5. NoSpanInTheWay'
    BY <1>1 DEF IInv, TypeOK, NoSpanInTheWay, Beyond, FreshEntries, SameGround, Enforce,
       Goto, Recorded, guard, ledger
  <2>6. SealsBind'
    <3>1. CASE Sealed(inv[r])
      BY <1>1, <3>1 DEF IInv, TypeOK, SealsBind, Judging, GroupsOf, SealCoversGroups,
         Enforce, Goto, guard
    <3>2. CASE ~Sealed(inv[r])
      <4>1. SealCoversGroups(inv[r]) => GroupsOf(inv[r]) \cap seals = {}
        BY <3>2 DEF Sealed, GroupsOf, SealCoversGroups
      <4> QED
        BY <1>1, <4>1 DEF IInv, TypeOK, SealsBind, Judging, GroupsOf, SealCoversGroups,
           Enforce, Goto, guard
    <3> QED
      BY <3>1, <3>2
  <2>7. FreshEntries'
    BY <1>1 DEF IInv, TypeOK, FreshEntries, Enforce, Goto, Recorded, guard, ledger
  <2>8. ReadsLast'
    BY <1>1 DEF IInv, ReadsLast, Enforce, Goto, Recorded, guard, ledger
  <2> QED
    BY <1>0, <2>1, <2>2, <2>3, <2>4, <2>5, <2>6, <2>7, <2>8 DEF IInv
<1>2. ASSUME NEW r \in Runs, ListRuns(r) PROVE IInv'
  <2>1. StatusFollowsRun'
    BY <1>2 DEF IInv, TypeOK, StatusFollowsRun, ListRuns, Goto, Recorded, ledger, history
  <2>2. KnownAreRead'
    BY <1>2 DEF IInv, TypeOK, KnownAreRead, Judging, KnownAreRecorded, ListRuns, Goto,
       Recorded, ledger, history
  <2>3. NoneBlocks'
    BY <1>2 DEF IInv, TypeOK, NoneBlocks, Judging, ListRuns, Goto, Recorded, ledger,
       history
  <2>4. NoSpanInTheWay'
    BY <1>2 DEF IInv, TypeOK, NoSpanInTheWay, Beyond, SameGround, ListRuns, Goto,
       Recorded, ledger, history
  <2>5. SealsBind'
    BY <1>2 DEF IInv, TypeOK, SealsBind, Judging, GroupsOf, SealCoversGroups, ListRuns,
       Goto, Recorded, ledger, history
  <2>6. FreshEntries'
    BY <1>2 DEF IInv, TypeOK, FreshEntries, ListRuns, Goto, Recorded, ledger, history
  <2>7. KnownAreRecorded' /\ ReadsLast'
    BY <1>2 DEF IInv, KnownAreRecorded, ReadsLast, ListRuns, Goto, Recorded, ledger,
       history
  <2> QED
    BY <1>0, <2>1, <2>2, <2>3, <2>4, <2>5, <2>6, <2>7 DEF IInv
<1>14. ASSUME NEW r \in Runs, ListFails(r) PROVE IInv'
  <2>1. StatusFollowsRun'
    BY <1>14 DEF IInv, TypeOK, StatusFollowsRun, ListFails, Goto, ledger
  <2>2. KnownAreRead'
    BY <1>14 DEF IInv, TypeOK, KnownAreRead, Judging, ListFails, Goto, guard
  <2>3. NoneBlocks'
    BY <1>14 DEF IInv, TypeOK, NoneBlocks, Judging, ListFails, Goto, guard
  <2>4. NoSpanInTheWay'
    BY <1>14 DEF IInv, TypeOK, NoSpanInTheWay, Beyond, SameGround, ListFails, Goto,
       guard, ledger
  <2>5. SealsBind'
    BY <1>14 DEF IInv, TypeOK, SealsBind, Judging, GroupsOf, SealCoversGroups, ListFails,
       Goto
  <2>6. FreshEntries'
    BY <1>14 DEF IInv, TypeOK, FreshEntries, ListFails, Goto, guard
  <2>7. KnownAreRecorded' /\ ReadsLast'
    BY <1>14 DEF IInv, KnownAreRecorded, ReadsLast, ListFails, guard, ledger
  <2> QED
    BY <1>0, <2>1, <2>2, <2>3, <2>4, <2>5, <2>6, <2>7 DEF IInv
<1>3. ASSUME NEW r \in Runs, NEW s \in Runs, ReadEntry(r, s) PROVE IInv'
  <2>1. ReadsLast'
    BY <1>3 DEF IInv, TypeOK, ReadsLast, StatusFollowsRun, ReadEntry, ledger, history
  <2>2. KnownAreRead'
    BY <1>3 DEF IInv, TypeOK, KnownAreRead, Judging, KnownAreRecorded, ReadEntry, ledger,
       history
  <2>3. NoneBlocks'
    BY <1>3 DEF IInv, TypeOK, NoneBlocks, Judging, ReadEntry, ledger, history
  <2>4. NoSpanInTheWay'
    BY <1>3 DEF IInv, TypeOK, NoSpanInTheWay, Beyond, SameGround, ReadEntry, ledger,
       history
  <2>5. FreshEntries'
    BY <1>3 DEF IInv, TypeOK, FreshEntries, ReadEntry, ledger, history
  <2>6. StatusFollowsRun' /\ KnownAreRecorded' /\ SealsBind'
    BY <1>3 DEF IInv, StatusFollowsRun, KnownAreRecorded, SealsBind, GroupsOf,
       SealCoversGroups, Judging, ReadEntry, ledger, history
  <2> QED
    BY <1>0, <2>1, <2>2, <2>3, <2>4, <2>5, <2>6 DEF IInv
<1>4. ASSUME NEW r \in Runs, CheckRuns(r) PROVE IInv'
  <2>1. StatusFollowsRun'
    BY <1>4 DEF IInv, TypeOK, StatusFollowsRun, CheckRuns, Goto, NonTerminalRead, ledger,
       history
  <2>2. KnownAreRead'
    BY <1>4 DEF IInv, TypeOK, KnownAreRead, Judging, CheckRuns, Goto, NonTerminalRead,
       ledger, history
  <2>3. NoneBlocks'
    <3>1. PICK stale \in SUBSET NonTerminalRead(r) :
            /\ old' = [old EXCEPT ![r] = stale]
            /\ pc' = [pc EXCEPT ![r] =
                 IF \E s \in NonTerminalRead(r) : BlockedBy(inv[r], inv[s], s \in stale)
                 THEN "refused" ELSE "spans"]
      BY <1>4 DEF CheckRuns, Goto
    <3>2. inv' = inv /\ entry' = entry
      BY <1>4 DEF CheckRuns
    <3>3. ASSUME NEW q \in Runs, NEW s \in Runs, Judging(q)', entry[q][s] = "started"
          PROVE  ~BlockedBy(inv[q], inv[s], s \in old'[q])
      <4>1. CASE q = r
        <5>1. s \in NonTerminalRead(r)
          BY <3>3, <4>1 DEF NonTerminalRead, Terminal
        <5>2. old'[q] = stale /\ pc'[q] = "spans"
          BY <3>1, <3>3, <4>1 DEF IInv, TypeOK, Judging
        <5>3. ~\E t \in NonTerminalRead(r) : BlockedBy(inv[r], inv[t], t \in stale)
          BY <3>1, <4>1, <5>2 DEF IInv, TypeOK
        <5> QED
          BY <4>1, <5>1, <5>2, <5>3
      <4>2. CASE q # r
        <5>1. old'[q] = old[q] /\ pc'[q] = pc[q]
          BY <3>1, <4>2 DEF IInv, TypeOK
        <5> QED
          BY <3>3, <5>1 DEF IInv, NoneBlocks, Judging
      <4> QED
        BY <4>1, <4>2
    <3> QED
      BY <3>2, <3>3 DEF NoneBlocks
  <2>4. NoSpanInTheWay'
    BY <1>4 DEF IInv, TypeOK, NoSpanInTheWay, Beyond, SameGround, CheckRuns, Goto,
       NonTerminalRead, ledger, history
  <2>5. SealsBind'
    BY <1>4 DEF IInv, TypeOK, SealsBind, Judging, GroupsOf, SealCoversGroups, CheckRuns,
       Goto, NonTerminalRead, ledger, history
  <2>6. FreshEntries'
    BY <1>4 DEF IInv, TypeOK, FreshEntries, CheckRuns, Goto, NonTerminalRead, ledger,
       history
  <2>7. KnownAreRecorded' /\ ReadsLast'
    BY <1>4 DEF IInv, KnownAreRecorded, ReadsLast, CheckRuns, Goto, NonTerminalRead,
       ledger, history
  <2> QED
    BY <1>0, <2>1, <2>2, <2>3, <2>4, <2>5, <2>6, <2>7 DEF IInv
<1>5. ASSUME NEW r \in Runs, CheckSpans(r) PROVE IInv'
  <2>1. StatusFollowsRun'
    BY <1>5 DEF IInv, TypeOK, StatusFollowsRun, CheckSpans, Goto, guard, ledger, history
  <2>2. KnownAreRead'
    BY <1>5 DEF IInv, TypeOK, KnownAreRead, Judging, CheckSpans, Goto, guard, ledger,
       history
  <2>3. NoneBlocks'
    BY <1>5 DEF IInv, TypeOK, NoneBlocks, Judging, CheckSpans, Goto, guard, ledger,
       history
  <2>4. NoSpanInTheWay'
    BY <1>5 DEF IInv, TypeOK, NoSpanInTheWay, Beyond, SpanInTheWay, DataInTheWay,
       CompleteRead, FailedRead, SameGround, CheckSpans, Goto, guard, ledger, history
  <2>5. SealsBind'
    BY <1>5 DEF IInv, TypeOK, SealsBind, Judging, GroupsOf, SealCoversGroups, CheckSpans,
       Goto, guard, ledger, history
  <2>6. FreshEntries'
    BY <1>5 DEF IInv, TypeOK, FreshEntries, CheckSpans, Goto, guard, ledger, history
  <2>7. KnownAreRecorded' /\ ReadsLast'
    BY <1>5 DEF IInv, KnownAreRecorded, ReadsLast, CheckSpans, Goto, guard, ledger,
       history
  <2> QED
    BY <1>0, <2>1, <2>2, <2>3, <2>4, <2>5, <2>6, <2>7 DEF IInv
<1>6. ASSUME NEW r \in Runs, Start(r) PROVE IInv'
  <2>1. StatusFollowsRun'
    BY <1>6 DEF IInv, TypeOK, StatusFollowsRun, Start, Goto, PutStatus, guard, history
  <2>2. KnownAreRecorded'
    BY <1>6 DEF IInv, TypeOK, KnownAreRecorded, Start, Goto, PutStatus, guard, history
  <2>3. ReadsLast'
    BY <1>6 DEF IInv, TypeOK, ReadsLast, StatusFollowsRun, Start, Goto, PutStatus, guard,
       history
  <2>4. KnownAreRead'
    BY <1>6 DEF IInv, TypeOK, KnownAreRead, Judging, Start, Goto, PutStatus, guard,
       history
  <2>5. NoneBlocks'
    BY <1>6 DEF IInv, TypeOK, NoneBlocks, Judging, Start, Goto, PutStatus, guard, history
  <2>6. NoSpanInTheWay'
    BY <1>6 DEF IInv, TypeOK, NoSpanInTheWay, Beyond, SameGround, Start, Goto, PutStatus,
       guard, history
  <2>7. SealsBind'
    BY <1>6 DEF IInv, TypeOK, SealsBind, Judging, GroupsOf, SealCoversGroups, Start,
       Goto, PutStatus, guard, history
  <2>8. FreshEntries'
    BY <1>6 DEF IInv, TypeOK, FreshEntries, Start, Goto, PutStatus, guard, history
  <2> QED
    BY <1>0, <2>1, <2>2, <2>3, <2>4, <2>5, <2>6, <2>7, <2>8 DEF IInv
<1>7. ASSUME NEW r \in Runs, NEW g \in Groups, NEW a \in Slots, NEW b \in Slots,
            RecordSpan(r, g, a, b)
      PROVE  IInv'
  <2>1. StatusFollowsRun'
    BY <1>7 DEF IInv, TypeOK, StatusFollowsRun, RecordSpan, PutStatus, guard, history
  <2>2. KnownAreRecorded'
    BY <1>7 DEF IInv, TypeOK, KnownAreRecorded, RecordSpan, PutStatus, guard, history
  <2>3. ReadsLast'
    BY <1>7 DEF IInv, TypeOK, ReadsLast, StatusFollowsRun, RecordSpan, PutStatus, guard,
       history
  <2>4. NoSpanInTheWay'
    BY <1>7 DEF IInv, TypeOK, NoSpanInTheWay, Beyond, ReadsLast, StatusFollowsRun,
       SameGround, RecordSpan, PutStatus, guard, history
  <2>5. KnownAreRead' /\ NoneBlocks' /\ SealsBind' /\ FreshEntries'
    BY <1>7 DEF IInv, KnownAreRead, NoneBlocks, SealsBind, FreshEntries, GroupsOf,
       Judging, RecordSpan, PutStatus, guard, history
  <2> QED
    BY <1>0, <2>1, <2>2, <2>3, <2>4, <2>5 DEF IInv
<1>8. ASSUME NEW r \in Runs, NEW s \in {"complete", "failed"}, End(r, s) PROVE IInv'
  <2>1. StatusFollowsRun'
    BY <1>8 DEF IInv, TypeOK, StatusFollowsRun, End, Goto, PutStatus, guard, history
  <2>2. KnownAreRecorded'
    BY <1>8 DEF IInv, TypeOK, KnownAreRecorded, End, Goto, PutStatus, guard, history
  <2>3. ReadsLast'
    BY <1>8 DEF IInv, TypeOK, ReadsLast, StatusFollowsRun, End, Goto, PutStatus, guard,
       history
  <2>4. KnownAreRead'
    BY <1>8 DEF IInv, TypeOK, KnownAreRead, Judging, End, Goto, PutStatus, guard, history
  <2>5. NoneBlocks'
    BY <1>8 DEF IInv, TypeOK, NoneBlocks, Judging, End, Goto, PutStatus, guard, history
  <2>6. NoSpanInTheWay'
    BY <1>8 DEF IInv, TypeOK, NoSpanInTheWay, Beyond, ReadsLast, StatusFollowsRun,
       SameGround, End, Goto, PutStatus, guard, history
  <2>7. SealsBind'
    BY <1>8 DEF IInv, TypeOK, SealsBind, Judging, GroupsOf, SealCoversGroups, End, Goto,
       PutStatus, guard, history
  <2>8. FreshEntries'
    BY <1>8 DEF IInv, TypeOK, FreshEntries, End, Goto, PutStatus, guard, history
  <2> QED
    BY <1>0, <2>1, <2>2, <2>3, <2>4, <2>5, <2>6, <2>7, <2>8 DEF IInv
<1>9. ASSUME NEW r \in Runs, Crash(r) PROVE IInv'
  <2>1. StatusFollowsRun'
    BY <1>9 DEF IInv, TypeOK, StatusFollowsRun, Crash, Goto, guard, history
  <2>2. KnownAreRead'
    BY <1>9 DEF IInv, TypeOK, KnownAreRead, Judging, Crash, Goto, guard, history
  <2>3. NoneBlocks'
    BY <1>9 DEF IInv, TypeOK, NoneBlocks, Judging, Crash, Goto, guard, history
  <2>4. NoSpanInTheWay'
    BY <1>9 DEF IInv, TypeOK, NoSpanInTheWay, Beyond, SameGround, Crash, Goto, guard,
       history
  <2>5. SealsBind'
    BY <1>9 DEF IInv, TypeOK, SealsBind, Judging, GroupsOf, SealCoversGroups, Crash,
       Goto, guard, history
  <2>6. FreshEntries'
    BY <1>9 DEF IInv, TypeOK, FreshEntries, Crash, Goto, guard, history
  <2>7. KnownAreRecorded' /\ ReadsLast'
    BY <1>9 DEF IInv, KnownAreRecorded, ReadsLast, Crash, Goto, guard, history
  <2> QED
    BY <1>0, <2>1, <2>2, <2>3, <2>4, <2>5, <2>6, <2>7 DEF IInv
<1>10. ASSUME NEW s \in Runs, AbandonReads(s) PROVE IInv'
  <2>1. StatusFollowsRun'
    BY <1>10 DEF IInv, TypeOK, StatusFollowsRun, AbandonReads, guard, ledger, history
  <2>2. KnownAreRecorded' /\ ReadsLast' /\ KnownAreRead' /\ NoneBlocks' /\ NoSpanInTheWay'
        /\ SealsBind' /\ FreshEntries'
    BY <1>10 DEF IInv, KnownAreRecorded, ReadsLast, KnownAreRead, NoneBlocks,
       NoSpanInTheWay, SealsBind, FreshEntries, Beyond, GroupsOf, Judging,
       SealCoversGroups, SameGround, AbandonReads, guard, ledger, history
  <2> QED
    BY <1>0, <2>1, <2>2 DEF IInv
<1>11. ASSUME NEW s \in Runs, AbandonWrites(s) PROVE IInv'
  <2>1. StatusFollowsRun'
    BY <1>11 DEF IInv, TypeOK, StatusFollowsRun, AbandonWrites, PutStatus, guard
  <2>2. KnownAreRecorded'
    BY <1>11 DEF IInv, TypeOK, KnownAreRecorded, AbandonWrites, PutStatus, guard
  <2>3. ReadsLast'
    BY <1>11 DEF IInv, TypeOK, ReadsLast, AbandonWrites, PutStatus, guard
  <2>4. NoSpanInTheWay'
    BY <1>11 DEF IInv, TypeOK, NoSpanInTheWay, Beyond, SameGround, AbandonWrites,
       PutStatus, guard
  <2>5. KnownAreRead' /\ NoneBlocks' /\ SealsBind' /\ FreshEntries'
    BY <1>11 DEF IInv, KnownAreRead, NoneBlocks, SealsBind, FreshEntries, GroupsOf,
       Judging, AbandonWrites, PutStatus, guard
  <2> QED
    BY <1>0, <2>1, <2>2, <2>3, <2>4, <2>5 DEF IInv
<1>12. ASSUME NEW g \in Sealable, Seal(g) PROVE IInv'
  <2>1. StatusFollowsRun' /\ KnownAreRecorded' /\ ReadsLast' /\ KnownAreRead' /\
        NoneBlocks' /\ NoSpanInTheWay' /\ SealsBind' /\ FreshEntries'
    BY <1>12 DEF IInv, StatusFollowsRun, KnownAreRecorded, ReadsLast, KnownAreRead,
       NoneBlocks, NoSpanInTheWay, SealsBind, FreshEntries, Beyond, GroupsOf, Judging,
       SealCoversGroups, SameGround, Seal, guard, ledger, history
  <2> QED
    BY <1>0, <2>1 DEF IInv
<1>13. ASSUME UNCHANGED vars PROVE IInv'
  <2>1. StatusFollowsRun' /\ KnownAreRecorded' /\ ReadsLast' /\ KnownAreRead' /\
        NoneBlocks' /\ NoSpanInTheWay' /\ SealsBind' /\ FreshEntries'
    BY <1>13 DEF IInv, StatusFollowsRun, KnownAreRecorded, ReadsLast, KnownAreRead,
       NoneBlocks, NoSpanInTheWay, SealsBind, FreshEntries, Beyond, GroupsOf, Judging,
       SealCoversGroups, SameGround, vars, guard, ledger, history
  <2> QED
    BY <1>0, <2>1 DEF IInv
<1> QED
  BY <1>1, <1>2, <1>3, <1>4, <1>5, <1>6, <1>7, <1>8, <1>9, <1>10, <1>11, <1>12, <1>13,
     <1>14 DEF Next

-----------------------------------------------------------------------------
\* Two runs that share a place have overlapping ranges and, where slot ranges
\* bind them to groups, groups that meet.
LEMMA SharedGround ==
    ASSUME NEW r \in Runs, NEW s \in Runs, TypeOK,
           Ground(inv[r]) \cap Ground(inv[s]) # {}
    PROVE  /\ inv[r].ranged /\ inv[s].ranged => ~OtherGroup(inv[r].group, inv[s].group)
           /\ RangesOverlap(inv[s], inv[r])
<1>1. PICK p \in Ground(inv[r]) : p \in Ground(inv[s])
  OBVIOUS
<1>2. /\ p[1] \in GroupsOf(inv[r]) /\ p[1] \in GroupsOf(inv[s])
      /\ p[2] \in inv[r].from .. inv[r].to - 1 /\ p[2] \in inv[s].from .. inv[s].to - 1
  BY <1>1 DEF Ground
<1>3. inv[r].ranged /\ inv[s].ranged => ~OtherGroup(inv[r].group, inv[s].group)
  BY <1>2 DEF GroupsOf, OtherGroup
<1>4. RangesOverlap(inv[s], inv[r])
  BY <1>2, Fields DEF Field, RangesOverlap
<1> QED
  BY <1>3, <1>4

\* A place of a ranged r that s has recorded lies in a span the range check sees.
LEMMA SharedSpan ==
    ASSUME NEW r \in Runs, NEW s \in Runs, TypeOK, inv[r].ranged,
           Ground(inv[r]) \cap Written(s) # {}
    PROVE  \E x \in seg[s] : ~OtherGroup(inv[r].group, x.group) /\ SpanOverlaps(x, inv[r])
<1>1. PICK p \in Ground(inv[r]) : p \in Written(s)
  OBVIOUS
<1>2. PICK x \in seg[s] : p \in {x.group} \X (x.first .. x.last)
  BY <1>1 DEF Written
<1>3. x \in Spans
  BY <1>2 DEF TypeOK
<1>4. x.group \in Groups /\ x.first \in Int /\ x.last \in Int
  BY <1>3, SlotsAreNumbers DEF Spans
<1>5. /\ p[1] \in GroupsOf(inv[r]) /\ p[1] = x.group
      /\ p[2] \in inv[r].from .. inv[r].to - 1 /\ p[2] \in x.first .. x.last
  BY <1>1, <1>2 DEF Ground
<1>6. ~OtherGroup(inv[r].group, x.group)
  BY <1>5 DEF GroupsOf, OtherGroup
<1>7. SpanOverlaps(x, inv[r])
  BY <1>4, <1>5, Fields DEF Field, SpanOverlaps
<1> QED
  BY <1>2, <1>6, <1>7

\* The invariant holds of every behaviour.
LEMMA Inductive == Spec => []IInv
BY InitInductive, StepInductive, PTL DEF Spec

\* What an admitted run has read of a run it must have noticed.
LEMMA NoticedAreSettled ==
    ASSUME IInv, NEW r \in Runs, NEW s \in Noticed(r), Admitted(r), inv[r].mode # "force"
    PROVE  \/ entry[r][s] \in {"complete", "failed"} /\ status[s] = entry[r][s]
           \/ entry[r][s] = "started" /\ ~BlockedBy(inv[r], inv[s], s \in old[r])
<1>1. s \in known[r] /\ s \in Runs /\ s \notin disowned /\ r \notin blind
  BY DEF Noticed, IInv, TypeOK
<1>2. entry[r][s] \in Statuses /\ entry[r][s] # "none" /\ entry[r][s] # "abandoned"
  BY <1>1 DEF IInv, TypeOK, Admitted, KnownAreRead, Judging, ReadsLast
<1>3. entry[r][s] \in {"complete", "failed", "started"}
  BY <1>2 DEF Statuses, Terminal
<1> QED
  BY <1>1, <1>3 DEF IInv, Admitted, Judging, ReadsLast, NoneBlocks

\* RangesKeepApart for every value of the constants: a run with a slot range
\* that does not force its way never starts on slots of a run whose start was
\* recorded before its guard began, but in the cases the property names.
THEOREM KeepApart == Spec => []RangesKeepApart
<1>1. IInv => RangesKeepApart
  <2> SUFFICES ASSUME IInv, NEW r \in Runs, NEW s \in Noticed(r),
                      Admitted(r), inv[r].ranged, inv[r].mode # "force",
                      Ground(inv[r]) \cap Ground(inv[s]) # {}, status[s] # "failed",
                      ~(status[s] = "complete" /\ Ground(inv[r]) \cap Written(s) = {}),
                      ~(~inv[s].ranged /\ s \in old[r])
               PROVE  inv[r].mode = "resume" /\ SameRange(inv[r], inv[s]) /\ entry[r][s] = "started"
    BY DEF RangesKeepApart
  <2>1. s \in Runs /\ s \notin disowned /\ TypeOK
    BY DEF Noticed, IInv, TypeOK
  <2>2. entry[r][s] # "complete"
    <3> SUFFICES ASSUME entry[r][s] = "complete" PROVE FALSE
      OBVIOUS
    <3>1. status[s] = "complete"
      BY <2>1 DEF IInv, ReadsLast
    <3>2. Ground(inv[r]) \cap Written(s) # {}
      BY <3>1
    <3> QED
      BY <2>1, <3>2, SharedSpan DEF IInv, NoSpanInTheWay, Admitted, Beyond
  <2>3. entry[r][s] = "started" /\ ~BlockedBy(inv[r], inv[s], s \in old[r])
    BY <2>2, NoticedAreSettled
  <2>4. /\ inv[r].ranged /\ inv[s].ranged => ~OtherGroup(inv[r].group, inv[s].group)
        /\ RangesOverlap(inv[s], inv[r])
    BY <2>1, SharedGround
  <2> QED
    BY <2>1, <2>3, <2>4, Fields DEF Field, BlockedBy, SameRange
<1> QED
  BY <1>1, Inductive, PTL

\* PlainRunsStartClean for every value of the constants: a run without a slot
\* range starts only after the runs it must have noticed are over, a plain one
\* only where none of them left a span.
THEOREM StartClean == Spec => []PlainRunsStartClean
<1>1. IInv => PlainRunsStartClean
  <2> SUFFICES ASSUME IInv, NEW r \in Runs, NEW s \in Noticed(r),
                      Admitted(r), ~inv[r].ranged, inv[r].mode # "force"
               PROVE  /\ status[s] \in {"complete", "failed"}
                      /\ inv[r].mode = "plain" =>
                           IF inv[r].windowed
                           THEN \A x \in seg[s] :
                                   (inv[r].from .. inv[r].to - 1) \cap (x.first .. x.last) = {}
                           ELSE inv[s].slice = inv[r].slice => seg[s] = {}
    BY DEF PlainRunsStartClean
  <2>1. s \in Runs /\ s \notin disowned /\ TypeOK
    BY DEF Noticed, IInv, TypeOK
  <2>2. BlockedBy(inv[r], inv[s], s \in old[r])
    BY DEF BlockedBy
  <2>3. entry[r][s] \in {"complete", "failed"} /\ status[s] = entry[r][s]
    BY <2>2, NoticedAreSettled
  <2>4. inv[r].mode = "plain" => \A x \in seg[s] : ~SameGround(inv[r], s, x)
    BY <2>1, <2>3 DEF IInv, NoSpanInTheWay, Admitted, Beyond
  <2>5. ASSUME inv[r].mode = "plain", inv[r].windowed, NEW x \in seg[s]
        PROVE  (inv[r].from .. inv[r].to - 1) \cap (x.first .. x.last) = {}
    <3>1. ~TimeOverlaps(x, inv[r])
      BY <2>4, <2>5 DEF SameGround
    <3>2. x \in Spans
      BY <2>1 DEF TypeOK
    <3>3. x.first \in Int /\ x.last \in Int
      BY <3>2, SlotsAreNumbers DEF Spans
    <3> QED
      BY <2>1, <3>1, <3>3, Fields DEF Field, TimeOverlaps
  <2>6. ASSUME inv[r].mode = "plain", ~inv[r].windowed, inv[s].slice = inv[r].slice
        PROVE  seg[s] = {}
    BY <2>4, <2>6 DEF SameGround
  <2> QED
    BY <2>3, <2>5, <2>6
<1> QED
  BY <1>1, Inductive, PTL

\* SealsHold for every value of the constants: a sealed group is closed to every
\* later run, forced runs included.
THEOREM SealsAreKept == Spec => []SealsHold
<1>1. IInv => SealsHold
  BY DEF IInv, SealsBind, SealsHold, SealCoversGroups, Admitted, Judging
<1> QED
  BY <1>1, Inductive, PTL

=============================================================================
