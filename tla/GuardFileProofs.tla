--------------------------- MODULE GuardFileProofs ---------------------------
(***************************************************************************)
(* For any number of processes, threads and calls: a guarded call takes    *)
(* effect at one instant, and only where its condition holds then.  The    *)
(* comparison and the swap are two steps; the flock, which a call keeps    *)
(* from before the one to after the other, makes them one.                 *)
(***************************************************************************)
EXTENDS GuardFile, TLAPS

Places == {"idle", "mutex", "flock", "check", "write", "swap", "release", "unlock", "dead"}
Outcomes == {"idle", "pending", "done", "refused", "error", "dead"}

\* The places of a call between taking the flock and dropping it.
Guarded == {"check", "write", "swap", "release"}
Undecided == {"mutex", "flock", "check", "write", "swap"}

CallType ==
    [pc : Places, request : Requests \cup {[kind |-> "none"]}, outcome : Outcomes]

\* A file that can be compared, and calls that can be made.
TypeOK ==
    /\ file \in Values \cup {Absent}
    /\ flock \in Threads \cup {Nobody}
    /\ call \in [Threads -> CallType]

\* A call past its beginning is about a request, and pending until it decides;
\* only a thread whose process died stands still.
CallIsOrderly(t) ==
    /\ call[t].pc \in Undecided => call[t].outcome = "pending" /\ call[t].request \in Requests
    /\ call[t].pc \in {"idle", "release", "unlock"} =>
         call[t].outcome \in {"idle", "done", "refused", "error"}
    /\ call[t].outcome = "dead" => call[t].pc = "dead"

\* Between the comparison and the swap a call has the flock.
HoldsFlock(t) == call[t].pc \in Guarded => flock = t

\* What was found when comparing is still so when swapping.
ComparisonStands(t) ==
    call[t].pc \in {"write", "swap"} /\ call[t].request.kind # "create" =>
      file = call[t].request.expected

GuardInv ==
    /\ TypeOK
    /\ \A t \in Threads : CallIsOrderly(t) /\ HoldsFlock(t) /\ ComparisonStands(t)
-----------------------------------------------------------------------------
\* After its step the call of t is at l with outcome o, and the others are as
\* they were.
Left(t, l, o) ==
    /\ call' \in [Threads -> CallType]
    /\ call'[t].pc = l /\ call'[t].outcome = o /\ call'[t].request = call[t].request
    /\ \A u \in Threads \ {t} : call'[u] = call[u]

\* A call that goes on keeps its outcome, one that decides gets one (Go, Decide).
LEMMA GoEffect ==
  ASSUME TypeOK, NEW t \in Threads, NEW l \in Places, Go(t, l)
  PROVE  Left(t, l, call[t].outcome)
<1>1. call[t] \in CallType
  BY DEF TypeOK
<1>2. call' = [call EXCEPT ![t] = [call[t] EXCEPT !.pc = l]]
  BY DEF Go
<1>3. [call[t] EXCEPT !.pc = l] \in CallType
  BY <1>1 DEF CallType
<1> QED
  BY <1>1, <1>2, <1>3 DEF TypeOK, CallType, Left

LEMMA DecideEffect ==
  ASSUME TypeOK, NEW t \in Threads, NEW l \in Places, NEW o \in Outcomes, Decide(t, l, o)
  PROVE  Left(t, l, o)
<1>1. call[t] \in CallType
  BY DEF TypeOK
<1>2. call' = [call EXCEPT ![t] = [call[t] EXCEPT !.pc = l, !.outcome = o]]
  BY DEF Decide
<1>3. [call[t] EXCEPT !.pc = l, !.outcome = o] \in CallType
  BY <1>1 DEF CallType
<1> QED
  BY <1>1, <1>2, <1>3 DEF TypeOK, CallType, Left

\* The rest of the directory is not disturbed by a step of t that keeps the
\* file, or has the flock, and takes the flock from nobody.
LEMMA OthersKeep ==
  ASSUME GuardInv, NEW t \in Threads, NEW u \in Threads \ {t}, call'[u] = call[u],
         file' = file \/ call[t].pc \in Guarded,
         flock' = flock \/ flock \in {t, Nobody},
         Nobody \notin Threads
  PROVE  (CallIsOrderly(u) /\ HoldsFlock(u) /\ ComparisonStands(u))'
<1>1. CallIsOrderly(u)'
  BY DEF GuardInv, CallIsOrderly
<1>2. call[u].pc \in Guarded => flock = u /\ call[t].pc \notin Guarded
  BY DEF GuardInv, HoldsFlock
<1>3. HoldsFlock(u)'
  BY <1>2 DEF HoldsFlock
<1>4. ComparisonStands(u)'
  BY <1>2 DEF ComparisonStands, GuardInv, Guarded
<1> QED
  BY <1>1, <1>3, <1>4

\* Every step of a call keeps the guard's invariant.
LEMMA CallStep ==
  ASSUME GuardAssumption, GuardInv, NEW t \in Threads,
         (\E r \in Requests : BeginCall(t, r)) \/ Proceed(t)
  PROVE  GuardInv'
<1>t. /\ TypeOK /\ call[t] \in CallType /\ Nobody \notin Threads
      /\ file \in Values \cup {Absent} /\ flock \in Threads \cup {Nobody}
  BY DEF GuardInv, TypeOK, GuardAssumption
<1>i. CallIsOrderly(t) /\ HoldsFlock(t) /\ ComparisonStands(t)
  BY DEF GuardInv
<1> DEFINE Own == (CallIsOrderly(t) /\ HoldsFlock(t) /\ ComparisonStands(t))'
<1>q. ASSUME Own, NEW l, NEW o, Left(t, l, o), file' \in Values \cup {Absent},
             file' = file \/ call[t].pc \in Guarded,
             flock' = flock \/ flock \in {t, Nobody}, flock' \in Threads \cup {Nobody}
      PROVE  GuardInv'
  <2>1. \A u \in Threads \ {t} : (CallIsOrderly(u) /\ HoldsFlock(u) /\ ComparisonStands(u))'
    BY <1>t, <1>q, OthersKeep DEF Left
  <2> QED
    BY <1>q, <2>1 DEF GuardInv, TypeOK, Left
<1>1. ASSUME NEW r \in Requests, BeginCall(t, r) PROVE GuardInv'
  <2>1. /\ call' = [call EXCEPT ![t] = [pc |-> "mutex", request |-> r, outcome |-> "pending"]]
        /\ UNCHANGED <<file, flock>>
    BY <1>1 DEF BeginCall
  <2>2. /\ TypeOK' /\ call'[t] = [pc |-> "mutex", request |-> r, outcome |-> "pending"]
        /\ \A u \in Threads \ {t} : call'[u] = call[u]
    BY <1>t, <2>1 DEF TypeOK, CallType, Places, Outcomes
  <2>3. Own
    BY <2>2 DEF CallIsOrderly, HoldsFlock, ComparisonStands, Undecided, Guarded
  <2>4. \A u \in Threads \ {t} : (CallIsOrderly(u) /\ HoldsFlock(u) /\ ComparisonStands(u))'
    BY <1>t, <2>1, <2>2, OthersKeep
  <2> QED
    BY <2>2, <2>3, <2>4 DEF GuardInv
<1>2. CASE TakeMutex(t)
  <2>1. Go(t, "flock") /\ call[t].pc = "mutex" /\ UNCHANGED <<file, flock>>
    BY <1>2 DEF TakeMutex, At
  <2>2. Left(t, "flock", call[t].outcome)
    BY <1>t, <2>1, GoEffect DEF Places
  <2>3. Own
    BY <1>i, <2>1, <2>2 DEF Left, CallIsOrderly, HoldsFlock, ComparisonStands, Undecided, Guarded
  <2> QED
    BY <1>q, <1>t, <2>1, <2>2, <2>3
<1>3. CASE TakeFlock(t)
  <2>1. Go(t, "check") /\ call[t].pc = "flock" /\ file' = file /\ flock = Nobody /\ flock' = t
    BY <1>3 DEF TakeFlock, At
  <2>2. Left(t, "check", call[t].outcome)
    BY <1>t, <2>1, GoEffect DEF Places
  <2>3. Own
    BY <1>i, <2>1, <2>2 DEF Left, CallIsOrderly, HoldsFlock, ComparisonStands, Undecided, Guarded
  <2> QED
    BY <1>q, <1>t, <2>1, <2>2, <2>3
<1>4. CASE Check(t)
  <2>1. UNCHANGED <<file, flock>> /\ call[t].pc = "check"
    BY <1>4 DEF Check, At
  <2>2. CASE Decide(t, "release", "refused")
    <3>1. Left(t, "release", "refused")
      BY <1>t, <2>2, DecideEffect DEF Places, Outcomes
    <3>2. Own
      BY <1>i, <2>1, <3>1 DEF Left, CallIsOrderly, HoldsFlock, ComparisonStands, Undecided, Guarded
    <3> QED
      BY <1>q, <1>t, <2>1, <3>1, <3>2
  <2>3. ASSUME NEW l \in {"swap", "write"}, Go(t, l),
               call[t].request.kind = "create" \/ file = call[t].request.expected
        PROVE  GuardInv'
    <3>1. Left(t, l, call[t].outcome)
      BY <1>t, <2>3, GoEffect DEF Places
    <3>2. Own
      BY <1>i, <2>1, <2>3, <3>1 DEF Left, CallIsOrderly, HoldsFlock, ComparisonStands, Undecided, Guarded
    <3> QED
      BY <1>q, <1>t, <2>1, <3>1, <3>2
  <2> QED
    BY <1>4, <2>2, <2>3 DEF Check
<1>5. CASE WriteTemporary(t)
  <2>1. UNCHANGED <<file, flock>> /\ call[t].pc = "write"
    BY <1>5 DEF WriteTemporary, At
  <2>2. CASE Decide(t, "release", "error")
    <3>1. Left(t, "release", "error")
      BY <1>t, <2>2, DecideEffect DEF Places, Outcomes
    <3>2. Own
      BY <1>i, <2>1, <3>1 DEF Left, CallIsOrderly, HoldsFlock, ComparisonStands, Undecided, Guarded
    <3> QED
      BY <1>q, <1>t, <2>1, <3>1, <3>2
  <2>3. CASE Go(t, "swap")
    <3>1. Left(t, "swap", call[t].outcome)
      BY <1>t, <2>3, GoEffect DEF Places
    <3>2. Own
      BY <1>i, <2>1, <3>1 DEF Left, CallIsOrderly, HoldsFlock, ComparisonStands, Undecided, Guarded
    <3> QED
      BY <1>q, <1>t, <2>1, <3>1, <3>2
  <2> QED
    BY <1>5, <2>2, <2>3 DEF WriteTemporary
<1>6. CASE Swap(t)
  <2>1. flock' = flock /\ call[t].pc = "swap"
    BY <1>6 DEF Swap, At
  <2>2. PICK o \in {"refused", "done"} : Decide(t, "release", o)
    BY <1>6 DEF Swap
  <2>3. call[t].request \in Requests
    BY <1>i, <2>1 DEF CallIsOrderly, Undecided
  <2>4. file' \in Values \cup {Absent}
    BY <1>6, <1>t, <2>3 DEF Swap, GuardAssumption
  <2>5. Left(t, "release", o)
    BY <1>t, <2>2, DecideEffect DEF Places, Outcomes
  <2>6. Own
    BY <1>i, <2>1, <2>5 DEF Left, CallIsOrderly, HoldsFlock, ComparisonStands, Undecided, Guarded
  <2>7. call[t].pc \in Guarded
    BY <2>1 DEF Guarded
  <2> QED
    BY <1>q, <1>t, <2>1, <2>4, <2>5, <2>6, <2>7
<1>7. CASE CloseGuard(t)
  <2>1. Go(t, "unlock") /\ call[t].pc = "release" /\ file' = file
        /\ flock' = IF flock = t THEN Nobody ELSE flock
    BY <1>7 DEF CloseGuard, At
  <2>2. Left(t, "unlock", call[t].outcome)
    BY <1>t, <2>1, GoEffect DEF Places
  <2>3. Own
    BY <1>i, <2>1, <2>2 DEF Left, CallIsOrderly, HoldsFlock, ComparisonStands, Undecided, Guarded
  <2> QED
    BY <1>q, <1>t, <2>1, <2>2, <2>3
<1>8. CASE Unlock(t)
  <2>1. Go(t, "idle") /\ call[t].pc = "unlock" /\ UNCHANGED <<file, flock>>
    BY <1>8 DEF Unlock, At
  <2>2. Left(t, "idle", call[t].outcome)
    BY <1>t, <2>1, GoEffect DEF Places
  <2>3. Own
    BY <1>i, <2>1, <2>2 DEF Left, CallIsOrderly, HoldsFlock, ComparisonStands, Undecided, Guarded
  <2> QED
    BY <1>q, <1>t, <2>1, <2>2, <2>3
<1> QED
  BY <1>1, <1>2, <1>3, <1>4, <1>5, <1>6, <1>7, <1>8 DEF Proceed

\* The kernel drops the flock of a process that dies, and its threads stop.
LEMMA DeathStep ==
  ASSUME GuardAssumption, GuardInv, NEW p \in Processes, ProcessDies(p)
  PROVE  GuardInv'
<1>1. /\ flock' = IF flock \in ThreadsOf[p] THEN Nobody ELSE flock
      /\ call' = [t \in Threads |-> IF t \in ThreadsOf[p]
                                    THEN [call[t] EXCEPT !.pc = "dead", !.outcome = "dead"]
                                    ELSE call[t]]
      /\ file' = file
  BY DEF ProcessDies
<1>2. \A t \in Threads : call[t] \in CallType
  BY DEF GuardInv, TypeOK
<1>3. ASSUME NEW s \in CallType
      PROVE  LET d == [s EXCEPT !.pc = "dead", !.outcome = "dead"]
             IN  d \in CallType /\ d.pc = "dead" /\ d.outcome = "dead" /\ d.request = s.request
  BY DEF CallType, Places, Outcomes
<1>4. TypeOK'
  <2>1. \A t \in Threads : call'[t] \in CallType
    BY <1>1, <1>2, <1>3
  <2> QED
    BY <1>1, <2>1 DEF GuardInv, TypeOK
<1>5. ASSUME NEW t \in Threads PROVE (CallIsOrderly(t) /\ HoldsFlock(t) /\ ComparisonStands(t))'
  <2>1. CASE t \in ThreadsOf[p]
    <3>1. call'[t].pc = "dead" /\ call'[t].outcome = "dead"
      BY <1>1, <1>2, <1>3, <2>1
    <3> QED
      BY <3>1 DEF CallIsOrderly, HoldsFlock, ComparisonStands, Guarded, Undecided
  <2>2. CASE t \notin ThreadsOf[p]
    BY <1>1, <2>2 DEF GuardInv, CallIsOrderly, HoldsFlock, ComparisonStands
  <2> QED
    BY <2>1, <2>2
<1> QED
  BY <1>4, <1>5 DEF GuardInv

LEMMA GuardInit == GuardAssumption /\ GInit => GuardInv
<1> SUFFICES ASSUME GuardAssumption, GInit PROVE GuardInv
  OBVIOUS
<1>1. call = [t \in Threads |-> [pc |-> "idle", request |-> [kind |-> "none"],
                                 outcome |-> "idle"]]
      /\ file \in Values \cup {Absent} /\ flock = Nobody
  BY DEF GInit
<1>2. TypeOK
  BY <1>1 DEF TypeOK, CallType, Places, Outcomes
<1>3. \A t \in Threads : CallIsOrderly(t) /\ HoldsFlock(t) /\ ComparisonStands(t)
  BY <1>1 DEF CallIsOrderly, HoldsFlock, ComparisonStands, Guarded, Undecided
<1> QED
  BY <1>2, <1>3 DEF GuardInv

\* A call compares and swaps on the same file, whoever else calls or dies.
THEOREM GuardHolds == GuardAssumption => (GuardSpec => []GuardInv)
<1> SUFFICES ASSUME GuardAssumption PROVE GuardSpec => []GuardInv
  OBVIOUS
<1>1. GInit => GuardInv
  BY GuardInit
<1>2. GuardInv /\ [GuardNext]_gvars => GuardInv'
  <2> SUFFICES ASSUME GuardInv, [GuardNext]_gvars PROVE GuardInv'
    OBVIOUS
  <2>1. CASE UNCHANGED gvars
    BY <2>1 DEF gvars, GuardInv, TypeOK, CallIsOrderly, HoldsFlock, ComparisonStands
  <2> QED
    BY <2>1, CallStep, DeathStep DEF GuardNext
<1> QED
  BY <1>1, <1>2, PTL DEF GuardSpec
-----------------------------------------------------------------------------
\* The call of a thread as ConditionalFile sees it.
Seen(t) == [state |-> call[t].outcome, request |-> call[t].request]

\* Every step of a guarded call is a step of the conditional file, or none: it
\* begins, it fails, or at the comparison or the swap it takes effect or is
\* refused, and the file then is as its outcome says.
LEMMA GuardStepIsFileStep ==
  ASSUME GuardAssumption, GuardInv, [GuardNext]_gvars
  PROVE  [F!FNext]_(F!fvars)
<1> DEFINE seen == [t \in Threads |-> Seen(t)]
<1>t. /\ Nobody \notin Threads
      /\ \A t \in Threads : /\ call[t] \in CallType
                            /\ CallIsOrderly(t) /\ HoldsFlock(t) /\ ComparisonStands(t)
      /\ TypeOK
  BY DEF GuardInv, TypeOK, GuardAssumption
<1>o. ASSUME NEW t \in Threads, \A u \in Threads \ {t} : call'[u] = call[u]
      PROVE  seen' = [seen EXCEPT ![t] = Seen(t)']
  BY <1>o DEF Seen
<1>s. ASSUME UNCHANGED file, NEW t \in Threads, \A u \in Threads \ {t} : call'[u] = call[u],
             call'[t].outcome = call[t].outcome, call'[t].request = call[t].request
      PROVE  [F!FNext]_(F!fvars)
  <2>1. \A u \in Threads : Seen(u)' = Seen(u)
    BY <1>s DEF Seen
  <2>2. seen' = seen
    BY <2>1
  <2> QED
    BY <1>s, <2>2 DEF F!fvars, Seen
<1>d. ASSUME NEW t \in Threads, NEW l \in Places, NEW o \in Outcomes, Decide(t, l, o)
      PROVE  seen' = [seen EXCEPT ![t].state = o]
  <2>1. Left(t, l, o)
    BY <1>t, <1>d, DecideEffect
  <2>2. Seen(t)' = [Seen(t) EXCEPT !.state = o]
    BY <2>1 DEF Left, Seen
  <2> QED
    BY <1>o, <2>1, <2>2 DEF Left
<1>g. ASSUME NEW t \in Threads, NEW l \in Places, Go(t, l), UNCHANGED file
      PROVE  [F!FNext]_(F!fvars)
  <2>1. Left(t, l, call[t].outcome)
    BY <1>t, <1>g, GoEffect
  <2> QED
    BY <1>g, <1>s, <2>1 DEF Left
<1>1. ASSUME NEW t \in Threads, NEW r \in Requests, BeginCall(t, r)
      PROVE  [F!FNext]_(F!fvars)
  <2>1. /\ call' = [call EXCEPT ![t] = [pc |-> "mutex", request |-> r, outcome |-> "pending"]]
        /\ UNCHANGED file /\ call[t].pc = "idle"
    BY <1>1 DEF BeginCall, At
  <2>2. Seen(t)' = [state |-> "pending", request |-> r]
    BY <1>t, <2>1 DEF Seen, TypeOK
  <2>3. seen' = [seen EXCEPT ![t] = [state |-> "pending", request |-> r]]
    BY <1>t, <1>o, <2>1, <2>2 DEF TypeOK
  <2>4. seen[t].state \in {"idle", "done", "refused", "error"}
    BY <1>t, <2>1 DEF Seen, CallIsOrderly
  <2>5. F!Begin(t, r)
    BY <2>1, <2>3, <2>4 DEF F!Begin, Seen
  <2> QED
    BY <2>5 DEF F!FNext
<1>2. ASSUME NEW t \in Threads,
             TakeMutex(t) \/ TakeFlock(t) \/ CloseGuard(t) \/ Unlock(t)
      PROVE  [F!FNext]_(F!fvars)
  BY <1>2, <1>g DEF TakeMutex, TakeFlock, CloseGuard, Unlock, Places
<1>3. ASSUME NEW t \in Threads, Check(t)
      PROVE  [F!FNext]_(F!fvars)
  <2>1. UNCHANGED file /\ call[t].pc = "check" /\ call[t].outcome = "pending"
    BY <1>3, <1>t DEF Check, At, CallIsOrderly, Undecided
  <2>2. CASE \E l \in {"swap", "write"} : Go(t, l)
    BY <1>g, <2>1, <2>2 DEF Places
  <2>3. CASE Decide(t, "release", "refused") /\ file # call[t].request.expected
    <3>1. seen' = [seen EXCEPT ![t].state = "refused"]
      BY <1>d, <2>3 DEF Places, Outcomes
    <3>2. F!Refuses(t)
      BY <2>1, <2>3, <3>1 DEF F!Refuses, F!Admits, Seen
    <3> QED
      BY <3>2 DEF F!FNext
  <2> QED
    BY <1>3, <2>2, <2>3 DEF Check
<1>4. ASSUME NEW t \in Threads, WriteTemporary(t)
      PROVE  [F!FNext]_(F!fvars)
  <2>1. UNCHANGED file /\ call[t].pc = "write" /\ call[t].outcome = "pending"
    BY <1>4, <1>t DEF WriteTemporary, At, CallIsOrderly, Undecided
  <2>2. CASE Go(t, "swap")
    BY <1>g, <2>1, <2>2 DEF Places
  <2>3. CASE Decide(t, "release", "error")
    <3>1. seen' = [seen EXCEPT ![t].state = "error"]
      BY <1>d, <2>3 DEF Places, Outcomes
    <3>2. F!Fails(t)
      BY <2>1, <3>1 DEF F!Fails, Seen
    <3> QED
      BY <3>2 DEF F!FNext
  <2> QED
    BY <1>4, <2>2, <2>3 DEF WriteTemporary
<1>5. ASSUME NEW t \in Threads, Swap(t)
      PROVE  [F!FNext]_(F!fvars)
  <2> DEFINE r == call[t].request
  <2>1. /\ call[t].pc = "swap" /\ call[t].outcome = "pending" /\ r \in Requests
        /\ r.kind # "create" => file = r.expected
    BY <1>5, <1>t DEF Swap, At, CallIsOrderly, Undecided, ComparisonStands
  <2>2. CASE r.kind = "create" /\ file # Absent
    <3>1. UNCHANGED file /\ Decide(t, "release", "refused")
      BY <1>5, <2>2 DEF Swap
    <3>2. seen' = [seen EXCEPT ![t].state = "refused"]
      BY <1>d, <3>1 DEF Places, Outcomes
    <3>3. file # r.expected
      BY <2>1, <2>2 DEF GuardAssumption
    <3>4. F!Refuses(t)
      BY <2>1, <3>1, <3>2, <3>3 DEF F!Refuses, F!Admits, Seen
    <3> QED
      BY <3>4 DEF F!FNext
  <2>3. CASE ~(r.kind = "create" /\ file # Absent)
    <3>1. ~(r.kind = "delete" /\ file = Absent) /\ file = r.expected
      BY <2>1, <2>3 DEF GuardAssumption
    <3>2. file' = r.data /\ Decide(t, "release", "done")
      BY <1>5, <2>3, <3>1 DEF Swap
    <3>3. seen' = [seen EXCEPT ![t].state = "done"]
      BY <1>d, <3>2 DEF Places, Outcomes
    <3>4. F!Takes(t)
      BY <2>1, <3>1, <3>2, <3>3 DEF F!Takes, F!Admits, F!Effect, Seen
    <3> QED
      BY <3>4 DEF F!FNext
  <2> QED
    BY <2>2, <2>3
<1>6. ASSUME NEW p \in Processes, ProcessDies(p)
      PROVE  [F!FNext]_(F!fvars)
  <2>1. /\ \A t \in ThreadsOf[p] : call[t].pc # "dead"
        /\ call' = [t \in Threads |-> IF t \in ThreadsOf[p]
                                      THEN [call[t] EXCEPT !.pc = "dead", !.outcome = "dead"]
                                      ELSE call[t]]
        /\ UNCHANGED file
    BY <1>6 DEF ProcessDies, At
  <2>2. ThreadsOf[p] \in SUBSET Threads
    BY DEF Threads
  <2>3. \A t \in ThreadsOf[p] : seen[t].state # "dead"
    BY <1>t, <2>1, <2>2 DEF Seen, CallIsOrderly
  <2>4. \A t \in Threads :
          Seen(t)' = IF t \in ThreadsOf[p] THEN [Seen(t) EXCEPT !.state = "dead"] ELSE Seen(t)
    <3> SUFFICES ASSUME NEW t \in Threads
                 PROVE  Seen(t)' = IF t \in ThreadsOf[p] THEN [Seen(t) EXCEPT !.state = "dead"]
                                   ELSE Seen(t)
      OBVIOUS
    <3>1. CASE t \in ThreadsOf[p]
      <4>1. call'[t] = [call[t] EXCEPT !.pc = "dead", !.outcome = "dead"]
        BY <2>1, <3>1
      <4> QED
        BY <1>t, <3>1, <4>1 DEF Seen, CallType
    <3>2. CASE t \notin ThreadsOf[p]
      BY <2>1, <3>2 DEF Seen
    <3> QED
      BY <3>1, <3>2
  <2>5. seen' = [t \in Threads |-> IF t \in ThreadsOf[p] THEN [seen[t] EXCEPT !.state = "dead"]
                                   ELSE seen[t]]
    BY <2>4
  <2>6. F!Die(ThreadsOf[p])
    BY <2>1, <2>3, <2>5 DEF F!Die, Seen
  <2> QED
    BY <2>2, <2>6 DEF F!FNext
<1>7. CASE UNCHANGED gvars
  BY <1>7 DEF gvars, F!fvars
<1> QED
  BY <1>1, <1>2, <1>3, <1>4, <1>5, <1>6, <1>7 DEF GuardNext, Proceed

\* A guarded call implements the conditional file: it takes effect at one
\* instant, and only where its condition holds at that instant.
THEOREM GuardImplementsFile == GuardAssumption => (GuardSpec => ActsAtOnce)
<1> SUFFICES ASSUME GuardAssumption PROVE GuardSpec => ActsAtOnce
  OBVIOUS
<1>1. GInit => F!FInit
  BY DEF GInit, F!FInit, F!Idle, F!NoRequest
<1>2. GuardInv /\ [GuardNext]_gvars => [F!FNext]_(F!fvars)
  BY GuardStepIsFileStep
<1> QED
  BY <1>1, <1>2, GuardHolds, PTL DEF GuardSpec, ActsAtOnce, F!FSpec
=============================================================================
