------------------------------ MODULE GuardFile ------------------------------
(***************************************************************************)
(* Conditional writes of local files (conditional.py, publication.py): a   *)
(* call holds the process's lock and the flock of the directory's guard    *)
(* file, compares, writes a temporary and links or renames it onto the     *)
(* file.  A process may die at any point; the kernel then drops its flock. *)
(* The guard file is never removed, and a temporary has a name of its own  *)
(* that no listing shows: temporaries are left out.                        *)
(***************************************************************************)
EXTENDS FiniteSets, Integers

CONSTANTS
    Processes,   \* processes that share the directory
    ThreadsOf,   \* the threads of each process
    Values,      \* contents of the file
    Requests,    \* calls that are made
    Absent,      \* the file does not exist
    Nobody,      \* holder of a lock nobody holds
    MaxCalls     \* calls of a thread (bound)

VARIABLES
    file,     \* content of the file, or Absent
    mutex,    \* _guard_locks: the thread that holds the lock of each process
    flock,    \* the thread whose descriptor holds the flock
    call,     \* the call of each thread: place, request, outcome
    made      \* calls each thread has begun

gvars == <<file, mutex, flock, call, made>>

Threads == UNION {ThreadsOf[p] : p \in Processes}
ProcessOf(t) == CHOOSE p \in Processes : t \in ThreadsOf[p]

\* What an instance assumes of the constants: a creation expects no file, a
\* deletion expects one, and whoever holds a lock is somebody.
GuardAssumption ==
    /\ Nobody \notin Threads
    /\ Absent \notin Values
    /\ MaxCalls \in Nat
    /\ \A r \in Requests :
        \/ r.kind = "create" /\ r.expected = Absent /\ r.data \in Values
        \/ r.kind = "replace" /\ r.expected \in Values /\ r.data \in Values
        \/ r.kind = "delete" /\ r.expected \in Values /\ r.data = Absent

GInit ==
    /\ file \in Values \cup {Absent}
    /\ mutex = [p \in Processes |-> Nobody] /\ flock = Nobody
    /\ call = [t \in Threads |-> [pc |-> "idle", request |-> [kind |-> "none"],
                                  outcome |-> "idle"]]
    /\ made = [t \in Threads |-> 0]

At(t, l) == call[t].pc = l
Go(t, l) == call' = [call EXCEPT ![t].pc = l]
Decide(t, l, result) == call' = [call EXCEPT ![t].pc = l, ![t].outcome = result]

BeginCall(t, r) ==
    /\ At(t, "idle") /\ made[t] < MaxCalls
    /\ made' = [made EXCEPT ![t] = @ + 1]
    /\ call' = [call EXCEPT ![t] = [pc |-> "mutex", request |-> r, outcome |-> "pending"]]
    /\ UNCHANGED <<file, mutex, flock>>

\* _hold_guard: the lock of the process, then the flock of the guard file.
TakeMutex(t) ==
    /\ At(t, "mutex") /\ mutex[ProcessOf(t)] = Nobody
    /\ mutex' = [mutex EXCEPT ![ProcessOf(t)] = t]
    /\ Go(t, "flock")
    /\ UNCHANGED <<file, flock, made>>

\* Mutant: the guard is the lock of the process alone.
TakeMutexOnly(t) ==
    /\ At(t, "flock") /\ flock' = flock /\ Go(t, "check")
    /\ UNCHANGED <<file, mutex, made>>

TakeFlock(t) ==
    /\ At(t, "flock") /\ flock = Nobody
    /\ flock' = t
    /\ Go(t, "check")
    /\ UNCHANGED <<file, mutex, made>>

\* _require_current; a creation has nothing to compare.
Check(t) ==
    LET r == call[t].request
    IN /\ At(t, "check")
       /\ IF r.kind # "create" /\ file # r.expected
          THEN Decide(t, "release", "refused")
          ELSE Go(t, IF r.kind = "delete" THEN "swap" ELSE "write")
       /\ UNCHANGED <<file, mutex, flock, made>>

\* _write_temporary; when it fails it takes its temporary away.
WriteTemporary(t) ==
    /\ At(t, "write")
    /\ Go(t, "swap") \/ Decide(t, "release", "error")
    /\ UNCHANGED <<file, mutex, flock, made>>

\* The name changes in one step: os.link refuses a name that exists, os.replace does not look,
\* os.unlink refuses a name that is gone.
Swap(t) ==
    LET r == call[t].request
        refused == \/ r.kind = "create" /\ file # Absent
                   \/ r.kind = "delete" /\ file = Absent
    IN /\ At(t, "swap")
       /\ file' = IF refused THEN file ELSE r.data
       /\ Decide(t, "release", IF refused THEN "refused" ELSE "done")
       /\ UNCHANGED <<mutex, flock, made>>

\* os.close drops the flock, then the lock of the process is released.
CloseGuard(t) ==
    /\ At(t, "release")
    /\ flock' = IF flock = t THEN Nobody ELSE flock
    /\ Go(t, "unlock")
    /\ UNCHANGED <<file, mutex, made>>

Unlock(t) ==
    /\ At(t, "unlock")
    /\ mutex' = [mutex EXCEPT ![ProcessOf(t)] = Nobody]
    /\ Go(t, "idle")
    /\ UNCHANGED <<file, flock, made>>

\* A process dies: its threads stop where they are and the kernel closes its descriptors.
ProcessDies(p) ==
    /\ \A t \in ThreadsOf[p] : ~At(t, "dead")
    /\ flock' = IF flock \in ThreadsOf[p] THEN Nobody ELSE flock
    /\ call' = [t \in Threads |-> IF t \in ThreadsOf[p]
                                  THEN [call[t] EXCEPT !.pc = "dead", !.outcome = "dead"]
                                  ELSE call[t]]
    /\ UNCHANGED <<file, mutex, made>>

\* What a call does once it has begun.
Proceed(t) ==
    \/ TakeMutex(t) \/ TakeFlock(t) \/ Check(t) \/ WriteTemporary(t) \/ Swap(t)
    \/ CloseGuard(t) \/ Unlock(t)

GuardNext ==
    \/ \E t \in Threads : (\E r \in Requests : BeginCall(t, r)) \/ Proceed(t)
    \/ \E p \in Processes : ProcessDies(p)

GuardSpec == GInit /\ [][GuardNext]_gvars

-----------------------------------------------------------------------------
(* What the guard is for.                                                  *)

\* A call takes effect at one instant, and only where its condition holds at that instant.
F == INSTANCE ConditionalFile WITH
    Callers <- Threads,
    call <- [t \in Threads |-> [state |-> call[t].outcome, request |-> call[t].request]]

ActsAtOnce == F!FSpec

\* Whoever waits for the guard gets it, since it is given up at the end of a call or with the
\* process: after the last call that is begun, no call is left waiting.
IsPending(t) == call[t].outcome = "pending"
CallsReturn == (\E t \in Threads : IsPending(t)) ~> \A t \in Threads : ~IsPending(t)
=============================================================================
