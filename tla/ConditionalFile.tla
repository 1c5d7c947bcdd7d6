--------------------------- MODULE ConditionalFile ---------------------------
(***************************************************************************)
(* What the conditional writes of a small file promise (ConditionalWrite,  *)
(* CompareDelete): each call takes effect at one instant between its start *)
(* and its end, and only if its condition holds at that instant.  A call   *)
(* whose process dies has or has not taken effect.  Claims.tla relies on   *)
(* no more than this.                                                      *)
(***************************************************************************)
EXTENDS FiniteSets

CONSTANTS
    Callers,   \* threads that call
    Values,    \* contents of the file
    Requests,  \* calls: the content they expect, Absent of a creation, and the one they leave
    Absent     \* the file does not exist

VARIABLES
    file,      \* content, or Absent
    call       \* the call of each thread and how it stands

fvars == <<file, call>>

NoRequest == [kind |-> "none"]

Idle == [state |-> "idle", request |-> NoRequest]

\* The condition of a request, and the file once it took effect.
Admits(r) == file = r.expected
Effect(r) == r.data

FInit == file \in Values \cup {Absent} /\ call = [t \in Callers |-> Idle]

Begin(t, r) ==
    /\ call[t].state \in {"idle", "done", "refused", "error"}
    /\ call' = [call EXCEPT ![t] = [state |-> "pending", request |-> r]]
    /\ UNCHANGED file

Takes(t) ==
    /\ call[t].state = "pending" /\ Admits(call[t].request)
    /\ file' = Effect(call[t].request)
    /\ call' = [call EXCEPT ![t].state = "done"]

Refuses(t) ==
    /\ call[t].state = "pending" /\ ~Admits(call[t].request)
    /\ call' = [call EXCEPT ![t].state = "refused"]
    /\ UNCHANGED file

\* The file system fails: nothing took effect.
Fails(t) ==
    /\ call[t].state = "pending"
    /\ call' = [call EXCEPT ![t].state = "error"]
    /\ UNCHANGED file

\* Threads of one process die together.
Die(ts) ==
    /\ \A t \in ts : call[t].state # "dead"
    /\ call' = [t \in Callers |-> IF t \in ts THEN [call[t] EXCEPT !.state = "dead"] ELSE call[t]]
    /\ UNCHANGED file

FNext ==
    \/ \E t \in Callers : (\E r \in Requests : Begin(t, r)) \/ Takes(t) \/ Refuses(t) \/ Fails(t)
    \/ \E ts \in SUBSET Callers : Die(ts)

FSpec == FInit /\ [][FNext]_fvars
=============================================================================
