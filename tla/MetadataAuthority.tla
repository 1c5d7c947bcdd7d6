-------------------------- MODULE MetadataAuthority --------------------------
(***************************************************************************)
(* The operations that change metadata documents (metadata_authority.py):  *)
(* each is admitted under an authority, holds the lock of its node while   *)
(* it reads and writes, and the release of an authority waits for those    *)
(* under way before the claim exits.                                       *)
(*                                                                         *)
(* The threads of one process share the table of node locks and the        *)
(* authorities.  A put replaces a whole document; an operation computes it *)
(* from what it read.  The check of an opened array is the caller's code:  *)
(* it may change the array through another operation, or leave the block   *)
(* that holds the authority.  Another process writes once no authority     *)
(* keeps it out.                                                           *)
(***************************************************************************)
EXTENDS Integers, FiniteSets, Sequences, FiniteSetsExt, SequencesExt

CONSTANTS
    Threads,
    Path,         \* Path[n]: the node and its parents, root first
    Prefix,       \* Prefix[a]: the node whose subtree authority `a` covers
    Claimed,      \* authorities that entered a claim; the others are process-local
    Loads,        \* bound: what a behaviour may hold: operations (kind, node, grow and
                  \* check), calls of all threads, releases (block, revoke)
    LockIds       \* bound: lock objects in use at a time

Nodes == DOMAIN Path
Authorities == DOMAIN Prefix
Parent(n) == Path[n][Len(Path[n]) - 1]
\* MetadataScope.covers
Covers(a, n) == Prefix[a] \in Range(Path[n])

VARIABLES
    docs,       \* the stored documents
    entries,    \* _NodeLocks: the lock object of a node, or NoLock
    locks,      \* lock objects: threads holding or waiting, owner and depth
    stack,      \* calls under way of a thread, innermost first
    active,     \* authorities not released
    inFlight,   \* _in_flight[a][t]: admitted operations
    deferred,   \* _deferred[a]: threads with a refused release, and its claim exits
    releasing,  \* the release a thread has under way, or Idle
    asked,      \* releases asked for: authority and "block" or "revoke"
    exits,      \* claim exits run
    load,       \* what the behaviour may still do
    foreign     \* another process has written

avars == <<docs, entries, locks, stack, active, inFlight, deferred, releasing, asked, exits,
           load, foreign>>

NoLock == 0
Idle == [stage |-> "idle"]
FreeLock == [users |-> 0, owner |-> "none", depth |-> 0]

Absent == [kind |-> "absent", shape |-> 0, attrs |-> {}]
Group == [kind |-> "group", shape |-> 0, attrs |-> {}]
Array(shape, attrs) == [kind |-> "array", shape |-> shape, attrs |-> attrs]
\* The document `e` still holds all of `d`.
Keeps(e, d) ==
    d = Absent \/ (e.kind = d.kind /\ e.shape >= d.shape /\ d.attrs \subseteq e.attrs)

AuthorityInit ==
    /\ docs \in {d \in [Nodes -> {Absent, Group, Array(1, {})}] :
                   \A n \in Nodes : /\ d[n].kind \in {"absent", IF Len(Path[n]) = 3 THEN "array" ELSE "group"}
                                    /\ d[n] # Absent => \A m \in Range(Path[n]) : d[m] # Absent}
    /\ entries = [n \in Nodes |-> NoLock]
    /\ locks = [i \in LockIds |-> FreeLock]
    /\ stack = [t \in Threads |-> <<>>]
    /\ active = Authorities
    /\ inFlight = [a \in Authorities |-> [t \in Threads |-> 0]]
    /\ deferred = [a \in Authorities |-> <<>>]
    /\ releasing = [t \in Threads |-> Idle]
    /\ asked = {} /\ exits = [a \in Authorities |-> 0] /\ load \in Loads /\ foreign = FALSE

-----------------------------------------------------------------------------
(* Calls.  A call of the group helper is a frame of its own: "probe" is    *)
(* its fast path, "level" creates one level.                               *)

Frame(kind, a, n) ==
    [kind |-> kind, auth |-> a, node |-> n, at |-> "enter", ref |-> NoLock,
     seen |-> Absent, todo |-> <<>>, grow |-> 0, check |-> "none", failed |-> FALSE]

Busy(t) == stack[t] # <<>>
Top(t) == Head(stack[t])
At(t, step) == Busy(t) /\ Top(t).at = step
Becomes(t, frame) == stack' = [stack EXCEPT ![t] = <<frame>> \o Tail(@)]
Goto(t, step) == Becomes(t, [Top(t) EXCEPT !.at = step])
Calls(t, step, frame) ==
    stack' = [stack EXCEPT ![t] = <<frame, [Top(t) EXCEPT !.at = step]>> \o Tail(@)]

InternalFrame(f) == f.kind \in {"probe", "level"}

\* The innermost call ends: what its caller goes on with.
Returns(t, f) ==
    LET rest == Tail(stack[t])
        caller == Head(rest)
        cleanup == IF caller.kind = "ensure" THEN "exit" ELSE "unlock"
        next == IF f.failed THEN [caller EXCEPT !.at = cleanup, !.failed = TRUE]
                ELSE IF f.kind = "probe" /\ f.seen = Absent
                THEN [caller EXCEPT !.at = "levels", !.todo = Path[f.node]]
                ELSE IF f.kind = "probe" THEN [caller EXCEPT !.at = "levels", !.todo = <<>>]
                ELSE caller
    IN stack' = [stack EXCEPT ![t] = IF rest = <<>> THEN <<>> ELSE <<next>> \o Tail(rest)]

\* A call begins.  publish_raw is given the digest of what its caller read before.
Begins(t, a, op) ==
    /\ ~Busy(t) /\ releasing[t] = Idle /\ load.calls > 0
    /\ load' = [load EXCEPT !.calls = @ - 1]
    /\ stack' = [stack EXCEPT ![t] =
         <<[Frame(op.kind, a, op.node) EXCEPT
              !.at = "admit", !.grow = op.grow, !.check = op.check,
              !.seen = IF op.kind = "raw" THEN docs[op.node] ELSE Absent]>>]
    /\ UNCHANGED <<docs, entries, locks, active, inFlight, deferred, releasing, asked, exits,
                   foreign>>

\* _authorized, _admitted
Admitted(t) ==
    LET f == Top(t) IN
    /\ At(t, "admit")
    /\ IF f.auth \in active /\ Covers(f.auth, f.node)
       THEN /\ inFlight' = [inFlight EXCEPT ![f.auth][t] = @ + 1]
            /\ Goto(t, IF f.kind = "ensure" THEN "require" ELSE "enter")
       ELSE Returns(t, [f EXCEPT !.failed = TRUE]) /\ UNCHANGED inFlight
    /\ UNCHANGED <<docs, entries, locks, active, deferred, releasing, asked, exits, load, foreign>>

-----------------------------------------------------------------------------
(* The lock table.                                                         *)

\* hold takes the node's entry, or makes one, and counts itself.
EntersTable(t) ==
    LET f == Top(t)
        id == IF entries[f.node] # NoLock THEN entries[f.node]
              ELSE Min({i \in LockIds : locks[i].users = 0})
    IN /\ At(t, "enter")
       /\ entries' = [entries EXCEPT ![f.node] = id]
       /\ locks' = [locks EXCEPT ![id].users = @ + 1]
       /\ Becomes(t, [f EXCEPT !.at = "lock", !.ref = id])
       /\ UNCHANGED <<docs, active, inFlight, deferred, releasing, asked, exits, load, foreign>>

\* The lock is re-entrant.
Locks(t) ==
    LET f == Top(t) IN
    /\ At(t, "lock") /\ locks[f.ref].owner \in {"none", t}
    /\ locks' = [locks EXCEPT ![f.ref].owner = t, ![f.ref].depth = @ + 1]
    /\ Goto(t, IF f.kind = "publish" THEN "write" ELSE "read")
    /\ UNCHANGED <<docs, entries, active, inFlight, deferred, releasing, asked, exits, load, foreign>>

Unlocks(t) ==
    LET f == Top(t)
        depth == locks[f.ref].depth - 1
    IN /\ At(t, "unlock")
       /\ locks' = [locks EXCEPT ![f.ref].depth = depth,
                                 ![f.ref].owner = IF depth = 0 THEN "none" ELSE @]
       /\ Goto(t, "leave")
       /\ UNCHANGED <<docs, entries, active, inFlight, deferred, releasing, asked, exits, load,
                      foreign>>

\* Mutant: the entry goes when the lock is free, though a thread may wait for it.
StillUsedByOwner(id) == locks[id].owner # "none"

\* An entry stays while a thread holds the lock or waits for it.
StillUsed(id) == locks[id].users > 1

LeavesTable(t) ==
    LET f == Top(t) IN
    /\ At(t, "leave")
    /\ locks' = [locks EXCEPT ![f.ref].users = @ - 1]
    /\ entries' = IF StillUsed(f.ref) THEN entries ELSE [entries EXCEPT ![f.node] = NoLock]
    /\ IF InternalFrame(f) THEN Returns(t, f) ELSE Goto(t, "exit")
    /\ UNCHANGED <<docs, active, inFlight, deferred, releasing, asked, exits, load, foreign>>

-----------------------------------------------------------------------------
(* What a call does under the lock.                                        *)

Stays == UNCHANGED <<entries, locks, active, inFlight, deferred, releasing, asked, exits, load,
                     foreign>>
Fail(t) == Becomes(t, [Top(t) EXCEPT !.at = "unlock", !.failed = TRUE])

\* The document an operation puts, computed from the one it read.
Changed(f) ==
    CASE f.kind = "attrs" -> [f.seen EXCEPT !.attrs = @ \cup {"stamp"}]
      [] f.kind = "merge" -> [f.seen EXCEPT !.attrs = @ \cup {"merged"}]
      [] f.kind = "raw" -> IF f.seen = Absent THEN Array(1, {"edited"})
                           ELSE [f.seen EXCEPT !.attrs = @ \cup {"edited"}]
      [] f.kind = "level" -> Group
      [] f.kind = "open" -> Array(f.grow, {"default"})
      [] f.kind \in {"publish", "publish_if_absent"} -> Array(1, {"copied"})

\* Whether an operation puts at all: set_attributes needs a node; update_document leaves
\* an absent document and one that would stay the same; publish_raw compares digests, and
\* creates the document where its caller saw none and there is none.
Puts(f, d) ==
    CASE f.kind = "attrs" -> d # Absent
      [] f.kind = "merge" -> d # Absent /\ "merged" \notin d.attrs
      [] f.kind = "raw" -> d = f.seen
      [] f.kind = "publish_if_absent" -> d = Absent
      [] f.kind = "level" -> d = Absent /\ Covers(f.auth, f.node)
      [] OTHER -> FALSE

\* Raised under the lock: no node to stamp, another document than expected, or a level
\* that is missing outside the scope.
Raises(f, d) ==
    \/ f.kind = "attrs" /\ d = Absent
    \/ f.kind = "raw" /\ d # f.seen
    \/ f.kind = "level" /\ d = Absent /\ ~Covers(f.auth, f.node)

Reads(t) ==
    LET f == Top(t)
        d == docs[f.node]
    IN /\ At(t, "read")
       /\ IF Raises(f, d) THEN Fail(t)
          ELSE Becomes(t, [f EXCEPT !.seen = IF f.kind = "raw" THEN @ ELSE d,
                 !.at = IF f.kind = "open" THEN IF d = Absent THEN "require" ELSE "grow"
                        ELSE IF Puts(f, d) THEN "write" ELSE "unlock"])
       /\ Stays /\ UNCHANGED docs

\* Operations that create a document: they put with set_if_not_exists.
Creates(f) == f.kind \in {"level", "publish_if_absent"} \/ (f.kind = "raw" /\ f.seen = Absent)

\* One put; set_if_not_exists leaves a document that is there.
Writes(t) ==
    LET f == Top(t)
        keeps == Creates(f) /\ docs[f.node] # Absent
    IN /\ At(t, "write")
       /\ docs' = IF keeps THEN docs ELSE [docs EXCEPT ![f.node] = Changed(f)]
       /\ Goto(t, "unlock")
       /\ Stays

(* _require_group: the node itself, or the parent of a new array.          *)

Requires(t) ==
    LET f == Top(t) IN
    /\ At(t, "require")
    /\ Calls(t, "required", Frame("probe", f.auth, IF f.kind = "ensure" THEN f.node ELSE Parent(f.node)))
    /\ Stays /\ UNCHANGED docs

NextLevel(t) ==
    LET f == Top(t) IN
    /\ At(t, "levels")
    /\ IF f.todo = <<>> THEN Goto(t, IF f.kind = "ensure" THEN "exit" ELSE "write")
       ELSE stack' = [stack EXCEPT ![t] = <<Frame("level", f.auth, Head(f.todo)),
                                            [f EXCEPT !.todo = Tail(@)]>> \o Tail(@)]
    /\ Stays /\ UNCHANGED docs

(* create_or_open_array on an array that exists: growth, the caller's      *)
(* check, the attributes it lacks.                                         *)

Grows(t) ==
    LET f == Top(t)
        grown == [f.seen EXCEPT !.shape = f.grow]
        short == f.seen.shape < f.grow
    IN /\ At(t, "grow")
       /\ docs' = IF short THEN [docs EXCEPT ![f.node] = grown] ELSE docs
       /\ Becomes(t, [f EXCEPT !.at = IF f.check = "none" THEN "defaults" ELSE "check",
                               !.seen = IF short THEN grown ELSE @])
       /\ Stays

\* The check stamps the array through an operation of its own.
ChecksByStamp(t) ==
    LET f == Top(t) IN
    /\ At(t, "check") /\ f.check = "stamp"
    /\ Calls(t, "checked", [Frame("attrs", f.auth, f.node) EXCEPT !.at = "admit"])
    /\ Stays /\ UNCHANGED docs

Rereads(t) ==
    LET f == Top(t) IN
    /\ At(t, "checked")
    /\ Becomes(t, [f EXCEPT !.at = "defaults", !.seen = docs[f.node]])
    /\ Stays /\ UNCHANGED docs

AddsDefaults(t) ==
    LET f == Top(t) IN
    /\ At(t, "defaults")
    /\ docs' = IF "default" \in f.seen.attrs THEN docs
               ELSE [docs EXCEPT ![f.node] = [f.seen EXCEPT !.attrs = @ \cup {"default"}]]
    /\ Goto(t, "unlock")
    /\ Stays

-----------------------------------------------------------------------------
(* Release.                                                                *)

Waiting(a, n, stage) == [stage |-> stage, auth |-> a, exits |-> n]
\* The exits a release runs: leaving the block of a claim runs the claim's.
ExitsOf(a, how) == IF how = "block" /\ a \in Claimed THEN 1 ELSE 0

\* _release, called by a thread outside the operations of the authority.
Releases(t, a, how) ==
    /\ ~Busy(t) /\ releasing[t] = Idle /\ how \in load.releases /\ <<a, how>> \notin asked
    /\ asked' = asked \cup {<<a, how>>}
    /\ active' = active \ {a}
    /\ releasing' = [releasing EXCEPT ![t] = Waiting(a, ExitsOf(a, how), "wait")]
    /\ UNCHANGED <<docs, entries, locks, stack, inFlight, deferred, exits, load, foreign>>

\* _release, called from inside one: refused and queued.  The caller lets the refusal
\* end its operation, or goes on.
DefersRelease(t, how) ==
    LET f == Top(t)
        a == f.auth
        queued == IF t \in DOMAIN deferred[a] THEN deferred[a][t] ELSE 0
    IN /\ At(t, "check") /\ f.check = "leave"
       /\ how \in load.releases /\ <<a, how>> \notin asked
       /\ asked' = asked \cup {<<a, how>>}
       /\ deferred' = [deferred EXCEPT ![a] =
            [s \in DOMAIN @ \cup {t} |-> IF s = t THEN queued + ExitsOf(a, how) ELSE @[s]]]
       /\ \/ Fail(t)
          \/ UNCHANGED stack
       /\ UNCHANGED <<docs, entries, locks, active, inFlight, releasing, exits, load, foreign>>

\* The check that leaves the block returns.
ChecksDone(t) ==
    /\ At(t, "check") /\ Top(t).check = "leave"
    /\ Goto(t, "checked")
    /\ Stays /\ UNCHANGED docs

\* The end of _admitted: the last operation of a thread takes up the thread's releases.
EndsOperation(t) ==
    LET f == Top(t)
        a == f.auth
        last == inFlight[a][t] = 1
    IN /\ At(t, "exit")
       /\ inFlight' = [inFlight EXCEPT ![a][t] = @ - 1]
       /\ Returns(t, f)
       /\ IF last /\ t \in DOMAIN deferred[a]
          THEN /\ releasing' = [releasing EXCEPT ![t] = Waiting(a, deferred[a][t], "ask")]
               /\ deferred' = [deferred EXCEPT ![a] = [s \in DOMAIN @ \ {t} |-> @[s]]]
          ELSE UNCHANGED <<releasing, deferred>>
       /\ UNCHANGED <<docs, entries, locks, active, asked, exits, load, foreign>>

TakesUpRelease(t) ==
    /\ releasing[t].stage = "ask"
    /\ active' = active \ {releasing[t].auth}
    /\ releasing' = [releasing EXCEPT ![t].stage = "wait"]
    /\ UNCHANGED <<docs, entries, locks, stack, inFlight, deferred, asked, exits, load, foreign>>

\* wait_for returns once nothing is in flight; then the claim exits.
Quiet(a) == \A t \in Threads : inFlight[a][t] = 0

FinishesRelease(t) ==
    LET r == releasing[t] IN
    /\ r.stage = "wait" /\ Quiet(r.auth)
    /\ exits' = [exits EXCEPT ![r.auth] = @ + r.exits]
    /\ releasing' = [releasing EXCEPT ![t] = Idle]
    /\ UNCHANGED <<docs, entries, locks, stack, active, inFlight, deferred, asked, load, foreign>>

\* The next owner of the claim changes an array.  Nobody else uses the store of a
\* process-local authority while it is active.
ForeignWrites ==
    /\ ~foreign
    /\ \A a \in Authorities : IF a \in Claimed THEN exits[a] > 0 ELSE a \notin active /\ Quiet(a)
    /\ foreign' = TRUE
    /\ \E n \in Nodes :
         /\ docs[n].kind = "array"
         /\ docs' = [docs EXCEPT ![n].attrs = @ \cup {"foreign"}]
    /\ UNCHANGED <<entries, locks, stack, active, inFlight, deferred, releasing, asked, exits, load>>

ThreadStep(t) ==
    \/ Admitted(t) \/ EntersTable(t) \/ Locks(t) \/ Unlocks(t) \/ LeavesTable(t)
    \/ Reads(t) \/ Writes(t) \/ Requires(t) \/ NextLevel(t)
    \/ Grows(t) \/ ChecksByStamp(t) \/ ChecksDone(t) \/ Rereads(t) \/ AddsDefaults(t)
    \/ EndsOperation(t) \/ TakesUpRelease(t) \/ FinishesRelease(t)

AuthorityNext ==
    \/ \E t \in Threads :
         \/ ThreadStep(t)
         \/ \E a \in Authorities :
              \/ \E op \in load.operations : Begins(t, a, op)
              \/ \E how \in {"block", "revoke"} : Releases(t, a, how)
         \/ \E how \in {"block", "revoke"} : DefersRelease(t, how)
    \/ ForeignWrites

AuthoritySpec == AuthorityInit /\ [][AuthorityNext]_avars

-----------------------------------------------------------------------------
(* The contract.                                                           *)

Resting(t) == ~Busy(t) /\ releasing[t] = Idle

\* Calls that hold the lock of their node.
Inside == {f \in UNION {Range(stack[t]) : t \in Threads} :
             f.ref # NoLock /\ f.at \notin {"enter", "lock", "leave", "exit"}}

\* Two threads never hold the lock of one node: the table hands out one object for it.
OneHolder ==
    \A s, t \in Threads, f, g \in Inside :
        /\ f \in Range(stack[s]) /\ g \in Range(stack[t]) /\ s # t
        => f.node # g.node

\* A claim exits once, and only after the last operation admitted under it has ended.
ExitIsLast ==
    \A a \in Authorities : /\ exits[a] <= 1
                           /\ exits[a] > 0 => a \notin active /\ Quiet(a)

\* When every thread has come to rest no release is left queued: an authority whose block
\* was left is inactive, and its claim has exited.
NothingQueued ==
    (\A t \in Threads : Resting(t)) =>
        \A a \in Authorities :
            /\ deferred[a] = <<>>
            /\ \A how \in {"block", "revoke"} : <<a, how>> \in asked => a \notin active
            /\ <<a, "block">> \in asked => exits[a] = ExitsOf(a, "block")

\* No thread is stuck: some thread goes on as long as one has not come to rest.
SomeoneGoesOn ==
    (\E t \in Threads : ~Resting(t)) => \E t \in Threads : ENABLED ThreadStep(t)

AuthorityInvariant == OneHolder /\ ExitIsLast /\ NothingQueued /\ SomeoneGoesOn

\* Nothing written is taken back: a document keeps its kind, its length and its
\* attributes, whoever wrote them, but for publish_document, which replaces it.
NothingReverted ==
    \A n \in Nodes :
        \/ Keeps(docs'[n], docs[n])
        \/ \E t \in Threads : At(t, "write") /\ Top(t).kind = "publish" /\ Top(t).node = n

\* A call that creates an array leaves no parent missing.
ParentsFirst ==
    \A n \in Nodes, t \in Threads :
        At(t, "write") /\ Top(t).kind = "open" /\ docs[n] = Absent /\ docs'[n] # Absent
        => \A m \in Range(Path[n]) : docs'[m] # Absent

AuthorityStep == NothingReverted /\ ParentsFirst

MetadataIsNotReverted == []AuthorityInvariant /\ [][AuthorityStep]_avars
=============================================================================
