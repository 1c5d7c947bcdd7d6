----------------------------- MODULE IndexRecord -----------------------------
(***************************************************************************)
(* Negotiation of the product's resolved index (manager.py,                *)
(* index_record.py): every ingest, preallocation and rebuild declares an   *)
(* index and has to agree with .firecube/index/current.json, which the     *)
(* first of them writes and mirrors on the attributes of the store's root. *)
(* The one that finds the claim taken decides from what it reads without   *)
(* the claim.  Processes die at any point; the claim of a dead process     *)
(* stays until an operator clears it.  Other writers of the root document  *)
(* read it and write it back whole.                                        *)
(*                                                                         *)
(* An index is its identity hash.  The slot-index model of earlier         *)
(* versions is negotiated by the same code over another claim, record and  *)
(* attribute; here it is the record a product may still have from them.    *)
(***************************************************************************)
EXTENDS Integers, FiniteSets

CONSTANTS
    Negotiators,  \* processes
    Idents,       \* identity hashes a plugin may declare
    LegacyOf,     \* LegacyOf[i]: hash of the slot-index model that i extends, if any
    MaxRetries,   \* retries of a negotiator that finds the claim taken
    MaxStarts     \* bound: negotiations begun

VARIABLES
    record,    \* identity in current.json
    mirror,    \* identity on the root attributes
    legacy,    \* hash of the slot-index record and attribute of an earlier version
    idxClaim,  \* holder of the resolved_index claim
    npc,       \* where each negotiator is
    declared,  \* the identity each of them declares
    seen,      \* the record each of them has read
    retries,   \* retries each of them has made
    outcome,   \* how its last negotiation ended
    rootCopy,  \* the root document another writer has read and not yet written back
    begun      \* history: negotiations begun

ivars == <<record, mirror, legacy, idxClaim, npc, declared, seen, retries, outcome, rootCopy, begun>>

None == "none"
Absent == "absent"
Steps == {"idle", "claim", "read", "attrs", "write", "mirror", "lost", "lostattrs", "lostmirror", "dead"}
Outcomes == {None, "created", "matched", "conflict", "drift", "legacy", "maintenance",
             "timeout", "error"}

-----------------------------------------------------------------------------
InitWith(old) ==
    /\ record = None /\ mirror = None /\ legacy = old /\ idxClaim = None
    /\ npc = [p \in Negotiators |-> "idle"]
    /\ declared = [p \in Negotiators |-> None] /\ seen = [p \in Negotiators |-> None]
    /\ retries = [p \in Negotiators |-> 0] /\ outcome = [p \in Negotiators |-> None]
    /\ rootCopy = Absent /\ begun = 0

GoTo(p, at) == npc' = [npc EXCEPT ![p] = at]

\* The call returns or raises: the with statement releases the claim.
End(p, how) ==
    /\ GoTo(p, "idle") /\ outcome' = [outcome EXCEPT ![p] = how]
    /\ idxClaim' = IF idxClaim = p THEN None ELSE idxClaim

\* A run or a preallocation starts.  A product with nothing but a record of an
\* earlier version is refused: it has to be rebuilt first.
Begin(p, i) ==
    /\ npc[p] = "idle" /\ begun < MaxStarts /\ begun' = begun + 1
    /\ declared' = [declared EXCEPT ![p] = i] /\ retries' = [retries EXCEPT ![p] = 0]
    /\ \/ /\ record = None /\ legacy # None
          /\ outcome' = [outcome EXCEPT ![p] = "legacy"] /\ UNCHANGED npc
       \/ /\ ~(record = None /\ legacy # None)
          /\ outcome' = [outcome EXCEPT ![p] = None] /\ GoTo(p, "claim")
    /\ UNCHANGED <<record, mirror, legacy, idxClaim, seen, rootCopy>>

\* index rebuild: it may follow a record of an earlier version, if it extends it
\* or has no form in that version.
Rebuildable(i) == legacy = None \/ LegacyOf[i] \in {None, legacy}
Rebuild(p, i) ==
    /\ npc[p] = "idle" /\ begun < MaxStarts /\ begun' = begun + 1
    /\ declared' = [declared EXCEPT ![p] = i] /\ retries' = [retries EXCEPT ![p] = 0]
    /\ \/ /\ ~Rebuildable(i)
          /\ outcome' = [outcome EXCEPT ![p] = "legacy"] /\ UNCHANGED npc
       \/ /\ Rebuildable(i)
          /\ outcome' = [outcome EXCEPT ![p] = None] /\ GoTo(p, "claim")
    /\ UNCHANGED <<record, mirror, legacy, idxClaim, seen, rootCopy>>

\* ensure_resolved_index: the claim, or what to do without it.
Acquire(p) ==
    /\ npc[p] = "claim"
    /\ \/ idxClaim = None /\ idxClaim' = p /\ GoTo(p, "read")
       \/ idxClaim # None /\ GoTo(p, "lost") /\ UNCHANGED idxClaim
    /\ UNCHANGED <<record, mirror, legacy, declared, seen, retries, outcome, rootCopy, begun>>

-----------------------------------------------------------------------------
(* With or without the claim, check_exclusive_maintenance comes before any *)
(* read: a command may hold the product at any time, or the check may not  *)
(* be able to tell.  Module Maintenance says who is excluded by it.        *)

RefusedByMaintenance(p) == End(p, "maintenance") /\ UNCHANGED <<seen, retries>>

-----------------------------------------------------------------------------
(* With the claim: _apply_resolved_index_precedence.                       *)

ReadRecord(p) ==
    /\ npc[p] = "read"
    /\ \/ RefusedByMaintenance(p)
       \/ /\ seen' = [seen EXCEPT ![p] = record] /\ GoTo(p, "attrs")
          /\ UNCHANGED <<idxClaim, retries, outcome>>
    /\ UNCHANGED <<record, mirror, legacy, declared, rootCopy, begun>>

\* A declaration is new, matches, misses its mirror, or is refused.  Reading the
\* attributes may fail, which is not the same as their absence.
PrecedenceByMirror(i, cp, attrs) ==
    IF attrs = None THEN "write" ELSE IF cp = i /\ attrs = i THEN "matched" ELSE "conflict"
Precedence(i, cp, attrs) ==
    IF cp = None THEN IF attrs = None THEN "write" ELSE "drift"
    ELSE IF cp # i THEN "conflict"
    ELSE IF attrs = i THEN "matched"
    ELSE IF attrs = None THEN "mirror" ELSE "drift"

ReadAttrs(p) ==
    /\ npc[p] = "attrs"
    /\ LET next == Precedence(declared[p], seen[p], mirror)
       IN  \/ next \in {"write", "mirror"} /\ GoTo(p, next) /\ UNCHANGED <<idxClaim, outcome>>
           \/ next \notin {"write", "mirror"} /\ End(p, next)
           \/ End(p, "error")
    /\ UNCHANGED <<record, mirror, legacy, declared, seen, retries, rootCopy, begun>>

WriteRecord(p) ==
    /\ npc[p] = "write" /\ record' = declared[p] /\ GoTo(p, "mirror")
    /\ UNCHANGED <<mirror, legacy, idxClaim, declared, seen, retries, outcome, rootCopy, begun>>

\* _mirror_resolved_index_attrs; when it raises, the record stays without a mirror.
MirrorRecord(p) ==
    /\ npc[p] = "mirror"
    /\ \/ mirror' = declared[p] /\ End(p, "created")
       \/ UNCHANGED mirror /\ End(p, "error")
    /\ UNCHANGED <<record, legacy, declared, seen, retries, rootCopy, begun>>

-----------------------------------------------------------------------------
(* Without the claim.                                                      *)

\* Another identity is refused, no record yet is waited for.
LostReadsRecord(p) ==
    /\ npc[p] = "lost"
    /\ \/ RefusedByMaintenance(p)
       \/ /\ seen' = [seen EXCEPT ![p] = record]
          /\ \/ record \notin {None, declared[p]} /\ End(p, "conflict") /\ UNCHANGED retries
             \/ /\ record = declared[p] /\ GoTo(p, "lostattrs")
                /\ UNCHANGED <<idxClaim, outcome, retries>>
             \/ record = None /\ retries[p] = MaxRetries /\ End(p, "timeout") /\ UNCHANGED retries
             \/ /\ record = None /\ retries[p] < MaxRetries
                /\ retries' = [retries EXCEPT ![p] = @ + 1] /\ GoTo(p, "claim")
                /\ UNCHANGED <<idxClaim, outcome>>
    /\ UNCHANGED <<record, mirror, legacy, declared, rootCopy, begun>>

LostReadsAttrs(p) ==
    /\ npc[p] = "lostattrs"
    /\ \/ mirror = declared[p] /\ End(p, "matched")
       \/ mirror = None /\ GoTo(p, "lostmirror") /\ UNCHANGED <<idxClaim, outcome>>
       \/ mirror \notin {None, declared[p]} /\ End(p, "drift")
       \/ End(p, "error")
    /\ UNCHANGED <<record, mirror, legacy, declared, seen, retries, rootCopy, begun>>

LostMirrors(p) ==
    /\ npc[p] = "lostmirror"
    /\ \/ mirror' = seen[p] /\ End(p, "matched")
       \/ UNCHANGED mirror /\ End(p, "error")
    /\ UNCHANGED <<record, legacy, declared, seen, retries, rootCopy, begun>>

-----------------------------------------------------------------------------
Crash(p) ==
    /\ npc[p] \notin {"idle", "dead"} /\ GoTo(p, "dead")
    /\ UNCHANGED <<record, mirror, legacy, idxClaim, declared, seen, retries, outcome, rootCopy, begun>>

\* The operator clears the claim of a process that is dead.
ClearDeadClaim ==
    /\ idxClaim # None /\ npc[idxClaim] = "dead" /\ idxClaim' = None
    /\ UNCHANGED <<record, mirror, legacy, npc, declared, seen, retries, outcome, rootCopy, begun>>

\* Another process changes other attributes of the root: it reads the document
\* and writes it back with its change.
ReadRoot ==
    /\ rootCopy = Absent /\ rootCopy' = mirror
    /\ UNCHANGED <<record, mirror, legacy, idxClaim, npc, declared, seen, retries, outcome, begun>>
WriteRoot ==
    /\ rootCopy # Absent /\ mirror' = rootCopy /\ rootCopy' = Absent
    /\ UNCHANGED <<record, legacy, idxClaim, npc, declared, seen, retries, outcome, begun>>

IndexNext ==
    \/ \E p \in Negotiators, i \in Idents : Begin(p, i) \/ Rebuild(p, i)
    \/ \E p \in Negotiators : \/ Acquire(p) \/ ReadRecord(p) \/ ReadAttrs(p) \/ WriteRecord(p)
                              \/ MirrorRecord(p) \/ LostReadsRecord(p) \/ LostReadsAttrs(p)
                              \/ LostMirrors(p) \/ Crash(p)
    \/ ClearDeadClaim \/ ReadRoot \/ WriteRoot

-----------------------------------------------------------------------------
(* Properties.                                                             *)

IndexTypeOK ==
    /\ record \in Idents \cup {None} /\ mirror \in Idents \cup {None}
    /\ idxClaim \in Negotiators \cup {None} /\ npc \in [Negotiators -> Steps]
    /\ declared \in [Negotiators -> Idents \cup {None}] /\ seen \in [Negotiators -> Idents \cup {None}]
    /\ retries \in [Negotiators -> 0 .. MaxRetries] /\ outcome \in [Negotiators -> Outcomes]
    /\ rootCopy \in Idents \cup {None, Absent} /\ begun \in 0 .. MaxStarts
    /\ \A p \in Negotiators : npc[p] \in {"read", "attrs", "write", "mirror"} => idxClaim = p

\* The index of a product is settled once: no negotiation, retry or rebuild
\* replaces a record, whatever order its reads and writes happen in.
RecordIsFinal == record # None => record' = record

\* Whoever was let through declares the recorded index, with or without the claim.
WinnersAgree ==
    \A p \in Negotiators : outcome[p] \in {"created", "matched"} => record = declared[p]

\* The mirror shows the record or nothing: also when a loser writes it without the
\* claim, and when a stale copy of the root document is written back.
MirrorFollowsRecord == mirror # None => mirror = record

\* Nobody is refused without cause: a conflict means that another identity is
\* recorded, and drift is never an effect of the negotiations themselves.
RefusalsHaveCause ==
    \A p \in Negotiators : /\ outcome[p] = "conflict" => record \notin {None, declared[p]}
                           /\ outcome[p] # "drift"

\* A product with a slot-index record of an earlier version never gets an index
\* that contradicts it: slots keep their meaning for the data already written.
LegacySlotsKeepTheirMeaning ==
    legacy # None /\ record # None => LegacyOf[record] \in {None, legacy}

IndexInvariant ==
    /\ IndexTypeOK
    /\ WinnersAgree
    /\ MirrorFollowsRecord
    /\ RefusalsHaveCause
    /\ LegacySlotsKeepTheirMeaning

\* What the negotiation promises to every run that starts.
IndexIsSettledOnce == []IndexInvariant /\ [][RecordIsFinal]_ivars

=============================================================================
