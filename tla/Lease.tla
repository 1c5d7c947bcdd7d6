-------------------------------- MODULE Lease --------------------------------
(***************************************************************************)
(* What a write-domain claim promises, without records, revisions or lost  *)
(* answers: at most one acquisition is granted at a time, a grant ends     *)
(* only after its owner stopped acting on it or by an eviction, and an     *)
(* owner acts on a grant it no longer has only after an eviction.          *)
(***************************************************************************)
CONSTANTS
    Incs,     \* acquisitions
    NoOne     \* no grant

VARIABLES
    holder,   \* the acquisition the claim is granted to
    active,   \* acquisitions whose owner still acts on the grant
    evicted   \* acquisitions whose grant an operator ended

lvars == <<holder, active, evicted>>

LeaseTypeOK ==
    /\ holder \in Incs \cup {NoOne}
    /\ active \subseteq Incs
    /\ evicted \subseteq Incs

LeaseInit == holder = NoOne /\ active = {} /\ evicted = {}

\* An acquisition whose caller never learnt of the grant is not active.
Grant(i) ==
    /\ holder = NoOne
    /\ holder' = i
    /\ active' \in {active, active \cup {i}}
    /\ UNCHANGED evicted

\* The owner releases, crashes, or learns that it was evicted.
Retreat(i) ==
    /\ i \in active
    /\ active' = active \ {i}
    /\ UNCHANGED <<holder, evicted>>

GiveBack(i) ==
    /\ holder = i /\ i \notin active
    /\ holder' = NoOne
    /\ UNCHANGED <<active, evicted>>

Evict(i) ==
    /\ holder = i
    /\ holder' = NoOne
    /\ evicted' = evicted \cup {i}
    /\ UNCHANGED active

LeaseNext == \E i \in Incs : Grant(i) \/ Retreat(i) \/ GiveBack(i) \/ Evict(i)

LeaseSpec == LeaseInit /\ [][LeaseNext]_lvars

\* An owner that acts on its grant has it, unless it was evicted.
LeaseExclusive == \A i \in active : holder = i \/ i \in evicted
=============================================================================
