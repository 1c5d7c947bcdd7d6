----------------------------- MODULE EngineOwned -----------------------------
(***************************************************************************)
(* Engine-owned per-slot arrays (engine_owned.py): preallocation writes    *)
(* the values that the source items give, marks the slots that hold one    *)
(* and stamps the array complete; ingesting pods only compare with them.   *)
(* The process can die between any two of its writes, and in the middle of *)
(* the one over the whole array, which is stored chunk by chunk; the next  *)
(* run may see other source items.  A value may equal the fill value, so   *)
(* that the stored array alone does not tell a written slot from an empty  *)
(* one.                                                                    *)
(*                                                                         *)
(* One array; the runs on it exclude each other by the materialization     *)
(* claim (Preallocation).                                                  *)
(***************************************************************************)
EXTENDS Integers, FiniteSets, Functions

CONSTANTS
    OwnedSlots,  \* slots of the array
    OwnedValues, \* values an item may give, Fill among them
    Fill,        \* the fill value
    ChunkOf,     \* ChunkOf[t]: the stored chunk of slot t
    ItemSets,    \* sets of items a run may find: pairs of a slot and a value
    MaxOwnedRuns \* bound: runs

VARIABLES
    owned,     \* the array's marker: it belongs to the engine
    values,    \* stored values
    written,   \* slots listed in the attributes
    complete,  \* the complete stamp
    opc,       \* where the run is
    source,    \* the values its items give, by slot
    added,     \* slots it is to list
    settled,   \* those of them whose stored value is right already
    pending,   \* chunks it has still to store
    finished,  \* history: what the last run that finished gave
    given,     \* history: what any run that got to writing gave
    last,      \* history: what the last of them gave
    verdicts,  \* history: slots and values that a pod has found to be stored
    ownedRuns  \* history: runs

ovars == <<owned, values, written, complete, opc, source, added, settled, pending,
           finished, given, last, verdicts, ownedRuns>>

Pairs(f) == {<<t, f[t]>> : t \in DOMAIN f}
Empty == [t \in {} |-> Fill]

OwnedInit ==
    /\ owned = FALSE /\ values = [t \in OwnedSlots |-> Fill] /\ written = {} /\ complete = FALSE
    /\ opc = "idle" /\ source = Empty /\ added = {} /\ settled = {} /\ pending = {}
    /\ finished = {} /\ given = {} /\ last = Empty /\ verdicts = {} /\ ownedRuns = 0

\* collect_engine_owned_values: two items that disagree on a slot are refused.
Agree(items) == \A a, b \in items : a[1] = b[1] => a[2] = b[2]

\* The run creates the array with its marker and an empty list when it is absent.
Materialize(items) ==
    /\ opc = "idle" /\ ownedRuns < MaxOwnedRuns /\ ownedRuns' = ownedRuns + 1
    /\ Agree(items)
    /\ source' = [t \in {i[1] : i \in items} |-> (CHOOSE i \in items : i[1] = t)[2]]
    /\ owned' = TRUE /\ opc' = "compare"
    /\ UNCHANGED <<values, written, complete, added, settled, pending, finished, given, last, verdicts>>

\* A listed slot has to hold the value the sources give, another one that value or
\* the fill value.
Compatible(src) ==
    \A t \in DOMAIN src : IF t \in written THEN values[t] = src[t] ELSE values[t] \in {src[t], Fill}

\* The stored values are compared with the sources before anything is written.
Compare ==
    /\ opc = "compare"
    /\ \/ /\ ~Compatible(source) /\ opc' = "idle"
          /\ UNCHANGED <<added, settled, pending, given, last>>
       \/ /\ Compatible(source) /\ opc' = "uncomplete"
          /\ added' = DOMAIN source \ written
          /\ settled' = {t \in added' : values[t] = source[t]}
          /\ pending' = IF settled' = added' THEN {} ELSE {ChunkOf[t] : t \in OwnedSlots}
          /\ given' = given \cup Pairs(source) /\ last' = source
    /\ UNCHANGED <<owned, values, written, complete, source, finished, verdicts, ownedRuns>>

\* The stamp goes before the first slot is added.
Uncomplete ==
    /\ opc = "uncomplete" /\ opc' = "settle"
    /\ complete' = (complete /\ added = {})
    /\ UNCHANGED <<owned, values, written, source, added, settled, pending, finished, given, last,
                   verdicts, ownedRuns>>

\* Slots that hold their value already are listed before the array is written.
SettleAll ==
    /\ opc = "settle" /\ opc' = "store"
    /\ written' = written \cup added
    /\ UNCHANGED <<owned, values, complete, source, added, settled, pending, finished, given, last,
                   verdicts, ownedRuns>>
Settle ==
    /\ opc = "settle" /\ opc' = "store"
    /\ written' = written \cup settled
    /\ UNCHANGED <<owned, values, complete, source, added, settled, pending, finished, given, last,
                   verdicts, ownedRuns>>

\* The whole array is written, one chunk after the other.
StoreChunk(c) ==
    /\ opc = "store" /\ c \in pending /\ pending' = pending \ {c}
    /\ values' = [t \in OwnedSlots |-> IF ChunkOf[t] = c /\ t \in added THEN source[t] ELSE values[t]]
    /\ UNCHANGED <<owned, written, complete, opc, source, added, settled, finished, given, last,
                   verdicts, ownedRuns>>

ListAdded ==
    /\ opc = "store" /\ pending = {} /\ opc' = "stamp"
    /\ written' = written \cup added
    /\ UNCHANGED <<owned, values, complete, source, added, settled, pending, finished, given, last,
                   verdicts, ownedRuns>>

Stamp ==
    /\ opc = "stamp" /\ opc' = "idle" /\ complete' = TRUE
    /\ finished' = Pairs(source) /\ added' = {} /\ settled' = {}
    /\ UNCHANGED <<owned, values, written, source, pending, given, last, verdicts, ownedRuns>>

CrashOwned ==
    /\ opc # "idle" /\ opc' = "idle" /\ added' = {} /\ settled' = {} /\ pending' = {}
    /\ UNCHANGED <<owned, values, written, complete, source, finished, given, last, verdicts, ownedRuns>>

\* require_engine_owned_slots and verify_engine_owned_writes: a pod of the ingest
\* asks for a complete array and a listed slot, and compares its value.
PodVerifies(t) ==
    /\ owned /\ complete /\ t \in written
    /\ verdicts' = verdicts \cup {<<t, values[t]>>}
    /\ UNCHANGED <<owned, values, written, complete, opc, source, added, settled, pending, finished,
                   given, last, ownedRuns>>

OwnedNext ==
    \/ \E items \in ItemSets : Materialize(items)
    \/ Compare \/ Uncomplete \/ Settle \/ ListAdded \/ Stamp \/ CrashOwned
    \/ \E t \in OwnedSlots : StoreChunk(ChunkOf[t]) \/ PodVerifies(t)

-----------------------------------------------------------------------------
(* Properties.                                                             *)

OwnedTypeOK ==
    /\ owned \in BOOLEAN /\ complete \in BOOLEAN /\ values \in [OwnedSlots -> OwnedValues]
    /\ written \subseteq OwnedSlots /\ added \subseteq OwnedSlots /\ settled \subseteq added
    /\ opc \in {"idle", "compare", "uncomplete", "settle", "store", "stamp"}
    /\ pending \subseteq Range(ChunkOf) /\ DOMAIN source \subseteq OwnedSlots
    /\ (complete => owned) /\ (opc = "stamp" => pending = {})

\* A listed slot holds a value that sources gave for it, never the fill value of a
\* write that a crash has cut short.
ListedSlotsHoldValues == \A t \in written : <<t, values[t]>> \in given

\* What pods have compared their data with stays: no later run, of whatever
\* sources, changes it, and two pods are never told different values of a slot.
VerdictsStay ==
    /\ \A v \in verdicts : v[1] \in written /\ values[v[1]] = v[2]
    /\ \A v, w \in verdicts : v[1] = w[1] => v = w

\* A complete array has all that the last finished run gave, also while the next
\* run is at work and after it died.
CompleteMeansListed ==
    complete => \A f \in finished : f[1] \in written /\ values[f[1]] = f[2]

\* A run that died can be repeated with the same sources: what it stored does not
\* refuse them.
RepetitionIsPossible == opc # "compare" => Compatible(last)

\* A slot stays listed.
ListedSlotsStay == written \subseteq written'

OwnedInvariant ==
    /\ OwnedTypeOK
    /\ ListedSlotsHoldValues
    /\ VerdictsStay
    /\ CompleteMeansListed
    /\ RepetitionIsPossible

\* What the markers of an engine-owned array promise, over crashes and repeated
\* runs with other sources.
OwnedValuesAreSafe == []OwnedInvariant /\ [][ListedSlotsStay]_ovars

=============================================================================
