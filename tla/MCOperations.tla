---------------------------- MODULE MCOperations ----------------------------
(***************************************************************************)
(* Operations on a product, checked in one run: deletion of chunks,        *)
(* migration of its metadata, releases with their archives, the event      *)
(* segments of a run, and metadata snapshots under the admission of        *)
(* Maintenance.  They share no state in the model; `part` is the one whose *)
(* steps a behaviour takes, while the variables of the others keep their   *)
(* initial values.                                                         *)
(*                                                                         *)
(* a1 and a2 are the interchangeable processes of each of them.            *)
(***************************************************************************)
EXTENDS Snapshots, Sequences, TLC

CONSTANTS a1, a2

Actors == {a1, a2}
ActorSymmetry == Permutations(Actors)

VARIABLES
    part,
    \* Deletion
    hasState, data, deleted, active, stored, dpc, req, dtodo, span, grids, listed,
    errs, spanErrs, gone, collateral, requests, suspect, lost,
    \* Migration
    nodes, status, journal, starts, releases, currentRel, migrator, gpc, migration,
    installed, edits, lateEdit,
    \* Releases
    live, zips, exclusive, rel, res, inventories, lastZip, used, unclean, stray,
    \* RunSegments
    doc, files, writer, spc, ending, spans, tries, sealed, overlap, blind, tears

deletionVars == <<hasState, data, deleted, active, stored, dpc, req, dtodo, span, grids,
                  listed, errs, spanErrs, gone, collateral, requests, suspect, lost>>
migrationVars == <<nodes, status, journal, starts, releases, currentRel, migrator, gpc,
                   migration, installed, edits, lateEdit>>
releasesVars == <<live, zips, exclusive, rel, res, inventories, lastZip, used, unclean, stray>>
segmentsVars == <<doc, files, writer, spc, ending, spans, tries, sealed, overlap, blind, tears>>
snapshotVars == <<vars, svars>>

-----------------------------------------------------------------------------
(* Chunk deletion: three spans, the first two of which share array "a" and *)
(* every chunk of the state array with a neighbour.                        *)

DeletionRanges == [s1 |-> {<<0, 1>>}, s2 |-> {<<2, 2>>}, s3 |-> {<<3, 3>>}]
DeletionOptions ==
    {o \in [force : BOOLEAN, really : BOOLEAN, marks : BOOLEAN, states : BOOLEAN] :
        /\ o.really => o.force
        /\ o.marks \/ o.states
        /\ ~o.really => o.marks /\ o.states}

D == INSTANCE Deletion WITH
    Spans <- DOMAIN DeletionRanges,
    Ranges <- DeletionRanges,
    ArraysOf <- [s1 |-> {"a", "b"}, s2 |-> {"a"}, s3 |-> {"a", "b"}],
    ChunkLen <- [a |-> 2, b |-> 1],
    Length <- 4,
    StateChunk <- 2,
    Objects <- {"o1"},
    Options <- DeletionOptions,
    MaxTargets <- 2,
    MaxRequests <- 2,
    todo <- dtodo

(* Migration: two steps on two documents, the second after the first, one  *)
(* of them with a release; two runs by two processes and a foreign edit.   *)

M == INSTANCE Migration WITH
    Nodes <- {"a", "b"},
    Steps <- {"s1", "s2"},
    Touches <- [s1 |-> {"a", "b"}, s2 |-> {"b"}],
    DependsOn <- [s1 |-> {}, s2 |-> {"s1"}],
    ReleaseOf <- [s1 |-> "v1", s2 |-> "none"],
    Procs <- Actors,
    MaxRuns <- 2,
    Edits <- {"e1"},
    holder <- migrator,
    job <- migration,
    docs <- nodes, mpc <- gpc

(* Releases and archives: two releasers, one restore, a fault.             *)

R == INSTANCE Releases WITH
    Releasers <- Actors,
    Restorers <- {"q1"},
    Versions <- {"v1", "v2"},
    Paths <- {"a", "b"},
    DataKeys <- {"x"},
    Contents <- {1, 2},
    Budget <- [releases |-> 2, restores |-> 1, writes |-> 2, faults |-> 1],
    holder <- exclusive

(* Run segments: a run of two spans and two operators who abandon it.      *)

S == INSTANCE RunSegments WITH
    Worker <- "p",
    Operators <- Actors,
    MaxSpans <- 2,
    MaxTries <- 1,
    wpc <- spc

(* Metadata snapshots: a writer, a maintainer and an observer; two         *)
(* documents, one change (the constants of Snapshots).                     *)

-----------------------------------------------------------------------------
Parts == {"deletion", "migration", "releases", "segments", "snapshots"}

\* The component of the behaviour starts anywhere it may; of the others it
\* only matters that their variables have a value.
MCInit ==
    /\ part \in Parts
    /\ \E filled \in BOOLEAN : D!InitWith(filled) /\ (filled => part = "deletion")
    /\ M!InitWith(TRUE)
    /\ R!ReleasesInit
    /\ S!RunInit
    /\ Init /\ SnapshotInit
    /\ part # "snapshots" => \A d \in Documents : docs[d] = "A"

Deletes ==
    /\ part = "deletion" /\ D!DeletionNext
    /\ UNCHANGED <<migrationVars, releasesVars, segmentsVars, snapshotVars>>
Migrates ==
    /\ part = "migration" /\ M!MigrationNext
    /\ UNCHANGED <<deletionVars, releasesVars, segmentsVars, snapshotVars>>
ReleasesOrRestores ==
    /\ part = "releases" /\ R!ReleasesNext
    /\ UNCHANGED <<deletionVars, migrationVars, segmentsVars, snapshotVars>>
RecordsEvents ==
    /\ part = "segments" /\ S!RunNext
    /\ UNCHANGED <<deletionVars, migrationVars, releasesVars, snapshotVars>>
TakesSnapshots ==
    /\ part = "snapshots" /\ SnapshotNext
    /\ UNCHANGED <<deletionVars, migrationVars, releasesVars, segmentsVars>>

MCNext ==
    /\ UNCHANGED part
    /\ Deletes \/ Migrates \/ ReleasesOrRestores \/ RecordsEvents \/ TakesSnapshots

MCVars == <<part, deletionVars, migrationVars, releasesVars, segmentsVars, snapshotVars>>

MCSpec == MCInit /\ [][MCNext]_MCVars

-----------------------------------------------------------------------------
(* The contracts: <Component>!<Contract>, said of the behaviours of that   *)
(* component. SnapshotsHold is checked as it stands in Snapshots: where    *)
(* nobody takes a snapshot there is none.                                  *)

DeletionIsAccountedFor ==
    /\ [](part = "deletion" => D!DeletionInvariant)
    /\ [][part = "deletion" => D!DeletionStep]_MCVars

MigrationIsExact ==
    /\ [](part = "migration" => M!MigrationInvariant)
    /\ [][part = "migration" => M!MigrationStep]_MCVars

ReleasesAreKept ==
    /\ [](part = "releases" => R!ReleasesInvariant)
    /\ [][part = "releases" => R!ReleasesStep]_MCVars

RunIsRecorded ==
    /\ [](part = "segments" => S!RunInvariant)
    /\ [][part = "segments" => S!EndIsFinal]_MCVars
=============================================================================
