---------------------------- MODULE Consolidation ----------------------------
(***************************************************************************)
(* `firecube zarr consolidate-time-coord` (coord_consolidation.py): the    *)
(* time coordinate of every group is rewritten densely, sealed, and the    *)
(* seal recorded in the control plane.                                     *)
(*                                                                         *)
(* The store is local.  An array is a directory: its metadata and its      *)
(* chunks, which are made and removed one at a time, while a rename takes  *)
(* the whole directory.  A run may die at any step, by a crash or because  *)
(* a call raises, and the operator runs the command again.  Runs come one  *)
(* after the other: the command takes no claim, and nothing else writes to *)
(* the product meanwhile.                                                  *)
(***************************************************************************)
EXTENDS Integers, FiniteSets, Sequences, SequencesExt

CONSTANTS
    Walk,       \* the groups in the order of _walk_zarr_groups
    Covers,     \* Covers[g]: groups whose metadata the image of `g` holds
    Chunks,     \* pieces of a coordinate's values
    Coords,     \* coordinates the product may start with: kind and reference
    MaxRuns     \* bound: runs of the command

Groups == Range(Walk)

VARIABLES
    coord,      \* the directory of the coordinate, or Absent
    temp,       \* its .consolidating sibling, or Absent
    reference,  \* what the resolved index says of the values: none, agrees or differs;
                \* or absent, where the group has no time coordinate
    image,      \* groups a consolidated image shows as they are, or NoImage
    events,     \* seals recorded: group and time
    runs,       \* runs started; the number is the time consolidated_at
    cmd,        \* the run under way
    torn        \* history: groups in which a run died while it removed the original

cvars == <<coord, temp, reference, image, events, runs, cmd, torn>>

\* meta: zarr.json is there; pre: firecube_preallocated; at: firecube_consolidated_at,
\* 0 for none; managed: firecube_coord_managed.
Directory(chunks, pre, at, managed) ==
    [meta |-> TRUE, chunks |-> chunks, pre |-> pre, at |-> at, managed |-> managed]
Absent == [meta |-> FALSE, chunks |-> {}, pre |-> FALSE, at |-> -1, managed |-> FALSE]
NoImage == {"none"}

Exists(d) == d # Absent
Whole(d) == d.meta /\ d.chunks = Chunks
HasImage(g) == image[g] # NoImage
RecordedGroups == {e.group : e \in events}

Idle == [pc |-> "idle"]

ConsolidationInit ==
    /\ \E start \in [Groups -> Coords] :
         /\ coord = [g \in Groups |->
              IF start[g].reference = "absent" THEN Absent
              ELSE Directory(Chunks, start[g].kind = "preallocated", 0, start[g].kind = "managed")]
         /\ reference = [g \in Groups |-> start[g].reference]
    /\ temp = [g \in Groups |-> Absent]
    /\ \E with \in SUBSET Groups : image = [g \in Groups |-> IF g \in with THEN Covers[g] ELSE NoImage]
    /\ events = {} /\ runs = 0 /\ cmd = Idle /\ torn = {}

-----------------------------------------------------------------------------
(* A run: the groups in turn, the images, then the events.                 *)

Goto(pc) == cmd' = [cmd EXCEPT !.pc = pc]
NextGroup(c) == [c EXCEPT !.pc = "group", !.at = c.at + 1]
Group == Walk[cmd.at]

\* `explicit`: the operator names the coordinate, which is found by its type otherwise.
Start(explicit) ==
    /\ cmd = Idle /\ runs < MaxRuns
    /\ runs' = runs + 1
    /\ cmd' = [pc |-> "group", at |-> 1, explicit |-> explicit, seals |-> RecordedGroups,
               backfills |-> <<>>, sealed |-> <<>>, values |-> {}, image |-> 0]
    /\ UNCHANGED <<coord, temp, reference, image, events, torn>>

\* The run dies: a crash, or a call raises.
Dies ==
    /\ cmd # Idle
    /\ cmd' = Idle
    /\ torn' = IF cmd.pc = "removing" /\ ~Whole(coord[Group]) /\ Exists(coord[Group])
               THEN torn \cup {Group} ELSE torn
    /\ UNCHANGED <<coord, temp, reference, image, events, runs>>

Found(g) == coord[g].meta \/ temp[g].meta

\* A group in which no time coordinate is found.
SkipGroup ==
    /\ cmd.pc = "group" /\ cmd.at <= Len(Walk) /\ ~Found(Group) /\ ~cmd.explicit
    /\ cmd' = NextGroup(cmd)
    /\ UNCHANGED <<coord, temp, reference, image, events, runs, torn>>

\* Mutant: a preallocated coordinate is taken for a consolidated one.
BackfilledAny(g) ==
    IF g \in cmd.seals THEN <<>> ELSE <<[group |-> g, at |-> coord[g].at]>>

\* _maybe_backfill_consolidated_wal: a sealed group the snapshot of seals lacks.
Backfilled(g) ==
    IF coord[g].at = 0 \/ g \in cmd.seals THEN <<>>
    ELSE <<[group |-> g, at |-> coord[g].at]>>

AlreadySealed ==
    /\ cmd.pc = "group" /\ cmd.at <= Len(Walk)
    /\ coord[Group].meta /\ coord[Group].pre /\ ~Exists(temp[Group])
    /\ cmd' = [NextGroup(cmd) EXCEPT !.backfills = @ \o Backfilled(Group)]
    /\ UNCHANGED <<coord, temp, reference, image, events, runs, torn>>

\* The states the command refuses: the array it expects is missing, its directory has
\* no metadata, or a sealed coordinate has a sibling.
Unexpected(g) ==
    \/ ~Found(g) /\ cmd.explicit
    \/ Found(g) /\ Exists(coord[g]) /\ ~coord[g].meta
    \/ coord[g].meta /\ coord[g].pre /\ Exists(temp[g])

RefusesState ==
    /\ cmd.pc = "group" /\ cmd.at <= Len(Walk) /\ Unexpected(Group)
    /\ cmd' = Idle
    /\ UNCHANGED <<coord, temp, reference, image, events, runs, torn>>

\* partial_pre_swap: the sibling goes; then the coordinate is rewritten.
Discards ==
    /\ cmd.pc = "group" /\ cmd.at <= Len(Walk)
    /\ coord[Group].meta /\ ~coord[Group].pre /\ Exists(temp[Group])
    /\ Goto("discarding")
    /\ UNCHANGED <<coord, temp, reference, image, events, runs, torn>>

\* partial_post_delete: the sibling takes the place of the coordinate.
Promotes ==
    /\ cmd.pc = "group" /\ cmd.at <= Len(Walk)
    /\ ~Exists(coord[Group]) /\ temp[Group].meta
    /\ coord' = [coord EXCEPT ![Group] = temp[Group]]
    /\ temp' = [temp EXCEPT ![Group] = Absent]
    /\ image' = [g \in Groups |-> IF HasImage(g) THEN image[g] \ {Group} ELSE NoImage]
    /\ Goto("promoted")
    /\ UNCHANGED <<reference, events, runs, torn>>

\* _seal_recovered_time_coord stamps it with the time of this run.
SealsPromoted ==
    /\ cmd.pc = "promoted"
    /\ coord' = [coord EXCEPT ![Group].pre = TRUE, ![Group].at = runs]
    /\ cmd' = [NextGroup(cmd) EXCEPT !.sealed = Append(@, Group)]
    /\ UNCHANGED <<temp, reference, image, events, runs, torn>>

-----------------------------------------------------------------------------
(* The rewrite.                                                            *)

\* Directories a step of shutil.rmtree may leave of `d`: it removes the entries in any
\* order, and the directory at the end.
Remains(d) ==
    IF ~d.meta /\ d.chunks = {} THEN {Absent}
    ELSE {[d EXCEPT !.chunks = @ \ {c}] : c \in d.chunks}
         \cup (IF d.meta THEN {[d EXCEPT !.meta = FALSE, !.pre = FALSE, !.at = 0, !.managed = FALSE]}
               ELSE {})

DiscardStep ==
    /\ cmd.pc = "discarding" /\ Exists(temp[Group])
    /\ \E d \in Remains(temp[Group]) : temp' = [temp EXCEPT ![Group] = d]
    /\ UNCHANGED <<coord, reference, image, events, runs, cmd, torn>>

\* _analyze_time_coord_against_reference: a chunk that is missing reads as fill.
Drifted(g) ==
    reference[g] = "differs" \/ (reference[g] = "agrees" /\ coord[g].chunks # Chunks)

Legacy(g) == coord[g].meta /\ ~coord[g].pre /\ ~Exists(temp[g])

AtLegacy ==
    /\ cmd.pc \in {"group", "discarding"} /\ cmd.at <= Len(Walk)
    /\ Legacy(Group)

RefusesCoord ==
    /\ AtLegacy /\ (coord[Group].managed \/ Drifted(Group))
    /\ cmd' = Idle
    /\ UNCHANGED <<coord, temp, reference, image, events, runs, torn>>

\* Reads the values and creates the sibling, which carries the seal from the start.
Creates ==
    /\ AtLegacy /\ ~coord[Group].managed /\ ~Drifted(Group)
    /\ temp' = [temp EXCEPT ![Group] = Directory({}, TRUE, runs, FALSE)]
    /\ cmd' = [cmd EXCEPT !.pc = "writing", !.values = coord[Group].chunks]
    /\ UNCHANGED <<coord, reference, image, events, runs, torn>>

WriteChunk(c) ==
    /\ cmd.pc = "writing" /\ c \in cmd.values \ temp[Group].chunks
    /\ temp' = [temp EXCEPT ![Group].chunks = @ \cup {c}]
    /\ UNCHANGED <<coord, reference, image, events, runs, cmd, torn>>

Removes ==
    /\ cmd.pc = "writing" /\ temp[Group].chunks = cmd.values
    /\ Goto("removing")
    /\ UNCHANGED <<coord, temp, reference, image, events, runs, torn>>

RemoveStep ==
    /\ cmd.pc = "removing" /\ Exists(coord[Group])
    /\ \E d \in Remains(coord[Group]) : coord' = [coord EXCEPT ![Group] = d]
    /\ image' = [g \in Groups |-> IF HasImage(g) THEN image[g] \ {Group} ELSE NoImage]
    /\ UNCHANGED <<temp, reference, events, runs, cmd, torn>>

Renames ==
    /\ cmd.pc = "removing" /\ ~Exists(coord[Group])
    /\ coord' = [coord EXCEPT ![Group] = temp[Group]]
    /\ temp' = [temp EXCEPT ![Group] = Absent]
    /\ cmd' = [NextGroup(cmd) EXCEPT !.sealed = Append(@, Group)]
    /\ UNCHANGED <<reference, image, events, runs, torn>>

-----------------------------------------------------------------------------
(* After the groups.                                                       *)

\* Nothing was sealed and nothing is missing: the run returns.
NothingToRecord ==
    /\ cmd.pc = "group" /\ cmd.at > Len(Walk)
    /\ cmd.sealed = <<>> /\ cmd.backfills = <<>>
    /\ cmd' = Idle
    /\ UNCHANGED <<coord, temp, reference, image, events, runs, torn>>

StartsRefresh ==
    /\ cmd.pc = "group" /\ cmd.at > Len(Walk)
    /\ cmd.sealed # <<>> \/ cmd.backfills # <<>>
    /\ cmd' = [cmd EXCEPT !.pc = "refreshing", !.image = 1]
    /\ UNCHANGED <<coord, temp, reference, image, events, runs, torn>>

\* A group without an image gets none.
Refreshes ==
    /\ cmd.pc = "refreshing" /\ cmd.image <= Len(Walk)
    /\ LET g == Walk[cmd.image]
       IN image' = IF HasImage(g) THEN [image EXCEPT ![g] = Covers[g]] ELSE image
    /\ cmd' = [cmd EXCEPT !.image = @ + 1]
    /\ UNCHANGED <<coord, temp, reference, events, runs, torn>>

Refreshed == cmd.pc = "refreshing" /\ cmd.image > Len(Walk)

\* One event for each backfilled group, with the time its coordinate carries.
RecordsBackfill ==
    /\ Refreshed /\ cmd.backfills # <<>>
    /\ events' = events \cup {Head(cmd.backfills)}
    /\ cmd' = [cmd EXCEPT !.backfills = Tail(@)]
    /\ UNCHANGED <<coord, temp, reference, image, runs, torn>>

\* One event for the groups this run sealed; the run returns.
RecordsSealed ==
    /\ Refreshed /\ cmd.backfills = <<>>
    /\ events' = events \cup {[group |-> g, at |-> runs] : g \in Range(cmd.sealed)}
    /\ cmd' = Idle
    /\ UNCHANGED <<coord, temp, reference, image, runs, torn>>

Returns == NothingToRecord \/ RecordsSealed
Refuses == RefusesState \/ RefusesCoord

ConsolidationNext ==
    \/ \E explicit \in BOOLEAN : Start(explicit)
    \/ Dies
    \/ SkipGroup \/ AlreadySealed \/ Discards \/ Promotes \/ SealsPromoted
    \/ DiscardStep \/ Creates \/ (\E c \in Chunks : WriteChunk(c))
    \/ Removes \/ RemoveStep \/ Renames
    \/ StartsRefresh \/ Refreshes \/ RecordsBackfill
    \/ Returns \/ Refuses

ConsolidationSpec == ConsolidationInit /\ [][ConsolidationNext]_cvars

-----------------------------------------------------------------------------
(* Properties.                                                             *)

ConsolidationTypeOK ==
    /\ \A g \in Groups : coord[g].chunks \subseteq Chunks /\ temp[g].chunks \subseteq Chunks
    /\ \A g \in Groups : image[g] = NoImage \/ image[g] \subseteq Covers[g]
    /\ \A e \in events : e.group \in Groups /\ e.at \in 0 .. runs
    /\ torn \subseteq Groups

Coordinated == {g \in Groups : reference[g] # "absent"}
ValuesOf(g) == Whole(coord[g]) \/ Whole(temp[g])

\* "If a local consolidation is interrupted, re-run the command: it detects the partial
\* state, repairs it, and preserves the coordinate values" (_consolidate.py): one of the
\* two directories holds all of them.  A run that died within the removal of the original
\* is the exception: the next one takes what is left for the whole and drops the sibling.
ValuesAreKept == \A g \in Coordinated \ torn : ValuesOf(g)

\* A recorded seal is on the coordinate, with its time, and every consolidated image
\* shows it: whoever finds the event finds the dense coordinate, also through an image
\* that an earlier run had failed to refresh.
RecordedIsSealed ==
    \A e \in events :
        /\ coord[e.group].meta /\ coord[e.group].pre
        /\ coord[e.group].at = e.at /\ e.at # 0
        /\ \A g \in Groups : HasImage(g) /\ e.group \in Covers[g] => e.group \in image[g]

\* A group is recorded once, by the run that sealed it or by one that found it sealed.
RecordedOnce == \A d, e \in events : d.group = e.group => d = e

\* A recorded coordinate, and one the engine manages, is left alone.
SealedStays ==
    \A g \in Groups : g \in RecordedGroups \/ coord[g].managed => coord'[g] = coord[g]

\* A run that returns has repaired what earlier runs left: every group is sealed, no
\* sibling is left, and every coordinate a run sealed is recorded.
ReturnedMeansDone ==
    Returns => \A g \in Coordinated \ torn :
                  /\ coord[g].pre /\ ~Exists(temp[g])
                  /\ coord[g].at # 0 => g \in {e.group : e \in events'}

\* A run is refused for what the coordinate is, never for what earlier runs left.
RefusedForCause ==
    Refuses => Group \in torn \/ coord[Group].managed \/ reference[Group] \in {"differs", "absent"}

ConsolidationInvariant ==
    ConsolidationTypeOK /\ ValuesAreKept /\ RecordedIsSealed /\ RecordedOnce
ConsolidationStep == SealedStays /\ ReturnedMeansDone /\ RefusedForCause

\* What the command promises to the owner of a product.
ConsolidationIsRepeatable == []ConsolidationInvariant /\ [][ConsolidationStep]_cvars
=============================================================================
