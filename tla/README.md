# firecube in TLA+

firecube is a batch ingestion engine for Zarr data cubes. Several processes
(ingestion pods, operators, maintenance jobs) work on one product at a time.
They share nothing but an object store: there is no database and no lock
server. What keeps them apart are claim records written with conditional
requests, run records in a write-ahead log, an index and markers in the
metadata of the store, and, inside a process, a few locks and condition
variables. These modules model that machinery, check it with TLC on small
instances and prove parts of it with TLAPS for every instance.

Paths in this file are relative to `src/src/firecube/` of the repository unless
they start with `docs/`, `plans/` or `cli/` (the last one below the same
directory).

## Inventory

| Component | State it keeps | Operations | Hard behaviour | Correct when |
|---|---|---|---|---|
| Claims (`core/controlplane/claims.py`) | one JSON record per write domain; in each owner a handle with validator, revision, `lost`, heartbeat thread; the run's `ClaimLossLatch` | `acquire`, takeover of a released record, heartbeat, `_reconcile`, `confirm`, `release`, `clear_claim`, stale sweep, `attach_latch` | answers that are lost, writes the store applies after the caller gave up, clears by operators, a heartbeat that finds the loss while the latch is attached | one owner at a time; lost answers never cost a claim; an evicted owner finds out; a loss reaches the run |
| Conditional store (`core/filesystem/conditional.py`, `protocol.py`, `publication.py`) | object generations, named by validators; a guard file and a lock per directory for local files | `create_if_absent`, `compare_replace`, `compare_delete` | resent requests refused although the first one committed; threads and processes compare and rename one file; a process dies with the guard | a call takes effect at one instant and only under its condition |
| Exclusive maintenance (`core/controlplane/manager.py`, `deletion.py`, `ingestor/runtime/archive.py`, `migrate.py`, `release.py`) | the exclusive claim, the other claims, run records | gates of writers, claimants and maintainers; abandon and clear | two sides check each other while both are starting; processes die anywhere | admitted maintenance is alone; leftovers can always be cleared |
| Run WAL and `run.json` (`_wal_writer.py`, `events.py`, `_wal_reader.py`) | numbered segments of events, `run.json` with status and `completed_at` | start, record span, terminal, replacement, flush, finalize, abandon, recover | several files per logical write, crashes between and inside them, two writers of one directory | a run is what its last `run.json` says, and can be read |
| Projection and compact cache (`_event_processor.py`, `_projection.py`, `_compact.py`, `repo.py`) | `compact/LATEST.json` and the records it points at | replay, overwrite subtraction, rebuild, incremental read | runs that complete while the cache is rebuilt | cache and full replay agree; the last writer of a slot owns it |
| Run registration (`ingestor/runtime/recording.py`, `base.py`) | plan of replaced and overwritten spans | `register_run`, `register_run_failure` | errors after the terminal record | ended runs are shown as they ended |
| Batch pipeline (`ingestor/runtime/engine.py`, `templates/generic.py`, `templates/direct_zarr.py`) | futures, results, not-attempted list | submit, collect, hooks, halt and cancel, finalize | worker threads, cancellation racing the pool | every batch counted once; a run that completes is whole |
| Ordered write gate (`ingestor/runtime/zarr/ordered_gate.py`) | `next_index`, `halted`, holder, indexes released ahead | `acquire`, `release`, `exclusive`, `reset` | turns given up out of order | appends form a gapless prefix; nobody waits for ever |
| Zarr write session (`ingestor/runtime/zarr/write_session.py`, `direct_region_adapter.py`) | session state, in-flight count, staged ledger, two metadata authorities, shared schema claims | `admit_write`, `verify_promotion`, `staged_promotion_units`, `close`, `schema_claim` | late threads, concurrent close, drain timeouts, claim loss, batches that share a claim | only whole units are promoted; nothing lands in a deleted workspace; batches of a run do not fail each other |
| Staged promotion (`staged_metadata.py`, `core/zarr/guard/unit_ownership.py`, `promotion_plan.py`, `core/storage/session.py`, `completion.py`) | workspace, ledger of touched and written slots, plan, target | seed, write, verify, prove, plan, publish | pods publish beside each other and beside a growing target | nothing a run did not write is reverted; no array shrinks; data precedes length |
| Resume guard (`ingestor/runtime/resume_guard.py`) | none of its own; reads runs and spans | `enforce`, once, before the start is recorded | runs that end while the guard reads; runs that start together | a run never starts on the ground of a run it must have noticed |
| Index negotiation (`core/controlplane/manager.py`, `ingestor/runtime/index_record.py`) | index record, attribute mirror, record of earlier versions | `ensure_resolved_index`, `ensure_slot_index_model`, rebuild | the loser of the claim reads before the winner has mirrored; a stale root document is written back | one index per product, slots keep their meaning |
| Coordinate windows, preallocation (`manager.py`, `ingestor/runtime/preallocate.py`, `core/zarr/coord_materialization.py`, `coord_rematerialization.py`) | time coordinate, markers, window claim, run | `claim_coord_materialization_window`, preflight, set-up, create, fill, seal | windows that share a stored chunk, crashes between shell and marker | settled slots stay; one coordinate has one meaning |
| Engine-owned arrays (`core/zarr/guard/engine_owned.py`) | values, slot listing, complete stamp | collect, compare, fill, list, verify | crash between fill and listing; sources that change | a listed slot holds a given value; verdicts stay |
| Region writes (`zarr/strategies/indexed_region.py`, `core/zarr/region_writer.py`, `guard/guarded_write.py`, `_unit_locks.py`) | array, slot claims, unit locks, thread pool | write of a batch's slots and rows, static arrays, growth | read and write back of a stored unit two writers share | no slot is lost |
| Unit write buffer (`core/zarr/guard/unit_buffer.py`, `_buffered_regions.py`) | open units, fragments, pending counts | take, flush, publish, close, discard | overlapping pieces, two spellings of an array, elided fills | buffering cannot be seen |
| Slot planning, parallel gate (`slot_plan.py`, `planning.py`, `parallel_gate.py`) | none; reads layout and runs | plan, refuse, admit a window | stale plans, windows by hand, odd last units | plans are executable; pods share no unit |
| Appends (`zarr/append.py`, `append_services.py`, `append_order.py`, `append_failure.py`) | arrays of a group, cached cursor, states | resolve, overwrite, grow, repair | failures between arrays, repair after the claim is gone | what is reported is there; a failed batch is undone |
| Metadata authority (`core/zarr/guard/metadata_authority.py`) | node lock table, authorities, in-flight counts, deferred releases | operations on documents, release, block, revoke | locks made and dropped on demand; release from inside an operation | nothing written is taken back; a claim exits once, after the last write |
| Consolidation (`core/zarr/coord_consolidation.py`) | coordinate directory, `.consolidating` sibling, seal, event | the command, rerun after a crash | death between rewrite, removal, rename, seal and event | values are kept; each seal recorded once |
| Chunk deletion (`core/controlplane/deletion.py`, `core/zarr/state.py`) | spans, objects, state array, its run | delete of several spans and records | partial failure; chunks that hold slots of other spans | ledger, data and state array tell one story |
| Migration (`ingestor/runtime/migrate.py`) | journal, documents, root and image | plan, journal, apply, verify, resume | crash anywhere, other writers, changed versions | a step is applied once and whole |
| Releases, archives (`ingestor/runtime/release.py`, `release_retention.py`, `core/controlplane/releases.py`, `inventories.py`, `core/archive/zip/`) | release records, current pointer, inventories, zips | create, verify, back up, restore | unadmitted writers, a crash between delete and put, missing or replaced links | a verified release can be restored |
| Metadata snapshots (`core/controlplane/metadata_snapshots.py`, `_content_addressed.py`) | blobs, manifests, records, `refs/latest.json` | take coherent, observe | takers overlap and die | every record leads to what it names |
| Index specs, stored-unit geometry (`core/index_resolve.py`, `ingestor/runtime/index_binding.py`, `core/zarr/guard/chunk_geometry.py`) | none, pure | positions, filters, coverage, straddling, alignment | edges, clipped units, duplicate instants | they agree with their definition by cells and instants |
| Validation, storage drivers, CLI, plugins, templates, telemetry | none | declarations, rendering, I/O, read-only checks | none | not modelled |

How they meet: `BaseIngestor.run` binds the index, asks the resume guard, takes
the output's claim, passes the maintenance gate (`record_run_started`), runs the
pipeline, completes the output through the write session, confirms its claims
and registers the run. Batches write through the append path or through region
writes, inside `admit_write`, under the shared schema claim and slot claims. A
lost claim sets the run's `ClaimLossLatch`, which the gate, the session and the
terminal record read. Readers and later runs see a run only through the ledger,
and its slots only through the index. Operators act on a product through
deletion, consolidation, migration, releases and clears of claims.

## Modules

| Module | Models | Rests on |
|---|---|---|
| `Lease` | what a claim promises: grant, retreat, return, eviction | |
| `Claims`, `ClaimsProofs` | one claim record, its handles, operators, late writes; theorems | implements `Lease` |
| `ConditionalFile` | what a conditional write of a file promises | |
| `GuardFile`, `GuardFileProofs` | conditional writes of local files under mutex, flock and rename; theorems | implements `ConditionalFile` |
| `RunClaims` | the claims of one run, its shared schema claim, its latch | takes a record as `Claims` keeps it |
| `Maintenance` | admission of writers, claimants, maintainers to a product; theorems in `SnapshotsProofs` | takes a claim for what `Lease` says |
| `Ledger`, `LedgerProofs` | WAL, `run.json`, registration, projection, cache rebuild; theorems | |
| `RunSegments` | segment numbers, torn writes, abandonment, recovery of one run directory | |
| `Pipeline`, `PipelineProofs` | runner, thread pool, batch lifecycle, ordered gate; theorems | takes the latch from `RunClaims` as one step |
| `WriteSession`, `WriteSessionProofs` | session, promotion, end of the run, workspace; theorems | takes the pool as joined (`Pipeline`) |
| `Promotion` | staged runs of one product from seed to publication | takes the session as open (`WriteSession`) |
| `ResumeGuard`, `ResumeGuardProofs` | the guard, the runs it judges, abandonment, seals; theorems | takes a run's records as `Ledger` keeps them |
| `IndexRecord` | negotiation of the index | claims as in `Lease` |
| `Preallocation` | windows and creation of the time coordinate, ingests on it | the index as one step (`IndexRecord`) |
| `EngineOwned` | engine-owned values of one array | runs exclude each other (`Preallocation`) |
| `RegionWrites` | batches of regions, by threads of a pod and by pods | windows as `SlotPlan` hands them out |
| `UnitBuffer` | the write buffer of one slot | one worker of `RegionWrites` |
| `SlotPlan` | plans, the parallel gate, starts and ends of pods | the guard in short (`ResumeGuard`) |
| `Append` | appending calls of several processes to several groups | claims as in `Lease` |
| `MetadataAuthority` | operations on metadata documents | |
| `Consolidation` | the consolidation command and its reruns | |
| `Deletion` | deletion requests over spans and chunk records | alone under the claim (`Maintenance`) |
| `Migration` | steps, journals, resume, other writers | one holder of the exclusive claim |
| `Releases` | releases, backup chains, restore | one holder of the exclusive claim |
| `Snapshots`, `SnapshotsProofs` | capture and publication of metadata snapshots; theorems about them and about admission | extends `Maintenance` |
| `Geometry`, `GeometryProofs` | unit coverage, straddling, alignment, positions, filters; a theorem | |
| `MCClaims`, `MCLedger`, `MCAppend`, `MCResumeGuard` | values and symmetry for TLC | the module of that name |
| `MCIngest`, `MCControl`, `MCOperations`, `MCCube` | several modules in one run | see below |

A composite module holds the variables of several modules and a variable `part`,
chosen in the initial state, that names the one whose steps the behaviour takes.
The parts share no state (where one relies on another it does so through what
that one's module shows), so a composite checks each of them under every
behaviour of its own; it only saves a configuration per module. Each part's
contract is stated as `[](part = ... => Invariant) /\ [][part = ... => Step]_vars`.
`MCOperations` and `MCCube` are symmetric in their two actors; nothing they check
is a liveness property.

Operators named like a mutant of another (`ReleaseForgetsFailure`,
`TearDownAlways`, ...) are wrong versions of the definition after them. No
specification uses them; they stand for the bug a property is there to catch.

### Claims

`rec` is the record; its generation is the triple of incarnation, revision and
state, since a validator is a digest of the bytes. `handle[i]` is one
acquisition with the program counter of the method it is in (`_call_lock` admits
one at a time), its validator, its last attempted revision and the flags `lost`,
`stop` and `blind` (the store could not be re-read after a refusal). Every
request to the store is one step. `late` holds requests a remote store may still
apply; `op[o]` is an operator in `clear_claim` or the sweep
(`list_stale_claims`, `release_claim_if_unchanged`). A local store deletes a
released record, a remote one overwrites it with a released marker.

Left out: records that do not parse, and the listing across products; the latch
is in `RunClaims`. Bounds: `MaxRev` revisions per acquisition, `MaxLate`
unanswered requests, `MaxAged` stale revisions.

### Maintenance

`excl` is the owner of `<product>:maintenance:exclusive`, `claims` the owners of
other claims, `run` the run statuses. A writer records its run and then reads
`excl`; a claimant lists claims, takes its own, and then reads `excl`; a
maintainer takes `excl` and then lists and reads claims and runs one at a time
(`todo`). Refusals, failed reads, failed releases and crashes leave marks that
`ClearClaim`, `ClearExclusive` and `AbandonRun` remove. Blocking claims refuse at
once (their wait is a retry). The run records claimants keep for themselves and
the second gate of `record_run_started_with_replacement` are left out.

### Ledger

`seg[r]` are the sealed events of run `r`, `meta[r]` its `run.json`, `latest` the
cache, `cpt` a rebuild in progress. A run has one span of one slice in one
group, whose time indexes are a set of slots. `Current` is a read through the
cache, `Replayed` a replay of the WAL. Kinds are plain ingestion, forced
reingestion (which replaces covered spans and overwrites parts of others) and
chunk deletion. A rebuild checks for non-terminal runs, lists, reads one entry
at a time, projects and publishes. Left out: automatic flushes, metadata
heartbeats, torn segments (`RunSegments`), `compact.lock`, several slices; a clock reading
and the `run.json` write that carries it are one step, a reader's view is
instantaneous.

### Pipeline

`st[b]` follows batch `b` through pool and host; `taken` is the instant at which
a worker has removed the work item from the queue and the future does not run
yet, so `cancel` still succeeds. `nextIndex`, `gateHalted`, `holder`,
`releasedAhead` are the gate. `main` is the thread that collects futures, calls
hooks and cancels. An appending host (`GenericZarrIngestor`) has the gate and
stops at the first failure; a direct one (`DirectZarrIngestor`) does neither.
Every stage of a batch can fail; teardown can turn a result into a failure, as
`batch_teardown` raising in the `finally` does. Left out: unindexed batches; a
hook takes the write lock at most once; the seeding hook and `batch_setup` are one
stage; the commit of an append and the release of its turn are one step (nothing
reads the store in between).

### WriteSession

`state`, `inFlight`, `closed`, `drainFailed`, `seeding`, `publishing` are fields
of `ZarrWriteSession`; `touched` and `written` its staged ledger. Every thread
writes one batch, which is one cell of the data; a unit is a set of cells and is
promoted as one object. The pool's threads are joined before promotion; `Strays`
are threads a plugin starts by itself, which are not. `mpc` is
`BaseIngestor.run` from the join to the teardown of the workspace, `cpc` the
callers of `close`. A drain either ends with nothing in flight or times out, at
any moment. Session calls inside an admitted batch are instantaneous, revoking
an authority is atomic (it waits for the writes admitted under it), the coverage
check and the second look at the latch are one step, and `docs` says that all
metadata documents are published. `SessionInvariant` and `SessionStep` gather
what the session promises (`PromotionIsWhole`, `ReturnedMeansDrained`,
`CompleteMeansPromoted`, `NothingLandsAfterDelete`, `NoMetadataAfterClose`).
Schema claims are in `RunClaims`, slot claims in `RegionWrites`, the contents of
a promotion in `Promotion`.

### ResumeGuard

`inv[r]` is how run `r` is invoked (slot range or not, slot group, time window,
slice, and plain, resume or force), `pc[r]` where it is between `enforce` and its
end. The guard lists the recorded runs (`listed`), reads their entries one at a
time into the cache that lives as long as `enforce` (`entry`), judges the
non-terminal ones, then reads the spans of the runs whose entry it cached as
complete (and failed, for a plain unranged run). Between any two of these steps
the other runs start, record spans, end or crash, operators abandon runs
(`doomed`: read, then written) and groups are sealed. `known`, `closed`,
`disowned` and `blind` are history: what was recorded and sealed when the guard
began, what operators abandoned, whose listing failed.

A slot stands for a time index and its timestamp, so a time window is a range of
slots. The slice is the tuple of values of `slice_meta_keys`. Whether a run is
stale (an hour without a record, by default) is a free choice each time the guard
asks. A slot group binds a run only together with a slot range, as the region
strategies do. Left out: `validate_zarr` (the probe is logged and decides
nothing), records that lack slice keys, replaced spans (`Ledger`), the start that
maintenance refuses (`Maintenance`).

### RunClaims

`record` is the owner of the product claim and of the schema claim of one group,
`handle` each acquisition the run made, `entry` the counted entry of
`RunSchemaClaims` with its `guard` and its setup lock. A batch is admitted,
shares the claim or acquires it, attaches the latch to the new handle in the
three steps of `attach_latch`, sets the schema up and leaves; the last one out
releases the claim under the guard. A heartbeat that finds its record gone sets
`_lost` and then the latch, in two steps. The main thread joins the pool, reads
every claim still held once more (`confirm_held_claims`) and records complete
only if the latch is open. What a handle does with its record is `Claims`; here
it finds its record or does not. Bounds: `Batches`, `MaxHandles`.

### ConditionalFile, GuardFile

`ConditionalFile` is the promise `Claims` relies on: a call takes effect at one
instant between its start and its end, under its condition, or not at all.
`GuardFile` is how the local driver keeps it: a lock per directory within a
process, a flock on the guard file between processes, the comparison under both,
a temporary that is linked or renamed onto the file. A process may die at any
point and the kernel drops its flock. `F` is the refinement. Temporaries have
names of their own and are left out, as are NFS and the object stores' own
conditional requests.

### RunSegments

`files` are the segments of one run by number, each with the events in it and
whether its tail is torn; `doc` is `run.json`. Every process that opens a writer
numbers its segments from the listing it made, and neither the segments nor
`run.json` look at what is there. The worker records spans and its end, dies in a
write and leaves part of it; operators abandon the run, while it lives or after.
`Readable` is what `_wal_reader.py` recovers. History: `overlap` (a live run was
abandoned), `blind` (a listing failed when a writer was opened) and `tears`.
Flushes by time are a choice at every recording.

### IndexRecord

`record` is `current.json`, `mirror` the attribute on the root, `legacy` the
slot-index model of an earlier version. A negotiator takes the claim, reads record
and mirror, compares by precedence and writes what is missing, or finds the claim
taken and decides from what it reads without it. Either way it may be refused
first because of maintenance, at any time: `Maintenance` says by whom. Negotiators die anywhere; the claim of
a dead one stays until it is cleared. `rootCopy` is another writer that reads the
root document and writes it back whole. An index is its identity hash.

### Preallocation

`coord` is the time coordinate of one group: which values it stores, their
units, the `preallocated` and `managed` markers and the identity stamp.
Preallocators claim their window, look at the runs on its stored chunks,
register, run the preflight refusals, negotiate, set the group up under its
claim, create or verify the coordinate, fill chunk by chunk (each a read and a
write) and seal; ingests write or verify their timestamps. `sees` records the
live runs a preallocator could not have seen when it registered: listing and
registration are two steps in the code. Policies are grid, observed and
calendar, `mixed` is a declaration whose groups disagree, which records no index.

### EngineOwned

One array: preallocation collects the values its items give, compares those the
stored array lists, fills the rest one chunk at a time, lists them, and stamps
the array complete. A value may equal the fill value, so that only the listing
tells a written slot from an empty one. Runs die between any two steps and find
other items the next time; pods compare what they have with what is stored
(`verdicts`).

### RegionWrites

Workers of a pod, or of one run that grows the array, take the claim of a slot
and write its rows in parallel tasks, each a read and a write of the stored unit
under the lock of that unit within the process. A pod that has a window starts
only if the window owns the units it meets. `landed` is the history of what
each cell must hold. The static array is written once and then carries a marker;
among pods that promise holds where one of them emits it (`OneEmitter`).

### UnitBuffer

Pieces of one slot arrive in order under two spellings of the array. A unit that
was supplied whole is published as one object, any other is written box by box.
`wanted` is the history of what the array would be had each piece been written at
once; "odd" is a value whose bits differ from the fill but pass for it, which
`write_empty_chunks` decides about. `pending` counts the units of an intent that
have not landed; an intent is reported when it reaches zero. The cells of a slot
lie on a line, codecs and the description of arrays are left out.

### SlotPlan

A plan partitions what complete runs have not covered into ranges of whole units
(or names the least slot size it can do so with); a pod starts with a range of
any plan, however old, or with one given by hand. Gate, guard and the start are
three steps; `raced` records pairs that started between each other's guard and
start. Units of a group are the lcm of what its arrays declare and store.

### Append

A call appends one batch to its groups in turn: under the group's claim it finds
the end of the axis (from the coordinate, or the process's cached cursor),
validates the order, overwrites what the batch overwrites, grows array after
array, marks states, and reports coverage. A write that raises is repaired after
the claim is released; a process may die or lose its claim anywhere. A group has
a coordinate, one payload array and the states. `tainted` records what happened
to a group that appends do not undo: `crashed`, `lost`, `unrepaired`, `stale`
(a cached cursor behind another process's append), `raced`. Left out: staged
seeding, the verification of touched chunks, static variables, chunk alignment,
`batch_size` splitting. `Loads` bounds calls, runs, faults and deletions.

### MetadataAuthority

`docs` are the documents of a root, a group and an array. An operation is
admitted under an authority, takes the lock of its node from a table that makes
locks on demand and drops them when idle, reads, computes and writes; opening an
array may grow it and calls the caller's check, which may operate on it or leave
the block that holds the authority. `release` waits for operations under way, or
is deferred when it comes from inside one. `foreign` is another process, which
writes once no authority keeps it out. A put replaces the whole document, so a
lost lock would show as a reverted edit. `publish_raw` replaces the document its
caller saw, or creates one where its caller saw none. Left out: v2 documents, payload checks
and the identity of stores; a process-local authority assumes that nobody else
uses the store.

### Consolidation

An array is a directory: metadata and chunks, made and removed one at a time,
renamed whole. The command detects the state earlier runs left, rewrites into
the sibling, verifies, removes the original, renames, seals, refreshes the images
and records the event; it dies anywhere and is run again, one run after the
other. `torn` names the groups in which a run died inside the removal of the
original. Left out: the dry run, the dtype and chunk checks, other writers.

### Deletion

A request deletes its spans one after the other: it reads the grids of their
arrays, finds the active spans that share their chunks, removes chunk objects or
fills slots where there is a state array, and at the end marks the targets (and
confirmed collateral) replaced. `suspect` are spans that a failed request may
have damaged. Reads, removals, fills and the marking may fail, the process may
die, operators repeat requests. The product's claims are held throughout.

### Migration

A document is the set of changes it has seen; the root also names the run that
stamped it and holds the image of the others. A run plans from a snapshot,
journals the bytes before and after of each document, applies node documents
first and the root last, verifies, takes a snapshot, makes the release and ends.
Processes die between any two of these; other writers change documents; the
installed version of a step changes; runs whose process is dead are given up.

### Releases

The product is a map from keys to contents; release records and the current
pointer are keys like any other and are archived with it. A releaser stamps,
takes the inventory, writes the zip (full, or what changed since the current
release), verifies it and moves the pointer; a restorer resolves the chain by the
markers and applies one backup after the other, its deletions before its puts; it
may stop between any two of them. Processes stop anywhere, archives are removed or
replaced, and unadmitted writers (whose claim was cleared) change the product.
Left out: retained versions, tensogram archives.

### Snapshots

Takers read the documents one by one, then put blobs, a manifest, a record and
the ref under names that hash their bytes. It extends `Maintenance`: a coherent
snapshot is taken by the run that holds the exclusive claim, an observation by
anybody at any time; writers change documents while they are admitted. The
parent of a record is the one `refs/latest.json` named when its taker looked.

### Promotion

Staged runs of one product: seed documents and the coordinate into a workspace,
write slots there, verify that no unit is written in part, prove which units the
run filled, plan the delta against the target, put data objects, then merge and
publish documents one at a time. `data` is an array with units of two slots,
`time` its coordinate in one unit. Pods have windows and a coordinate that
preallocation manages; a run without a window is alone with a writer that grows
the target. `put` is the history of what each run put where, `raced` what
another process changed behind a check. Left out: static arrays, structural
conflicts, several batches per run.

### Geometry

Operators without state: which units a box touches, whether boxes cover a unit,
which units a window shares with others, alignment and keys of a region, the
position and the coordinate of regular, integer and irregular axes, and the
filter that hands items to pods. Each is stated beside a reference definition
that goes by cells and instants. The only variable is what they are asked
(`input`, one of `Inputs`); it never changes. `IsInput` says which questions the
code asks: boxes within the array, units and cadences of at least one, any window.

## Runs

| Run | Instance | Shows |
|---|---|---|
| `claims` | 2 acquisitions, 1 operator, 2 revisions, 1 late write, local and remote, symmetric | `HolderOwnsRecord`, `ReleaseLeavesNoClaim`, `NoDisplacement`; the claim implements `Lease` (`ImplementsLease`) |
| `claims_owner` | 1 acquisition, 3 revisions, 2 late writes, 2 stale revisions | `NoSpuriousLoss`, `SweepSparesLiveClaims`, `EvictionIsNoticed` |
| `control` | `Maintenance`: 1 writer, 2 claimants (one lists first, one does not), 2 maintainers. `GuardFile`: 2 threads of one process and 1 of another, one call each. `Promotion`: 2 runs, 4 slots, 5 products. `RunClaims`: 2 batches. `Geometry`: every list of up to 3 slot writes of a 3 x 3 array, every window over up to 7 slots, every pair of region writes, axes of each kind, one with an instant twice | `MaintenanceIsExclusive`, `MaintainerKeepsClaim`, `ProductBecomesFree`; `GuardKeepsItsWord` (the refinement of `ConditionalFile`, and that calls return); `PromotionIsSafe`; `RunKeepsItsClaims`; `GeometryIsExact` |
| `ledger` | 3 runs on 3 slots in turn, forced reingestion, deletion, rebuilds in between; 2 runs on 2 slots in turn that may fail or die; 2 runs and a compactor interleaved, with crashes and errors | `LastWriterKeepsSlot`, `CacheAgreesUnlessRevoked`, `EndedRunsAreRecorded` |
| `ingest` | `Pipeline`: 4 batches, 2 workers, both hosts, both runners. `WriteSession`: 1 pool batch, 2 strays, 2 units, 2 callers of close, staged and direct | `AppendsAreAPrefix`, `WritesAreExclusive`, `BatchesAreAccountedFor`, `CompleteIsWhole`; `SessionIsSound`; `RunsEnd` (of the pipeline, of the session and of its callers) |
| `resume_guard` | 2 runs, 2 groups, 6 kinds of invocation, 3 slots, 1 span per run, 1 group that can be sealed | `RangesKeepApart`, `PlainRunsStartClean`, `SealsHold` |
| `operations` | `Deletion`: 3 spans, 2 arrays, 2 requests of up to 2 targets. `Migration`: 2 steps, 2 documents, 2 runs of 2 processes, 1 foreign edit. `Releases`: 2 releasers, 1 restorer, 2 versions, 2 unadmitted writes, 1 fault. `RunSegments`: 2 spans, 2 operators. `Snapshots`: a writer, a maintainer, an observer, 2 documents, 1 change | `DeletionIsAccountedFor`, `MigrationIsExact`, `ReleasesAreKept`, `RunIsRecorded`, `SnapshotsHold` |
| `cube` | `IndexRecord`: 2 negotiators, 3 indexes, 3 negotiations, 1 retry. `Preallocation`: 2 preallocators, 1 ingest, 4 slots in 2 chunks, 8 declarations. `EngineOwned`: 3 slots in 2 chunks, 5 item sets, 3 runs. `RegionWrites`: a pod of 2 threads and one of 1, or a run without windows, 3 slots, 2 rows. `UnitBuffer`: 2 units, 3 pieces of 9 kinds. `SlotPlan`: 7 slots in units of 2, 2 pods. `Append`: 4 loads of up to 3 calls. `Consolidation`: 2 nested groups, 2 chunks, 3 runs. `MetadataAuthority`: 2 threads, 3 nodes, 2 authorities, 3 edits or 2 calls of any kind with releases | `IndexIsSettledOnce`, `CoordinateIsSettled`, `OwnedValuesAreSafe`, `RegionsAreKept`, `BufferKeepsOrder`, `PlansAreExecutable`, `AppendsAreAccountedFor`, `ConsolidationIsRepeatable`, `MetadataIsNotReverted` |
| `ledger_crash`, `ledger_reingest`, `pipeline_setup`, `append_cache` | 2 or 3 runs; 2 batches; 3 calls of 2 processes | violations, see Findings |

The contract of a part is a conjunction of the invariants and step properties its
module names and comments one by one; `RegionsInvariant`, for instance, is
`NoCellIsLost`, `WritesAreClaimed`, `CoverageIsLanded` and `MarkedIsWhole`. Most
include the type predicate of the module.

Why the bounds are enough to be interesting. Two acquisitions give every
takeover and displacement; a late write needs one other write to race with, and
the owner alone needs three revisions for "an older write commits after a newer
one". In `Maintenance` two maintainers and one writer give every pair of roles.
Three runs and two slots are the smallest ledger in which a span is overwritten
in part and its overwriter is replaced (`ledger_reingest`); with a third slot a
run can overwrite part of a span that itself overwrote part of another, so that
the order in which overwrites are subtracted matters. Four batches on two workers
let one fail, one run, one be cancelled and one be pending. Three threads give a
session's unit shared with a thread that may never finish and one that has a unit
of its own; the same number gives `GuardFile` two threads that share a mutex and
one that does not. The properties of `resume_guard` relate a run to one other
run, and three slots give ranges that are equal, share one slot or touch.

In `cube` and `operations` units, chunks or journals of two elements are the
smallest that can be half done: two slots per stored chunk with windows that end
inside one, two chunks of a coordinate of which one is gone, two documents of a
step of which one is written, two groups of which one is sealed. Two actors race
wherever the code lets two race; a third run (or a third piece, negotiation, edit)
is there where the harm needs one that finds what the first two left: the rerun
after a crash of a rerun, a lock remade while two threads use the old one, a
piece over a boundary of two open units. Three slot writes
cover a unit of two slots with one of them in two pieces, leave a hole between
pieces, overlap, or reach beyond the unit. One fault per behaviour (two in one append load) finds
partial failures; failures of unrelated parts do not meet.

Deadlock is not checked: all of these systems come to rest when everybody is
done. Where waiting for ever is a danger it is a property: `RunsEnd`
(`RunEnds`, `RunIsOver`), `ProductBecomesFree`, `GuardKeepsItsWord`
(`CallsReturn`), and `SomeoneGoesOn` and `NothingQueued` in
`MetadataIsNotReverted`.

Type invariants: TLAPS proves those of `Claims`, `GuardFile`, `Ledger`,
`Maintenance`, `Pipeline`, `ResumeGuard`, `Snapshots` and `WriteSession`; the others are
conjuncts of the contracts above.

### Fairness

- `claims_owner`: strong fairness of the heartbeat and of the reconciliation.
  The heartbeat thread runs on a timer for as long as the handle is held; its
  requests may fail any number of times but not for ever.
- `control`: in `Maintenance` weak fairness of every process (it runs on or
  crashes), strong fairness of a writer's terminal record (a run has finitely
  many batches), weak fairness of operators, whose job the recovery documentation
  describes; in `GuardFile` weak fairness of the threads inside a call.
- `ingest`: in `Pipeline` weak fairness of every worker and of the main thread,
  and of a hook's unlock (`ExclusiveSection.__exit__`), none for claim loss or for
  a hook that takes the lock; in `WriteSession` weak fairness of the pool's
  threads, the main thread and callers inside `close` (whose waits have
  timeouts), none for strays, claim loss or the decision of somebody else to
  close.

The other runs check safety only and assume no fairness.

## Proofs

The first part of `SnapshotsProofs` proves, for any sets of writers, claimants and maintainers
that satisfy `MaintenanceAssumption` (the sets are disjoint, `NoOne` is none of
the maintainers), that `Maintenance` keeps its types (`TypeCorrect`), that
admitted maintenance is exclusive (`Exclusive`) and that a maintainer keeps its
claim (`KeepsClaim`). Exclusion is not inductive: from "maintainer admitted, no
writer writes" alone a writer could be about to be admitted. The invariant
follows a maintainer from the moment it holds the claim. While it reads the
claims, every claimant working for nobody is among those it still has to read
(`ClaimantsSeen`); afterwards claimants serve it (`ClaimantsServe`); while it
reads the runs, every writing writer is among those still to be read
(`WritersSeen`); afterwards there is none (`NoWriters`). The supporting parts say
that the marks the listings look for exist (`WriterRecorded`, `ClaimantMarked`).

Its second part proves `SnapshotsHold` for any takers and documents
(`SnapshotsAreKept`): a record leads to all it captured, and a coherent snapshot
shows one instant. The first follows from the order of the puts
(`ManifestsAreWhole`, `PutsAreComplete`, `LinksResolve`). The second reuses the
invariant of the admission: while a maintainer works, no writer writes and
no claimant serves anybody else, so the documents stay as they were when its
capture began (`NobodyElseChanges`, `ReadingOneInstant`).

`PipelineProofs` proves, for any number of batches and workers
(`SizesAreNatural`, `HostsAreKnown`, `ModesAreKnown`), type correctness
(`TypeCorrect`), that an appending run's store is a prefix of its batches
(`AppendsPrefix`) and that writes exclude each other and the hooks' lock
(`ExclusiveWrites`). The inductive invariant adds to the prefix: the batch
inside is the holder, next in line, at an open gate (`WriterIsNext`); an index
released ahead of its turn always belongs to a failed batch
(`AheadMeansFailed`), so consuming one halts the gate; a locked hook holds the
gate (`LockIsHeld`); and as long as the gate is open it stands right behind the
last append (`OpenGateFollowsStore`). `ReleaseEffect` and `GivingUpKeepsInv`
carry the argument for `release`; pool and main thread enter only through the
fact that they leave the gate alone. The cancellation race below therefore
cannot harm what is stored; it can only stall.

Its second part is the accounting: `Accounted` (every batch is counted once,
and as what it was) and `CompleteIsAll` (a run recorded complete has all its
batches in the store, none lost, none refused). A count is a function of how far
its batch is (`CountFollowsState`); whatever stopped gate or main thread goes back
to a batch that failed (`HaltHasCause`); a sequential run has counted everything
before the batch it is at (`SequentialInOrder`), a parallel run cancels in one
pass (`CancelledOnce`); and a batch that succeeded has landed (`SuccessIsStored`).
The third part, `NextTurnIsComing`, is the safety half of "nobody waits for ever":
unless a batch was stranded, whoever waits for a turn waits for an index whose own
batch is with a worker and has yet to release it. It needs that batches are taken in
planner order (`QueueInOrder`) and that the gate has not passed an index that is
still to be released (`IndexIsKept`).

`ClaimsProofs` proves, for any acquisitions and operators, revisions and
unanswered requests (`ClaimsAssumption`: there is a revision, `NoOne` is no
acquisition), type correctness, `HolderOwnsRecord` (`OwnerHasRecord`),
`NoSpuriousLoss` (`LossHasCause`), `ReleaseLeavesNoClaim` (`ReleaseIsFinal`),
`SweepSparesLiveClaims` (`SweepsAreSafe`), `NoDisplacement`
(`ClaimIsNotDisplaced`) and the refinement of `Lease` (`ClaimImplementsLease`).
The record of an acquisition only moves forward (`RevisionsAdvance`). A request
that the store applies late therefore finds the generation it expects either
current, and then its owner remembers the revision as unconfirmed
(`LateBeatsAreKnown`), or gone for good; so an owner recognises whatever it finds
in its record (`Recognised`). Two attempts at a retire are enough because a
refusal proves that the record moved on, and after the second no late heartbeat
is left that could move it (`RefusedMeansMoved`). `OthersKeep` says under which
conditions a step leaves the other handles' invariant alone, and every step of
another actor is an instance of it. The refinement maps a grant to the holder of
the record and "acting" to a handle that was not told to stop.

`GuardFileProofs` proves, for any processes, threads, requests and number of
calls (`GuardAssumption`: what a request compares and stores are values, absence is
not a value), the invariant `GuardInv` (`GuardHolds`) and that `GuardFile`
implements `ConditionalFile` (`GuardImplementsFile`). Comparison and swap are two
steps. A call has the flock at every place between them (`HoldsFlock`), so what
it found is still there when it swaps (`ComparisonStands`), and the swap is the
instant at which the call takes effect; every other step of a call, and the death
of a process, is a stutter of the abstract file or the end of a call. The mutex
plays no part in the argument: the flock alone decides.

`WriteSessionProofs` proves, for finitely many batches and strays, any units and
any callers of close (`SessionAssumption`), all of `SessionIsSound`: the safety
invariants (`SessionSafe`) and step properties (`SessionEnds`) together are
`SessionIsKept`. The argument is a count and a gate. The session's number of
batches in flight is exact (`CountIsExact`, which is why the set of threads has
to be finite), and once the gate is shut nobody enters; a count of zero behind a
shut gate is final (`Quiet`, `GateStaysShut`, `QuietIsFinal`). What was covered
when the promotion looked is therefore still covered when it puts
(`CoverageStands`), a complete verdict comes after all puts and the documents
(`VerdictIsEarned`), and a close that returned found nothing in flight
(`CloseIsOrderly`).

`ResumeGuardProofs` proves, for any runs, groups, slots and invocations that
satisfy `ResumeGuardAssumption` (ranges are not empty, sealable groups are
groups), type correctness (`TypeCorrect`), `RangesKeepApart` (`KeepApart`),
`PlainRunsStartClean` (`StartClean`) and `SealsHold` (`SealsAreKept`). The
properties compare an admitted run with the present state of other runs, while
the guard compared it with three readings taken one after the other; the
invariant connects them. A run recorded when the guard began has been read once
the guard judges (`KnownAreRead`); an entry that was terminal when read is still
true unless an operator interfered (`ReadsLast`), hence its spans are final; an
entry read as started did not block (`NoneBlocks`) and no span of an entry read
as complete or failed was in the way (`NoSpanInTheWay`). `SharedGround` and
`SharedSpan` turn places into ranges: two runs that share a slot of a group fail
the comparisons of the code.

`LedgerProofs` proves, for any finite set of runs and any slots, compactors and
loads (`LedgerAssumption`), type correctness (`TypeCorrect`) and
`EndedRunsAreRecorded` (`EndedAreRecorded`). The set of runs is finite, as the
control plane of a product is; times and the lengths of segments are not bounded.
Two facts about the records carry it
(`LedgerInv`): the active spans a run records bear its own key (`RecordsOwn`),
and its span is in its buffer until the segment is sealed that carries it
(`SpanIsKept`), so it is never in neither, although the terminal record may be
sealed first. Through the replay they are carried by two inductions, over the
complete runs and over the events of a run. Induction whose hypothesis is an
operator is out of the prover's reach; here the hypothesis is a set of subsets,
and that a least counterexample exists follows from the well-foundedness of
strict inclusion on finite sets (`SubsetInduction`). `FoldExists` builds the
function a fold stands for. The argument needs of the order of replay only that
the next run is one of those left, so it holds for every tie of `completed_at`.

Its second part proves under the same assumptions `LastWriterKeepsSlot`
(`LastWriterIsKept`) and `CacheAgreesUnlessRevoked` (`CacheAgreesInTurn`). Both
compare folds over different sets of runs: a replay of everything with the
coverage of single runs, and with a cache to which the runs it lacks are added.
No fold is followed event by event. `Reading` says what a view tells of the runs
folded into it: a span nobody hit stands, up to what later spans overwrote; a span
somebody replaced or deleted is gone. It mentions no order, and holds of a replay
as long as no run is folded after one that hit it (`RunIsTold`, `ReplayTells`, by
an induction over runs in the order of the replay). A second fold over the runs
that a cache lacks therefore tells the same as one fold over all (`CurrentTells`).
The subtraction of overwritten ranges keeps the telling and leaves no span what a
later one overwrote (`EffectiveTells`), from which both properties follow
(`InvKeepsLast`, `InvAgrees`).

That the order is right is the invariant `TurnInv`. Runs that are over and
complete are ordered by their times of completion, which no longer change
(`InOrder`). Every event of a run fits those before it: its own span is later than
all of them (`FitsSpan`), a deletion copies the record of one of them
(`FitsDeletion`), and whatever it replaces is covered by itself or by a run between
(`FitsKey`, `Covered`). Without the last part a replaced span could be the last to
cover a slot. Each cache, published or about to be, holds a first part of these
runs and its cutoff is the time of the last of them (`CacheFits`); what a compactor
has listed and has left to read is all of them (`ListingFits`). A failed run is
exempt from fitting, for readers take nothing from it; what it had planned before
it failed need not fit what came later.

The hypothesis of both is `InTurn`: operations follow one another, runs may fail,
but none died or was left without a record of its failure. It is needed: such a run
may leave a complete `run.json` without its `completed_at`, which puts it at the
wrong place of the replay (`ledger_crash`). With operations interleaved both are false as
well (see below: a run that completes during a rebuild).

`GeometryProofs` proves `GeometryIsExact` for any questions (`OperatorsAreExact`;
`GeometryAssumption`: they are questions the code asks). It rests on what a
quotient is (`Quotient`, `QuotientIs`, `QuotientGrows`) and on least and greatest
elements of sets of natural numbers (`LeastNatural`, from the library's
well-foundedness of `<`). An interval touches the units of its numbers
(`RangeIsUnits`); a window shares no unit but its first and its last, because the
unit of a slot between them would lie between theirs (`WindowsAreExact`); rows that
end where a chunk or the array ends share no chunk with what follows
(`AlignedRangesKeepApart`). Coverage is the one that is not arithmetic: a cell lies
between two neighbouring edges in each dimension (`Neighbours`), and no edge cuts the
block between them, so the box that holds one corner of the block holds all of it
(`CoverIsByCells`).

Only model-checked: all liveness properties (`EvictionIsNoticed`, `RunsEnd`,
`ProductBecomesFree`, `CallsReturn`, the gate's; fairness is out of the prover's
reach) and the contracts of the modules without a proof module.

## Findings

- `pipeline_setup` (refutes `NoWaiterWaitsForever`): a batch of an appending run that fails in the seeding hook or
  in `batch_setup` (`templates/generic.py:344`, before the `WriteTurn` exists)
  never releases its index. If a later batch is already running, it waits at the
  gate for ever and the run hangs. The docstring of `OrderedWriteGate`
  (`ordered_gate.py:41-47`) says every index is released exactly once, also by a
  batch that "failed before ever asking for its turn".
- `ledger_crash` (refutes `CacheAgrees`): a crash between the flush after the terminal record (which
  rewrites `run.json` without `completed_at`) and the rewrite that restores it
  leaves a complete run that reads through the cache skip (`_compact.py:25`: "WAL
  is always authoritative").
- `ledger_reingest` (refutes `LastWriterOwnsSlot`): replacing a span that had overwritten part of another one
  revives the overwritten part: two active spans claim one slot.
- `append_cache` (refutes `CacheIsOnlyASpeedUp`): a call places its batch at the cursor its process cached
  although the length of the group was just read (`append_services.py:526`).
  After another process has appended, new timestamps land on slots of the other
  one, and the repair of a failed call cuts the group back to the stale cursor.
  `resume_cache.py:19-20` says that "correctness must not depend on cache hits".

## Observed while modelling

These have no run of their own: they are behaviours the properties except (by a
named history variable or condition), limits a document names, or divergences
that cost nothing in the model. They are listed because a reader who changes the
code, or the model, will meet them.

Claims and runs
- A retire that the store commits and then, on its own resend within the same
  call, refuses is not "uncertain" for the handle, which reports the claim as
  released by somebody else (`claims.py:526`).
- A batch whose release of the schema claim times out leaves the record behind;
  the next batch of the run then meets its own run's claim (`OwnClaimIsNeverMet`
  excepts it; the run has failed by then).
- Check-then-act. Nothing is held between `enforce` (`base.py:1145`) and
  `register_run_started` (`base.py:1178`), so two runs that start together both
  pass, and pods that do may share a stored unit (`raced` in `SlotPlan`).
  `docs/concepts/orchestration/write-safety.md` leaves the schedule to the
  orchestrator; slot claims protect single slots.
- A listing of `runs/` that raises is logged and read as "no runs"
  (`_wal_reader.py:251-255`); the guard then passes over every run. `ListFails`
  models it, `blind` excepts it.
- A slot group without a slot range, which `cli/_slot_env.py` can produce, makes the
  guard look at the seal of that group only, while the run writes every group
  (`direct_region_adapter.py:84-90`); `SealCoversGroups` excepts it.
- The decision table of `ResumeGuard` (`resume_guard.py:82-93`) blocks whenever a
  non-terminal run exists and the run is not forced; the code lets ranged runs
  pass when ranges are disjoint, groups differ, the other run is unranged and
  stale, or the same range is resumed.
- `abandon_run` reads and then writes (`_wal_writer.py:395`, `:409`): a run that
  completes in between ends as abandoned and its spans leave the projection; a
  live abandoned run's next flush writes `started` again. Spans of abandoned runs
  do not stop a plain rerun.

Ledger and segments
- A run that completes while the cache is rebuilt can lie before the cutoff
  without having been folded in, although
  `docs/reference/control-plane-spec.md:336-337` says the cache folds in the runs
  completed before that instant.
- Deleting a span that had overwritten another one after the cache was built
  makes cache and replay differ (`_projection.py:346`); `Revoked` excludes it.
- An error of `register_run` after `run_completed` records `run_failed` as well
  (`recording.py:122`, `base.py:1264`); the status is the last `run.json`.
- The spans a forced reingestion replaces are looked up by equality of the whole
  slice metadata (`recording.py:453`), run-specific entries included.
- Two writes cut short make a run's events unreadable, and a tear after the
  terminal record cannot be recovered; `CrashIsReadable` speaks of one tear.
- A listing that fails when a writer is opened restarts its numbers at 0, and the
  first segment is overwritten (`blind`).

Pipeline and session
- Cancellation race. After a failure the runner cancels futures in ascending
  order (`engine.py:526`). The pool can take `k+1` after `k` was cancelled and
  before the loop reaches it; `k+1` then waits at the gate for an index nobody
  will release. `Stranded` names this and the setup failure; `RunsEnd` holds
  in its absence. (`ordered_gate.py:39-41`: "the lowest unfinished index is
  running (or done), never stuck behind an unstarted one".)
- Data objects are put without an authority, so a close by somebody else during
  promotion stops the metadata but not the data (`write_session.py:592`).
- `batch_teardown` raising after a landed append reports a stored batch as
  failed (`generic.py:474`).

Index and coordinate
- The preflight of a Gregorian coordinate refuses nothing, so a coordinate that
  diverged is refused only after the index was recorded.
- Declarations whose groups disagree record no index: two of them may fill
  different windows of one coordinate, the later stamp replacing the earlier one.
- Calendar preallocation claims its window and writes the whole coordinate.
- A crash between the creation of an observed coordinate and its marker leaves a
  shell that later runs refuse.
- Peers are listed and the run is registered in two steps (`manager.py:985`);
  `sees` excepts runs that come in between.
- A regular axis accepts positions past its end, and items there go to no pod
  (`index_resolve.py`); items without an inspection go to none either. The
  docstring of `IrregularTimeAxis` says values are sorted ascending; the code keeps
  their order. `filter_items_by_index` catches `ValueError` and `TypeError` while
  the integer resolver raises `IndexError`.

Writing
- A static array is written once between pods only where the others suppress it
  (`plans/TODO.md:196`; `OneEmitter`). Unit locks are per process; between
  processes slots are kept apart by claims and windows.
- `plan_slots` checks only where ranges start, so where recorded coverage begins
  inside a unit the plan hands out a last range that splits one, which is refused
  when it is used (`docs/operations/parallel-zarr-writes.md:4`, `:258-259`).
- An append is repaired after its claim was released (`append.py:980-1104`,
  `plans/TODO.md:234`) and may cut off the tail of a successor; a crash in the
  middle of an append leaves arrays of unequal length, which nothing repairs.
- In a `UnitBuffer` the refusal of further pieces for a flushed unit is not needed
  for what is stored: the order holds without it.
- The replacement of a whole document (`publish_document`) may take back what
  others wrote; `NothingReverted` excepts it. Callbacks may release only their own
  authority. A block of `adopt_held_claim` left from inside its own operation does
  not hold back the exit of the caller's claim.

Promotion
- Unmarked coordinates of earlier versions written by parallel pods are a
  documented race (`engine.py:672-693`) and excluded.
- Growth between the clip check and the put goes unnoticed, and the publishing
  authority is local to its process, so metadata publications of two pods can race
  (`raced`).
- Where seeding is not strict, a coordinate seed that failed lets the promotion put
  a chunk with only the run's own slots over the target's.
- `upload_tree`, which append runs use, uploads data and metadata in any order and
  never deletes a unit the target holds. Append seeding without an authority checks
  for absence and then writes plainly: a stalled batch can put an older `zarr.json`
  over a grown one.

Operations
- Deletion: collateral of a span whose own removal failed is still marked
  replaced; an exception on a later span leaves earlier ones deleted but active;
  an error while reading grids still removes the other arrays' chunks; a forced
  deletion expands the state by the state array's own chunk length; manifest
  records go even when storage deletion reported errors; spans are listed once.
- Consolidation: a run that dies inside `shutil.rmtree` of the original
  (`coord_consolidation.py:651`) leaves a half-removed directory that still has
  its `zarr.json`. The rerun takes it for the complete original, discards the
  complete sibling and rewrites from what is left: values are lost, unless the
  index refuses the drift, after the sibling is gone. The module's docstring
  (`:18-20`) and that of `cli/zarr/_consolidate.py` promise that values are
  preserved; `torn` excepts it. A group refused for drift after an earlier one was
  sealed leaves the earlier seal unrecorded until a run gets through. The command
  takes no claim: two at a time share the sibling's path
  (`docs/concepts/orchestration/write-safety.md:61`).
- Releases: release records and the current pointer are archived with the
  product. Verification goes by records, restore by markers; the restore of a full
  backup does not check the digest again nor read back. A zip that fails its check
  leaves the file that blocks the retry. An interrupted overwrite that is run again
  does not clear a target without a root `zarr.json`
  (`docs/operations/archive/restore.md:199`, `:243-280`; `core/archive/zip/archive.py:183`).
- Snapshots: takers that overlap fork the chain of parents, and
  `refs/latest.json` may go back to an older record although it is said to name the
  newest.

## Not modelled

- Validation (`core/zarr/validation.py`), CLI, templates, plugins, telemetry and
  the showcase notebook change no state a protocol depends on. They are the larger
  part of the lines the map does not cover, with argument checks, error texts,
  encodings and the shapes and dtypes of arrays, which no property here tells
  apart.
- Storage drivers: a request is atomic (`ConditionalFile`, `GuardFile` for local
  files), a listing may be stale or fail; buffering, retries and paths are the
  libraries'.
- Zarr v2 metadata, codecs, shards as such (a stored unit is one object), tensogram
  archives, retained versions of releases, staged append seeding.
- What each module leaves out is said in its section and in its opening comment.

The map covers about a sixth of the repository's lines. What is left of the
modelled files is mostly the wording of refusals, option handling, parsing and
rendering; the protocols in them are covered, the operations named as left out
above excepted.

## Plan

The modules are in place, and theorems stand beside the protocols the rest leans
on. What follows, in this order:

1. `RunClaims`: `LossReachesLatch` and `ScopeHoldsClaim` for any number of batches.
2. The inductive invariants of `IndexRecord` (`WinnersAgree`), `EngineOwned`
   (`ListedSlotsHoldValues`) and `RegionWrites` (`NoCellIsLost`).

Extensions of the models that would add something: appends with staged seeding,
consolidation beside a writer, several groups per batch in `RunClaims`, and two
runs of different windows in `Promotion` with an append run beside them.
