# Cyclotomy: models, checks and proofs

Cyclotomy is an extension of the Pi coding agent. It keeps, for the entries of
a Pi session tree, checkpoints of the user's working files, and restores them
when the user moves through the tree. What can go wrong is that files are
recorded where they do not belong, that a checkpoint is overwritten by half
restored files, or that the user's own work is replaced unseen; and it can go
wrong between any two of the many awaits of a TypeScript runtime that shares
one directory with an editor, a host program and other processes.

This directory models the part of the program that decides those questions,
checks the models with TLC on small instances, and proves with TLAPS, for
instances of every size, what matters most of them: the safety of the metadata
database, the workspace lock and the content store, of the in-memory authority,
of the engines and the fork registrations of many processes, and, for the
protocol of one runtime, that files are admitted only where they belong.
`PROJECT.json` holds the machine-readable index: the components, the source
lines of every definition, the runs, the hazards and the theorems. Paths below
are relative to the repository's own `src/` directory.

1. [The system](#the-system): inventory of its parts
2. [The models](#the-models): which module stands for which code, and how
3. [The runs](#the-runs): what each shows, its bounds and why they are enough
4. [Fairness](#fairness): what is assumed and why the code justifies it
5. [The proofs](#the-proofs)
6. [What is not modelled](#what-is-not-modelled)
7. [The plan](#the-plan)

## The system

### Vocabulary

A *coordinate* is a stable entry of the session tree (`domain/model.ts`). Its
*slot* is open or blocked, with or without a tree (a manifest of files); no
row means open and empty. An open slot may be captured into; a blocked one
keeps what it has. A coordinate without a tree of its own *resolves* to the
nearest tree above it. The *barrier* of a session closes all its coordinates
at once, for the time when no coordinate can be named (the root of the tree).
The runtime additionally keeps an in-memory *authority*: that the files at
hand belong to the session's present location. A process that starts has none,
and everything the runtime does is to gain it rightly, use it and lose it in
time.

### Shared and durable state

| Component | State it keeps | Operations | What is hard | What makes it correct |
| --- | --- | --- | --- | --- |
| Slots and lineage (`domain/checkpoint-slot.ts`, `checkpoint-lineage.ts`, `application/resolve.ts`) | none: pure rules | block, release, adopt, capture; reduce a lineage; reconcile a barrier | inheritance along a tree whose coordinates are blocked in any order | blocking never changes what a descendant resolves to; a blocked empty coordinate resolves to nothing but hides nothing from its descendants |
| Metadata store (`infrastructure/metadata.ts`, `metadata/versions/v5.ts`) | SQLite tables: session registry, slots, barriers, history generations; per connection the generation it attached to; an exported fork projection | one writer transaction each: commit capture, protect, admit, adopt, raise and reconcile barrier, finalize a projection (seven outcomes), export a fork, forget | several processes; callers act on what they read long before; a forget between two of their writes; rows of older schemas | one file per session; a forgotten history stays empty until it is closed; only writers of the present generation write; a fork starts with its parent's lineage |
| Schema migration (`metadata/migration-engine.ts`, `versions/v1..v4.ts`) | schema version | migrate in one transaction | old rows whose authentication is unknown | old history is adopted closed |
| Workspace lock (`workspace-lock.ts`, `lock-protocol.ts`, `native/file-lock.c`) | the path `workspace.lock` (absent, legacy directory, lock file), the marker `lock-protocol.json`, an operating system lock per file | acquire with deadline and abort, publish the marker, verify, revoke, release; several stores in canonical order | clients of the older directory protocol, first clients racing, death while publishing, files moved or replaced by others | one writer; no return to the directory protocol; every attempt ends |
| Foreground demand (`foreground-demand.ts`) | shared and exclusive lock on `foreground.lock` | hold while waiting, probe | probe and waiter collide; owner dies | a collection yields to a waiter, who gets past the probes |
| Object store (`object-store.ts`, `snapshot-publication.ts`, `workspace-store.ts`, `content-store/repository.ts`, `publication.ts`) | packs, indexes, roots | publish a tree, read a tree | crash between pack, index and root | whatever a slot names can be read, by way of a cache or without |
| Pack catalog, compaction, handle pool (`content-store/pack-catalog.ts`, `compaction.ts`, `maintenance.ts`, `pack-handle-pool.ts`) | packs, the multi-pack index (a lookup hint), open handles, permits | publish, inventory, rebuild the hint, remove; borrow, retire and return a handle | a hint whose packs are gone; the pool at its limit while handles retire | a miss in the hint decides nothing; no permit is lost, no pack is closed under a reader |
| Garbage collection (`object-gc.ts`, `gc-state.ts`) | the time of the last collection; nothing else survives one | mark the roots, write replacement packs, verify, compare the roots again, sweep | it stops or dies between two removals; the roots changed since they were marked | everything before the last fence only adds; nothing reachable is swept |
| Workspace scan, scope (`workspace-scan.ts`, `workspace-scope.ts`, ...) | none | walk and hash | files change under the walk | an accepted scan is one moment of the files |
| Workspace apply (`apply.ts`, `workspace-operation.ts`) | staged files, displaced files | conditional delete and install per path | half way failures, others' edits between check and rename | only what was expected is replaced |

### The runtime

One runtime serves one Pi session. Pi calls its handlers; most of them await,
so several are under way at once. Database and file work is done in *workspace
executions* that run one at a time, in the order they were asked for
(`runtime.ts` `enqueueWorkspaceExecution`), under the workspace lock.

| Component | State it keeps | Operations | What is hard | What makes it correct |
| --- | --- | --- | --- | --- |
| Checkpoint admission (`pi/checkpoint-admission.ts`, `session-view.ts`) | nothing, live authority for a view, or an arrival; leases; a preparation; a proposal | decide a capture, claim, prepare, propose, begin / admit / settle / carry / close an arrival, reset | an entry appended and abandoned, a navigation away and back, between the decision and the commit | a lease that counts was never left; an arrival is ended by its own handler only |
| Mutation authority (`workspace-mutation-authority.ts`) | the above together with the rows of the session and whether it participates | protect, admit, cut over, recover, reconcile, withdraw | database and memory must agree at every exit | a location is admitted only when it is not blocked |
| Captures (`capture-protocol.ts`, `application/capture.ts`, `checkpoint-service.ts`, parts of `lifecycle.ts`) | the handler's view, slot and lease over its awaits | observed, cancellable, shell; barrier projection | the scan takes long | what is recorded belongs to the coordinate |
| Navigation (`navigation-lifecycle.ts`, `navigation-departure-protocol.ts`, `tree-arrival-protocol.ts`) | the departure's plan, the arrival's token | `session_before_tree` in two executions with a question between; `session_tree` in a third | Pi moves between them and may append a summary; every exit must close the preparation | the arrival settles what the departure showed, or protects |
| Restore (`confirmed-restore.ts`, `workspace-mutation-protocol.ts`, `application/restore.ts`) | what was shown | look, ask, look again, cut over, write, verify, admit | edits between the question and the write; crash while writing | only what was shown is replaced; half-written files are never recorded |
| Session start and reload (`lifecycle.ts`) | - | reconcile a loaded session, admit or protect a reloaded one, record a first checkpoint | crash left anything | authority is granted only where the files are the checkpoint |
| Session registration (`session-registration-service.ts`, `session-file.ts`, `workspace-receipt.ts`) | receipts, session files, two stores | authenticate a session, register it, import a fork's checkpoints from its parent's store under both locks | the parent, either store or a lock is lost between import and commit | the child starts with what the parent has, or quarantined |
| Engine controller (`engine-controller.ts`) | the current engine, epochs, leases | resume, stop, shut down, acquire | they overlap while an engine is created or drained | one engine at a time, each retired before it is drained and closed, none resumed after it was superseded |
| Commands, presentation, configuration (`commands.ts`, `i18n.ts`, `config.ts`, ...) | settings | user interface | - | - |

### How they interact

Pi's events call handlers; a handler reads the session view, perhaps begins a
preparation, and queues a workspace execution. The execution takes the store's
*workspace lock* (announcing *foreground demand* if it must wait), which gives
it the write authority every *metadata* transaction asserts. Within it, the
*admission* decides; scans read the files; *commitCapture* writes the slot; a
*restore* protects the slot, gives up the authority (the cutover) and writes
files. Between a departure and its arrival Pi itself moves the session leaf.
Other processes see only the lock, the database and the object store.

## The models

The modules come in seven groups, each checked by itself; what one group
promises, the next takes as an action or as a fact.

```
CheckpointSlots ------------- MetadataStore          (the database, many processes)
      |
      +-- CheckpointAdmission -- AdmissionHost        (one authority, a host at will)
               |
               +-- MutationAuthority -- ProtocolState -- CaptureProtocol
                       -- MutationProtocol -- NavigationProtocol
                       -- RestoreProtocol -- CheckpointProtocol
                                                      (one runtime, Pi, the user, crashes)
WorkspaceLock ==> StoreLock     ForegroundDemand      (the lock, many processes)

ContentFiles -- ObjectGc, ContentPublication,
                ContentReading, PackHandles -- ContentStore
                                                      (one store, a collection, a capture,
                                                       readers, power losses)
EngineController -- SessionRegistration -- ForkImport -- SessionLifecycle
                                                      (Pi processes, two stores)
WorkspaceScan -- WorkspaceApply -- WorkspaceOperations
                                                      (one workspace, other programs)
```

(`--`: is extended by; `==>`: implements.) The `MC` modules only name instances;
`MCLockFiles` puts two side by side.
Beside some definitions stands a second one with the same parameters that is
used nowhere (`CanCaptureAlways`, `RetireClosesAtOnce`, `RegConfirmsNothing`,
...). It is the definition with a plausible mistake in it; `PROJECT.json` says
for every property which mistake breaks it, so that every property is known to
depend on the code.

How the groups meet: `MetadataStore`'s `ExportFork` and `RegisterFork` are the
transactions around which `ForkImport` copies trees; a commit of
`ContentPublication` is the commit of a capture, of which `CaptureProtocol` and
`MetadataStore` say when it may happen and what it records; the two steps
in which `MutationProtocol` rewrites the files are an apply of
`WorkspaceApply`, of which the latter shows what the former assumes: an
apply that fails or dies leaves files that a later restore completes, and one
that reports success left what was recorded. An engine of `EngineController`
is the runtime of the protocol modules.

### CheckpointSlots

The four slot states as records, `BlockSlot`, `CanCapture`, `CanRelease`,
`CanAdopt` from `checkpoint-slot.ts`, and lineage from `checkpoint-lineage.ts`.
The entry tree is the constant `Path`: the ancestry of each entry from the root
down. (Session files only grow and an entry's parent never changes, so that the
tree that *will* exist can be fixed; which of its entries exist is state.)
`ReduceLineage` is the loop of the source, `Resolve` the law by which all else
is stated; the run `meta_history` compares the two at every reachable store, and
`LoopIsLaw` proves that they agree on every path and every row.
Tree identities are values of a constant set: what a tree contains is the
object store's concern.

### MetadataStore

One database. An action is one `BEGIN IMMEDIATE` transaction, guarded as the
code guards it: the lock holder's write authority (`holder`), the connection's
attached generation against the session's (`MayWrite`), a verified
registration, then the operation's own conditions. A call that is refused
writes nothing and is no step. What a caller passes in (`expected`) may be any
value, since it may have been read at any time before. That a connection exports a
fork and registers it before it writes anything else (`projection`) is the order in
which its caller calls, not a check of the store.

`finalizeSessionProjection` is one action per outcome: `RegisterFresh`,
`RegisterQuarantined`, `RegisterFork`, `VerifyPending`, `ClaimOrphan`,
`ReattachForgotten`, `Reattach`. `ExportFork` and `RegisterFork` are two
transactions with the lock held over both; `Close` is the end of a connection
or of its process at any moment. The rows an older schema may have left for a
`Legacy` session are the initial states. The whole-session `Forget` is a client
of the same schema that the code defends against (the comment at
`metadata/versions/v5.ts` on the history table), not a command of this release:
the tests perform it with `resetTestSessionHistory` of
`test/session-history-fixture.ts`, from which the action is taken.

### WorkspaceLock, StoreLock

Each step of a client is the code between two points where another process can
come in; `pc` names them. `Create` is the exclusive creation of the lock file,
`Exists` what follows `EEXIST`, `Publish`, `Rename` and `Reread` the
publication of the marker. Losing the process closes its file handle and so
drops the operating system's lock: a crash is the step `GiveUp` or `Release`.
`LegacyStep` is a client of release 0.2.4 or earlier as
`scripts/lock-protocol-matrix.mjs` and `docs/lock-transition.md` describe it.
`Tamper` is an actor that keeps to no protocol and moves the path, the marker or
the store away and back. `Write` is one assertion together with the durable
call it guards, which the code never separates by an await; what an outsider
does inside a single synchronous call is outside the model.

`StoreLock` is what the rest of the system believes: one owner, who alone
writes. `MetadataStore` and `ForegroundDemand` use exactly this (`holder`).

### ForegroundDemand

The two advisory locks on `foreground.lock`: shared by operations that wait,
exclusive for the momentary probe of a collection. `FgContend` is the poll of a
waiter that found the workspace lock taken, `GcProbe` the timer and the
collection's checkpoints.

### CheckpointAdmission, AdmissionHost

`checkpoint-admission.ts` as functions of the authority: `Decided`,
`ClaimOrdinaryMutation`, `BeginPreparation`, `Propose`, `FinishPreparation`,
`BeginTreeArrival`, `AdmitArrival`, `SettleArrival`, `CarryArrival`,
`CloseArrival`, `Reset`. A session view is the set of entries it shows and the
leaf; labels are entries that are not coordinates. An observation is a complete
reading: that `SessionViewTracker` authenticates incrementally what has been
appended is abstracted to that reading. `AdmissionHost` calls all of them in
every order beside a host that appends, labels and navigates: the discipline of
the runtime is deliberately absent, so that what holds there holds by the
authority alone.

### The protocol modules

One runtime, one session. `w` is the state that `MutationAuthority` settles in
one synchronous step: slots and barrier (durable), authority and participation
(in memory). `host` is Pi's session, `content` the files. Files are one value: a
member of `Trees`, or `Mix`, half of one and half of another; what a restore
checks path by path ("still what was scanned") is a condition on that value,
and a restore writes in two steps so that an edit, a failure or a crash can
come between.

A *job* is the workspace execution under way; it is cut into steps where the
code awaits. `queue` holds the handlers waiting for an execution, in their
order. `call`, `trip`, `arr` and `ask` are what the four kinds of handler carry
over their awaits: a capture, a departure, an arrival, and a restore or session
start. `owed` is a recovery a handler waits for instead of its work: losing
authority is immediate, protecting the rows needs the lock.

| Module | Code | Actions |
| --- | --- | --- |
| `MutationAuthority` | `workspace-mutation-authority.ts` | functions: `Boundary` (`settleCaptureBoundary`), `Protected`, `Recover`, `AdmitLocationIfResolution`, `AdmitTreeArrivalIfResolution`, `ProtectTreeArrival`, `CutoverLocation`, ... |
| `ProtocolState` | `runtime.ts`, `lifecycle.ts`; Pi and the user | `HostAppend`, `HostNavigate`, `HostStays`, `UserEdits`, `Crash`, `Protects` |
| `CaptureProtocol` | `capture-protocol.ts`, capture handlers of `lifecycle.ts` | `CaptureCalled`, `CaptureBegins`, `CaptureScans`, `CaptureCommits`, `CaptureFails`, `ProtectFailedSource`, `ProjectBarrier` |
| `MutationProtocol` | `workspace-mutation-protocol.ts`, `application/restore.ts` | `CutOver`, `WritesSome`, `WritesTheRest`, `BreaksOff`, `Verifies`, `Admits`, `AdmitsUnchanged`, `FailsToRestore` |
| `NavigationProtocol` | `navigation-lifecycle.ts`, `navigation-departure-protocol.ts`, `tree-arrival-protocol.ts` | `Departure...` from `Called` to `Proposed`, `TreeEvent`, `Arrival...` |
| `RestoreProtocol` | `confirmed-restore.ts`, session start in `lifecycle.ts` | `RestoreCommand`, `SessionStart`, `Restore...`, `Initialize...`, `Adopts`, `Reload...` |
| `CheckpointProtocol` | - | `Init`, `Next`, ghosts, properties, fairness |

Assumptions about Pi, from how `src/` uses it: `session_tree` is emitted by the
navigation itself, before Pi lets another event or command into the runtime,
and Pi awaits the handler before it navigates again; while the runtime
participates, Pi goes only where `session_before_tree` let it. A summary entry
may be appended at the target. Appends (messages) may come at any other moment,
in the middle of any await.

Two ghosts say what no code can see. `home` is the coordinate the files belong
to: where they equal the checkpoint, or where none is recorded; they follow the
session to an entry appended below. Two exceptions are by design and built into
the ghost: any files fit a coordinate that resolves to nothing, and a branch
started at a location whose checkpoint is pinned (the user chose to detach)
starts with the files at hand. `torn` holds the checkpoints whose restore was
interrupted.

What the properties except, they except by name. `AdmittedAtHome` and
`CapturesBelong` speak of moments when no handler waits to pay a protection
(`Free`): while one is owed, the coordinate is known to be in doubt and the
runtime has put the repair in its queue. That the exception is needed in
`CapturesBelong` is a history of the code, too long for the instances of the
runs: a restore asks its question at an entry; the user goes away, which drops the
restore's proposal, and comes back, choosing to detach; the answer arrives while
the arrival's job runs, an observed capture queues behind it, the arrival
fails, and its protection is owed at the end of the queue; the restore looks
again, finds the same view, checkpoint and files, claims the authority anew
(`confirmed-restore.ts`, the second execution), and fails before its first
write, which leaves the authority live; the queued capture then records
the files at hand on the entry before the owed protection closes it.
`CapturesBelong` excepts one thing more: what an arrival found at a destination that
resolved to nothing, where any files fit, is recorded there although the session
stands by then at a summary that Pi appended below.

Abstractions to know of. A departure's two rescans (source and shown preview)
are one step; the publication of scanned objects is one step that may fail; the
registration of the session is taken to hold, and losing it is one of the
`"failures"` steps; presentation is left out, a question is answered or not.

### The content store: ContentFiles, ObjectGc, ContentPublication, ContentReading, PackHandles, ContentStore

`ContentFiles` has the disk. An *object* (a tree, or a content) has records; a
record is whole, or the root of a chunk graph whose pieces are contents of
their own. Records are in files: a legacy blob, a loose record or a pack. Files
are immutable and named by what they hold, hence a file *is* its place and its
records; only a read tells a file from one of the same name that took its place
later. `unsynced` has the files whose directory entry a power loss would take
back, `abandoned` those of them whose writer ended, or lost its lock, before it
had synchronized the directory (and it keeps them when they are lost, until they
are synchronized or removed), `old` the files past the grace period of a collection, `roots` the trees
that committed checkpoints name, `hint` the packs in the multi-pack index.

| Module | Code | Actions |
| --- | --- | --- |
| `ObjectGc` | `object-gc.ts`, `content-store/compaction.ts`, `maintenance.ts` | a collection from `GcBegin` over `GcMark`, `GcList`, `GcSelect`, `GcMaterializePieces`, `GcMaterializeRoot`, `GcPlanPacks`, `GcPublishPack`, `GcSyncPack`, `GcListPacks`, `GcPlanSweep`, `GcAuthorize` and one `GcRemove` per file to `GcFinish`; `GcStops` at any of them |
| `ContentPublication` | `content-store/publication.ts`, `snapshot-publication.ts`, publishing in `pack-catalog.ts` | a capture: `WrBegin`, `WrPublishPack`, `WrSyncPack`, `WrRevalidate`, `WrCommit`, `WrStops`; `WrForget` drops a root |
| `ContentReading` | `content-store/repository.ts`, inventories and lookups of `pack-catalog.ts` | a read: `RdLegacy`, `RdLoose`, `RdIndex`, `RdList`, `RdListed`, `RdTry`, `RdExhausted`, `RdPiece`, `RdReplay` in a scope (`RdOpen`, `RdClose`) |
| `PackHandles` | `content-store/pack-handle-pool.ts` and its users in `repository.ts` | asking for a pack, waiting, opening and returning (`Asks` to `Returns`), `Invalidates`, retirement (`RetireCloses`, `RetireEnds`), the end of a scope (`PoolCloses` to `PoolEnds`), failures |
| `ContentStore` | - | the composition, with time (`Age`), late synchronization (`Writeback`), a lock file that others remove (`Stolen`) and `PowerLoss` |

A rename of a pack is one step and the synchronization of its directory another;
`PowerLoss` takes any of the files renamed but not synchronized. A capture or a
collection that ends in between leaves the file so until the operating system
writes it back (`Writeback`, at any time or never), and the next holder of the
lock begins at once: a capture may reuse the pack, a collection may keep it as the
owner of objects it removes elsewhere, and neither synchronizes it, as the code
does not, unless it publishes the very same pack again. Loose records of a
materialized graph are renamed and synchronized one by one; only a failure can
leave one in between (`Unfinished`). The synchronization of a directory is taken
to cover the file it is made for and no other of its directory, which leaves more
unsynchronized than the code does. Unlinking a file and synchronizing its
directory are one step.

What a collection selects is exact in what it looks at (which records are dead,
loose, shared, mixed, large) and free in what depends on sizes: a partly dead
pack is rewritten when half of its records are dead, and may be otherwise, since
half of its bytes may be dead or a live record be a delta (`WornPacks`); up to
`MaxBases` more packs may be rewritten for the deltas they allow; one group of
clean packs of each class may be merged; the budgets may defer any few of the
wanted keys, an optional rewrite may or may not pay, the publication may find no
room. `RetainedCoverage` is a
check the code makes before it sweeps; `SweepNeverUndercuts` says more, namely
that the removals are safe in every subset, whatever has been removed when
the process ends, and that none relies on a replacement the collection has not
synchronized.

What a power loss may cost is the one exception. `LiveSurvives` counts the
`abandoned` files as there, lost or not: it says that the store never costs a
checkpoint anything, except by a power loss that takes a file whose writer ended
before it synchronized it. Without the exception it would be false, see
[What the code does not keep](#what-the-code-does-not-keep).

A read holds no lock. It ends with the object, with a failure, or with the
verdict that the object is missing, and only the last is believed by its
callers; hence `ReadsAreRight`. What a read has seen of a pack in an inventory
is the identity of the file (inode, size, times), and that of a pack which is
unlinked does not come back when a pack of the same name is published: `Noted`
turns what was seen of an unlinked file into `Vanished`, which matches nothing
any more. The lookup index names packs without their identity. This distinction
was first missing, and only the attempt to prove `ReadsAreRight` showed that
the property needs it: with names alone, a read that lists the packs before
one is merged away, and concludes after the same pack was written anew, takes
a listing for current that is two collections old. The pool is a table of at most `MaxHandles`
entries in the order of use. An entry that must go is *retired*: it waits for its
users, is closed, and only then makes room. A reading has one handle at a time:
that of a chunk graph's root is given back before its pieces are asked for.
The packs of the pool's scenario do not change while it runs; that a pack is
gone is one of the cases.

### The session: EngineController, SessionRegistration, ForkImport, SessionLifecycle

`EngineController` is the one replaceable engine behind Pi's interface, in
each of several processes. A step runs from one await to the next. `host` has
the controller of a process (its epoch, the engine in use, the candidate being
initialized, the attempt a stop waits for) and its engines; `calls` has what Pi
called and has not got back. An attempt to create an engine is named by its
epoch, which is the engine's name too. `Dispatch`, `Pause`, `Resume`,
`SessionStart` and `SessionShutdown` are Pi's calls; `Attempt...`, `Creation...`
and `Engine...` what a resume goes through; `StopReturns`, `ResumeReturns` the
ends of the calls.

`SessionRegistration` is what an engine's start does: it looks at what the
session claims of a parent, binds the workspace, and in one or two critical
sections registers the session fresh, quarantined, or inheriting. `ForkImport`
is the case of a parent in another store: both locks are taken in the order of
the directories, the trees that the parent's slots name are copied, the parent
is looked at once more, and one transaction commits. Stores are places, so
that two paths may name one (`wc`), or a path none (`wd`).

`SessionLifecycle` composes processes and lets Pi append to, rewrite, remove
and move the parents' files, and others capture and collect in either store
while a registration is under way. `lost` is a ghost: what a parent's
file no longer proves, if that happened before the registration last read it.

Abstractions to know of: an engine's failing `close` is not modelled, nor is
a lock that a failed release left behind (`WorkspaceLock` has its recovery):
the failure is reported as the code reports it, the lock counts as free. Waits
for a lock may time out, but need not. Whether Pi is idle (a resumed engine
waits for that) is whether a handler of an event is pending.

### The workspace: WorkspaceScan, WorkspaceApply, WorkspaceOperations

`disk` has at every path of a small workspace a directory, a file, a link or
nothing. `WorkspaceScan` is the walk: `ScanEnters`, `ScanLists`, `ScanStats`, the
visits, the reads that go on while the walk does (`ScanOpens`, `ScanReads`,
`ScanFlushes`) and the last look at a directory (`ScanLeaves`). Comparing two
results of `stat` is a question about the time between them, so the model
keeps the answer: `steady` has the paths nobody changed since the scan first
looked, `bound` the directories that are still the ones it found. The other
programs write in place, put a file or a link in place of another,
move, remove, and exchange a whole directory.

`WorkspaceApply` has the plan of `restore-plan.ts` and every step of `apply.ts`:
deletions, pruning of what is left empty, clearing of empty directories that
stand where a file must be, directories, files and links. The check of a path
and the change it allows are two steps; what others change in between is
remembered in `raced`, since no program can exclude it. A file that replaces a
file is rewritten in place through its handle (`Truncates`, `Streams`,
`Verifies`), anything else is prepared beside its path and renamed over it
(`Prepares`, `Rechecks`, `Renames`, `Cleans`). Every change passes the gate of
the workspace lock; within the stream of a single file only the process's own
authority is asked.

`WorkspaceOperations` runs a capture (scan, publish, scan again and compare) or
two restores in a row, and states the properties. What the second restore
adds: it begins with whatever the first, failed or killed, left behind.
A capture cannot see a change that was changed back (`back`); this is the limit
of comparing two scans, and `ReportsAreTrue` excepts it.

Abstractions to know of. Where a directory is to be made, a path that something
has taken since it was found free may be cleared once more in the model (`Made`); the
code only fails. A file that is truncated through its handle after somebody moved
it away is damaged where it now is; the model leaves it as it was (`Inode`).

## The runs

Times and state counts are those of one machine with two workers and vary a
little.

| Run | Instance | What it shows |
| --- | --- | --- |
| `meta_history` | one connection, one session with rows of an older schema in every shape, four entries (a branch of three and a sibling), two trees, one forget; 83 000 states | inheritance by the law and by the loop agree (`LineageLawHolds`), rows only at coordinates the file has (`SlotsWithinGraph`), no capture under a barrier, pins keep their tree, blocking retargets nobody, adopted history starts closed |
| `meta_writers` | two connections (symmetric), two sessions, two files, two entries, one tree, one forget per session; 840 000 states | conflicting identities, stale writers after a forget, a pending reset, a projection between its export and its commit |
| `lock_files` | `workspace.lock`: two native and two legacy clients, two inodes, one marker; beside it `foreground.lock`: two waiters, two collections in processes of their own; fair; 8 700 states | the marker is a promise, both protocols together implement `StoreLock`, every attempt ends; a collection yields to announced demand, a waiter gets past it |
| `lock_tampered` | two clients, four inodes, two markers, three steps of an outsider, symmetric; 97 000 states | still one writer |
| `admission` | three entries and a label, one capture, two arrivals; 115 000 states | a lease that counts was never left, a proposal rests on live authority, an arrival is nobody else's |
| `protocol_navigation` | a fork of three entries, each branch recorded or not, two navigations, appended entries, one edit, three trees; 770 000 states | files of one branch are never admitted on another |
| `protocol_mixed` | a line of two entries; either every kind of capture, a navigation, a manual restore and an edit, or starts, reloads and a navigation where any step may fail and the process die between any two, from four shapes of the recorded slot, with an edit at any step or before the start; 681 000 states | authority only where the files belong, whatever the order; what is recorded belongs to its coordinate; only what was shown is overwritten; a half-written restore leaves its checkpoint pinned; a transition has a handler that will end it |
| `protocol_settles` | a line of two, one navigation, captures without end, any step may fail, fair; 40 000 states | an arrival ends; an owed protection is made |
| `collection` | two trees, a large content and its piece, stores of three generations in thirteen scenarios; in one of them three readings (symmetric) share two handles; 1 130 000 states | what a checkpoint names survives every step, every end and every power loss; a sweep is safe in every subset; a read never takes a moved object for a missing one; the pool keeps its bound and strands nobody |
| `flush_durability` | a blob and a tree, two captures of another tree, one failure, one power loss | **violated**, see [below](#what-the-code-does-not-keep): a capture is ready to commit contents that a power loss would take |
| `session` | up to two of three processes at a time, two stores, four calls at once per process, fair; 263 000 states | one engine at a time; a shutdown is final; a fork inherits exactly what its parent proved, or nothing; every call returns, also of two forks that import from each other's stores |
| `workspace` | nine paths (the root, two nested directories, files, an ignored path, three temporary files), eleven pairs of what is there and what was recorded; 763 000 states | no unseen work is destroyed; what is reported was there; an undisturbed restore succeeds after whatever a failed or killed one left |

### What the code does not keep

"Make all accepted records durable before publishing snapshot metadata", says
`publication.ts:54` of `flush`. `FlushIsDurable` states it of a capture whose
flush has ended: what its tree refers to would survive a power loss. The run
`flush_durability` finds it violated, in seven steps: a capture renames
its pack (`pack-catalog.ts:1911`) and ends before it synchronizes the directory
(`pack-catalog.ts:1930`), because it failed there or its process was killed. The next
capture takes the lock, finds the content in that pack, reads and authenticates it,
and reuses it (`repository.ts:865-926`). It publishes what is left, synchronizes
that, and commits. A power loss before the operating system has written the
directory back takes the pack, and the checkpoint refers to an object that is gone.
A pack that is published again over one that is there *is* synchronized
(`pack-catalog.ts:1806-1834`), and a loose record too; what is reused is not. A
collection that keeps such a pack in place of durable copies (`object-gc.ts:2569-2897`)
has the same effect. The window is the one between a killed process and the next
write-back, on file systems that keep no order of renames.

### Bounds, and why they are enough

- *Entries.* Lineage compares a coordinate with its ancestors and its siblings:
  three on a branch give a coordinate with two ancestors, which every rule of
  inheritance distinguishes, and one beside it gives a descendant of one
  ancestor that does not lie on the other branch. The laws are proved for every
  tree besides. In the protocol two entries give an inheriting target, three a
  target that does not inherit.
- *Trees.* Two tell "the same" from "another"; the fork needs a
  third, an edit that equals neither branch. `Mix` stands for all half-written
  contents: nothing in the code tells two of them apart.
- *Connections, clients.* The store and the lock are one resource, and a race
  for it has a winner, a loser and, where a state the winner left matters,
  one who comes after. Two native clients and two of the directory protocol make
  a winner and a loser of either kind and of both; that more of them are still one
  lock is proved. The two lock files are checked side by side (`MCLockFiles`), one
  going on only where the other has not begun: neither protocol reads what the other
  writes, and of the workspace lock `ForegroundDemand` takes only that it has one
  owner at a time.
- `MaxEpoch` (forgets per session) is 1: a writer is current or behind.
  `MaxTamper` is 3: move away, put another in place, and back. `MaxEdits` and
  `MaxMoves` bound the user; a second navigation starts from any state the first
  can leave.
- `Settings` names what an instance of the protocol exercises (the entry points and
  disturbances, the entries Pi may append, the trees an edit may make), the
  session, rows and files it may begin with; `uses` keeps the choice. Of two trees that nothing
  recorded tells apart one is enough. The protocol has four
  kinds of handler, and all of them at once are out of reach: each setting
  takes those whose interference it asks about, and between them every pair
  meets. Failures and crashes are kept out of the settings that ask about orders,
  and the reverse.
- *Store.* One content with a piece, beside a tree, has every kind of record; a
  second tree makes part of a pack dead. `Loosely`, `Packed`, `Twice`, `Tiers`
  and `Half` are the stores that a history of releases and of interrupted
  captures may leave: legacy blobs, compacted packs, packs that repeat one
  another, small clean packs, and a half dead pack beside objects not yet
  committed. The bounds say how often each thing may happen: `Breaking` allows one
  of each (capture, collection, failure, theft of the lock, power loss, passing
  of the grace period), `Twofold` two captures or two collections, `Moving` two
  collections that move an object twice under one read. `MaxDeferred` is 1, for a
  budget that leaves something for later, and so is `MaxBases`, for a pack
  rewritten only for its deltas beside those that are worn; `FanIn` is 2 where the code has 4,
  which differ only in how many packs a merge takes. `MaxHandles` is 2 and the
  readings are three, so that one waits and one that is served makes another
  retire; four requests for three packs let a pack be wanted by two and come
  back after its retirement. `MaxReserved` is a ceiling of the encoding, at the
  least value its assumption allows: with it no entry is ever without a number,
  as the proof of `HandlesStayBounded` shows for every size of the pool.
- *Session.* `MaxEpoch` bounds the calls that advance an epoch. `Controlled` has
  one process and Pi's calls in every order, a few of each kind; the controller's
  rules compare an attempt with the one before it and the one after, for which
  two resumes beside the start are enough.
  `Crossing` is two forks that import from each other, `Twins` two processes
  that register the same session, `Forks` and `AtOdds` one registration for each
  kind of parent and each state of the rows it may find, with one or two
  changes under it.
- *Workspace.* Each pair is a way in which a path changes its kind: a file to a
  link, a file to a directory and back, a directory that goes with what was in it,
  an ignored path in the way. Two changes by others are the least that exchanges
  something and puts it back. A restore has one change with one failure, loss of
  the lock or crash, or a failure and a crash.

Deadlock is checked everywhere except where an instance really ends: the
protocol runs (edits and navigations are spent), `lock_tampered` (an outsider
may leave a store nobody can lock), `collection` (its bounds run out), `session`
(Pi may stop calling) and `workspace` (the last operation ends). In
`collection` its place is taken by `NobodyIsStranded`.

## Fairness

- *Lock.* Weak fairness of each step of an attempt, of the clock (`Expire`) and
  of the refusal of an attempt whose time is up (`Refuse`). The loops of
  `acquireWorkspaceLock` poll on timers and assert the attempt on every round;
  nobody is assumed to release the lock, and no crash or legacy owner to go
  away.
- *Demand.* Weak fairness of the collection's probes and of its yield: the
  probe is a timer and every checkpoint of the collection looks at the signal.
  Strong fairness of `FgContend`: the momentary exclusive lock of a probe may
  refuse a waiter's poll, but not all of its polls. That a collection ends by
  itself, or that a waiter is patient, is not assumed.
- *Protocol.* Weak fairness of the job under way (`Works`), of the head of the
  queue (`Serves`) and of the event Pi owes (`TreeEvent`). Executions are a
  promise chain, each started when the one before it has settled, so whoever
  waits is served in order; scans and writes end or fail. Neither Pi nor the
  user has to do anything: `ArrivalSettles` and `ProtectionIsPaid` do not need
  an answer to a question. Actions of `Works` and `Serves` are never both
  enabled, since a job holds the queue.

- *Pool.* `NobodyIsStranded` is an invariant: while anybody waits, for a permit, a
  retirement or the end of the leases, some step of the pool or of its readers
  other than a new request is enabled. Each such step brings its reader or
  entry nearer to its end, and requests are bounded in the instance; so every
  wait ends once steps that are enabled are taken.
- *Session.* One weak fairness condition over the steps of handlers, of attempts
  and of registrations together: promises settle, handlers return, and file
  operations end or fail. Pi need not call anything, no wait for a lock need time
  out, and nothing need fail. With the calls bounded, one condition over all
  steps is enough: while it holds, something goes on as long as anything can.

## The proofs

`tlapm` checks all of these for every value of the constants that satisfies the
named assumptions, which TLC evaluates in each run. Most assumptions say that
sentinels are not values (`NoTree`, `NoEntry`, `NoClient`, ...), that two kinds of
client are different, or that `Path` gives every entry a finite ancestry that ends
at it and whose prefixes are the ancestries of its members. Three are about
what an instance begins with: `InitialAssumption` (a session file holds whole
ancestries and what its leaf stands on, and there are rows only for entries of
the file), `StoresAssumption` (what the roots of a store name can be read) and
`ScenarioAssumption` (a slot of a store names trees of that store). A run
leaves nothing else behind: the inductive invariants keep all three.
`PlaceAssumption` says that the path of a process' own workspace names a store.

Each proof has an inductive invariant, a lemma per action or group of
actions, and a temporal step at the end. What TLC could not refute on an
instance, or refuted, is how the invariants were found.

**Lineage** (`CheckpointSlotsProofs`). The nearest checkpoint is well defined
(`GreatestExists`, `NearestExists`, `InheritedFromNearest`), and
`ResolutionSurvivesBlocking`: when some coordinates keep their slots and others
are blocked on what they inherit, in any number and order, no coordinate of
any tree resolves to another tree than before. `LoopIsLaw`: the loop of
`checkpoint-lineage.ts` finds what the law says. The law satisfies the loop's
recursive equation, so that the function the loop computes exists; a least
position at which two solutions differ cannot be (`WFMin` of the library).

**Metadata store** (`MetadataStoreProofs`). One inductive invariant `Inv` gives
`TypeSafety`, `IdentitySafety`, `ResetSafety`, `GraphSafety` and
`ProjectionSafety`. It is the conjunction of these properties, because each
needs another, and of `GraphClosed`: rows are within the host's file
(`SlotsWithinGraph`) because a fork brings only coordinates the child has, which
is known of the exported projection (`ProjectionCurrent`) because its exporter
still holds the lock and the graph only grows; a fork child is a session whose
reset is not pending, and so on. The proof has a lemma per action. Writes of a
session share `SessionWriteKeepsInv`: a writer passes `MayWrite`, so nothing is
exported or pending, and only its own session's rows change. `LineageSafety`
adds that at every reachable store loop and law agree.

The six action properties of the store follow from `Inv` (`WritersSafety`,
`BarrierSafety`, `PinSafety`, `BlockingSafety`, `ForkSafety`, `HistorySafety`).
`StepKinds` says what any step is to one session: it leaves its rows alone,
blocks coordinates on what they inherit, opens one coordinate, registers the
session or forgets it; the first four theorems go through these kinds.
`BlockingSafety` adds the lineage law above. `ForkSafety` needs that an export
holds whole ancestries (`ExportsStayClosed`) and that a resolution depends on
its own ancestry only (`ResolutionIsLocal`).

**Workspace lock** (`WorkspaceLockProofs`). `LockInv` (types, and `HandleLaw`:
a client past opening has a file, past locking holds the system's lock on it)
is inductive even with an outsider at work, and gives `WriteExclusion`: two
authorities that pass their check name the same path, hence one file, hence one
holder. Without the outsider `CoopInv` adds `PathLaw`: a living legacy owner
has its directory, every open file is the one the path names, and the marker
excludes the directory. It gives `MarkerSafety`, `LockFilePersists` and, with
`Owner` as refinement mapping, `LockImplementsStoreLock`: each step of a client
is a step of `StoreLock` or a stutter.

**Admission** (`AdmissionHostProofs`). `AdmInv` adds `LeaseLaw` to the types and to
`ProposalIsBacked`: what a lease's holder expects is a view the host has only
extended since, and if the host's leaf has left the place of the lease, then
either the graph has grown, or the leaf is not back and the event is still to
come that takes the lease away. The last case is why the law is needed: a
navigation there and back leaves no trace in the view, and `LeaseStayedPut` says
that it cannot be mistaken for staying. `LeasesStayPut`, `ProposalsAreBacked` and
`ArrivalsKeepAuthority` (an action property) follow, for any number of
captures, preparations and arrivals.

**Session** (`SessionLifecycleProofs`). `SessionInv` has four parts.
`EnginesOK`: attempts are served in the order of their epochs, at most one of
them beyond its queue; only the attempt that initializes has an open engine that
is not in use; an engine is revoked once and only when overtaken; a shutdown
that waits waits for the last attempt that is pending. `StoresOK`: whatever a
row names is in its store. `RegistrationsOK`: a registration holds the locks its
step needs and a process has no others, what it projected from the parent's
row is what that row still has, and what it last read of the parent's file was
not lost before. These give `EnginesAreOneAtATime`, `ShutdownsAreFinal` (no
engine, attempt, registration or lock is left when a shutdown returns, and none
comes after) and `ForksInheritTheTruth`: the row a fork commits has, at each
coordinate on which the two readings of the parent's file agree (`Agreed`), what
the parent's row has at that moment, and nothing elsewhere. The calls that raise
an epoch are bounded (`MaxEpoch`, any number), since epochs name engines.

**Content store** (`ContentStoreProofs`). `StoreInv` is inductive
(`StoreInvariant`) and has the two properties as conjuncts, because a sweep is
safe for what was true when it was planned: `CollectionOK` says that what was
marked covers the roots the collection began with and the pieces of every graph
it knows, and `CaptureOK` that what a capture's tree refers to is there for good
or among the packs still to be published. `SyncOK` says what is not synchronized: what
an ended writer left, and the one pack the holder of the lock has just renamed
(`InFlight`); hence a holder that has nothing in flight relies on no file of its own
that could still be lost. `SweepsNeverUndercut` then says that no subset of
the planned removals takes away what the roots need, and `LiveObjectsSurvive`
that the roots can be read at every moment from what a power loss would leave,
with the one exception for `abandoned` files that the run `flush_durability`
shows to be needed. Both hold for any stores, trees, contents and pieces, and any
number of writers that end anywhere and are followed at once.

The pool of handles has an invariant of its own (`PoolInvariant`), of the permits,
the entries and the readings together: `PermitsOK`, the permits left and the
readings that hold one are never more than the handles; `EntriesOK`, an entry
counts exactly the readings that use it, has none while it is closed, and is given
back when it has none and has left the table; `TableOK`, what is open or is being
retired is in the table, once; `WaitersOK`, who waits for a permit waits once;
`PhaseOK`, a scope that retires what is left has no lease any more. From it comes
what the code claims in a comment of `#reserve` and answers with an error if it is
wrong (`pack-handle-pool.ts:248`): the reading that has a reserved permit
uses no entry yet, so fewer entries are in use than the table has places
(`FewAreUsed`, an injection from the used entries into the other holders), and a
full table has one to retire or to wait for (`FullTableHasRoom`). The same count
shows that `2 * MaxHandles - 1` numbers are always enough for entries
(`NumberIsLeft`), which is why `HandlesAssumption` asks for no more.
`HandlesStayBounded` holds for any number of handles and readings, any packs, and
any files under them.

`ReadsStayRight` is about a reader without a lock. What protects it is more than
`SweepsNeverUndercut`: an object must not only stay readable, it must stay where
the read has still to look. `ReadingInvariant` has two parts beside `StoreInv`.
`PackingInv` has the collection's half: whatever a plan
removes of the packs (redundant, rewritten or merged), each live object in it
is in a pack of the inventory that stays, or in a replacement that is visible
before the first removal (`PlanOK`, `ReplacementsOK`, `RemovalsOK`), so that what is
packed once stays packed. `ReadingInv` has the read's half: an object referred to
all along that was neither a blob nor a record of its own is in a pack from then
on (`TopOK`), since blobs are never written again and what can be read must be
somewhere (a read is judged on an object that could be read when it began: one that
a power loss had taken before is missing indeed); the candidates a fresh inventory has left are all it has of the
object, but for files that are gone (`ListedOK`); and while the store does not change
under the scope, what was seen is what is there and the pieces of a graph are found
(`CalmOK`). A verdict *missing* needs a fresh inventory that is still current and
has nothing left to try, which contradicts the first two; a failure without a
change contradicts the third. Without the identity of files `ListedOK` is not
inductive: a candidate passed over because it was gone could be back.

**Protocol** (`CheckpointProtocolProofs`). `ProtocolInv` says what handlers, the
execution under way and the authority know of each other: whoever put the
authority in transition is still at work (`Owned`), what a handler goes on with
is what it was given (`Informed`, `JobKnows`), Pi owes no second event while the
first is handled (`Due`), the session is where the execution began or it has
lost it for good (`JobHere`), what it found whole is whole (`JobFound`), and
files at risk have their checkpoint pinned (`JobPins`). The last two are why
`TornStaysBlocked` is inductive: only a step that found the checkpoint's files
complete opens its slot. It gives `ProtocolTypeCorrect`, `TransitionsHaveOwners`,
`TornStaysPinned` and the action property `OnlyWhatWasShownIsOverwritten`. Every
step of the authority but a release is `Tame` (lemmas about the functions of
`MutationAuthority`): pinned checkpoints stay, no transition begins or changes
hands, and a runtime that does not participate stays so; a release opens the one
coordinate it was asked for, if its checkpoint is the expected one.

**Files at home** (`CheckpointHomeProofs`). `FilesAreAdmittedAtHome`: whenever
the authority would let a capture at the present location through, and no
protection is owed, the files belong there. It is proved over `ProtocolInv`
with `HomeInv`, whose core is `Guarded`: *either* nobody may capture here now,
and whoever ends that state settles the location first (`Exposed`: no live
runtime, Pi landed elsewhere and has not said so, an arrival in transit, or
authority given up for a restore or not yet claimed by a start), *or*
(`Sheltered`) the location is shut, or the files are at home, or a protection is
owed. The other parts keep `Guarded` inductive: `MapInv` (the graph holds whole
ancestries), `Fresh` (an entry not in the file has no row, so that one appended
inherits), `Dormant` and `Spent` (a runtime that does not participate, or that
writes files, has no authority), `FitsHome` (files that fit belong), `JobHome`
(what an execution found the files to be is what its location still resolves
to, or it has lost its session), `Applying`.

`CapturesAreOfHomeFiles` is about a later moment: a capture is admitted, waits for
the queue, scans and commits while Pi goes on, and what it records must still
belong where it records it. `HomeInv` covers every step that records something but
this one; for it the proof adds `QueueInv`, the order in which handlers come to
their turn. `CallPlace` is the core: while a capture is
to come, the runtime still participates and the graph is as it was when the capture
was called, Pi is where the capture was called; *or* it has left that coordinate and
its `session_tree` is due; *or* an arrival is under way or owes a protection, and
comes later than the capture. `CallInLine` and `ArrInLine` keep that inductive: a capture called
before a navigation stands before its arrival in the queue (`CallFirst`), and
an arrival asks for one execution at a time (`Single`), so that no arrival which
came first can be mistaken for one that comes after. Each step is then shown to
record a new tree at one coordinate at most, and that one to be home, or in doubt
with a protection owed, or the unresolved destination of the arrival at work
(`KeptRightly`). The invariant of the whole is `QueueInvariant`.

**Only model-checked.**

- Liveness, and `NobodyIsStranded`, which needs `ENABLED`: TLAPS has no rules
  here for either.
- The demand, and the workspace (`NothingUnseenIsLost`, `ReportsAreTrue`,
  `QuietRestoresSucceed`), whose loops over paths would be inductions over data.


## What is not modelled

What a model leaves out of the code it stands for, and what has no model:

| part | what is left out, and why |
| --- | --- |
| Schema migration (`metadata/migration-engine.ts`, `metadata/versions/v1.ts` to `v4.ts`) | what the migrations leave of older rows is the set of initial states of `MetadataStore`; the engine runs a fixed chain of scripts in one exclusive transaction before anybody can attach, and a model would have to assume the atomicity that makes it right |
| Checkpoint admission | the incremental authentication of session views: an observation is a complete reading |
| Session registration | the bytes of session files and receipts, and the replacement of a store that lost its receipt: parsing and one-time identity checks with no second actor |
| Session lifecycle and runtime | status lines, widgets, and the scheduling of the timer of the automatic collection |
| Object store, repository, packs | corruption (a record that fails its hash is a failed read), limits of bytes and counts, cancellation of reads, the format of a pack, the creation of a store |
| Workspace scan and apply | Git's ignore rules and the discovery of the policy (which paths are ignored is a constant); names that differ only in case or Unicode form; hard links, devices, limits, reuse of inode numbers, Windows; what lies behind a link that took the place of an ancestor; the preparation of a restore before its first change is one step, since it only reads |
| Tree formats, content encodings | codecs: what matters of them is that they are injective and verified on read, which a model would have to assume; a tree is an identity, and a chunk graph's recipe part of its root's record |
| Private scratch, composition of failures | nothing of them outlives the operation |
| Commands, questions' wording, presentation, configuration | no state of the checkpoints; the answer to a question is a nondeterministic choice |
| Build, release and measurement scripts | no part of the running program |

Of what the models do cover, some things are assumed rather than shown: that
SQLite transactions are atomic and serialised by the writer lock, that the
native file lock of a process ends with it, that a rename is atomic and is durable
once its directory is synchronized, and what the models take of Pi (listed with
the protocol and session modules above).

## The plan

The order of the modules was that of the harm: first what decides which files
a checkpoint may record and a restore may overwrite, then what keeps a
recorded checkpoint readable, then what carries out a restore, then what keeps
the runtime alive. The modelling is complete in this order; what is left out is
left out for the reasons above. Every hazard of `PROJECT.json` has a property.

What could be proved next, in this order:

1. `ForegroundDemand`: its types, and that a collection which yielded found the
   shared lock taken, for any number of waiters.
2. `WorkspaceOperations`: types, and that a path is changed only after it was
   checked.
