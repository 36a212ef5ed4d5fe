# SLSsteam-moon: specifications, model checks and proofs

This directory holds TLA+ specifications of SLSsteam-moon, an LD_AUDIT module
that is mapped into the Steam client, hooks its IPC dispatchers and changes
which apps the client believes it owns. The specifications are written from the
code under `src/src/`; a comment or a document is quoted only where it says
something the code does not do.

The program is a guest in another process. It has no main loop: its code runs
on Steam's own threads (the hooked `RunIPCFrame` dispatchers, appinfo and PICS
callbacks) and on a handful of threads of its own (inotify watchers for the
configuration and the API directory, detached provisioning and warm-up
workers). Nearly everything that can go wrong is about which of these threads
does what to which shared state, in which order, and what happens when the
module is torn down half way.

## 1. Inventory

Paths are relative to `src/src/`.

| Component | State | Operations | What makes it correct |
|---|---|---|---|
| Owner queue (`utils/ownerqueue.hpp`) | pending commands, `m_executing`, `m_exec`, `m_shuttingDown` | `push`, `pushBatch`, `drain`, `flushStale`, `runPendingThen`, `shutdown` | serialised, exactly once, in order, bounded, nothing after close |
| Owner work dispatch (`ownerwork.cpp`) | owner tid, enabled switch, staleness threshold, placement gate | `submitBatch` and its five front ends, `idleTick`, `drainOnOwnerFrame`, `runCommand`, `shutdownIfPlaced` | work reaches the owner or a fallback, never both, never after teardown; no caller waits for the owner |
| Reload coordinator (`feats/hotreload.cpp`) | one mutex over the managed and ready sets, the generation, fingerprints, repair lists | `initialize`, `publish`, `publishPreparedBase`, `publishMetadataCompletion`, repair requests, `shutdown` | one snapshot per generation, a new app enters ownership only when it is prepared, stale preparations are refused |
| Membership store (`feats/hotreload_state.hpp`) | current and retired snapshots, reader count, one dirty-generation slot | `publish`, `contains`, `noteResolved`, `takeResolvedDirty` | no reader touches a freed snapshot, a resolution is not forgotten |
| Package patch (`feats/packagepatch.cpp`, `hotreload_package.hpp`) | desired and applied snapshots, package vectors, appinfo request reservations, runtime refresh retries | `synchronizePackage0`, `injectIntoPackage0`, `forceReconcileLicenses`, `reprocessCurrentState`, `processRuntimeRefresh` | package 0 converges to the newest snapshot, each id is requested once |
| Provisioning (`feats/appinfo_provision.cpp`, `provision_pass.hpp`, `provision_schedule.hpp`) | pass mutex, per-app publication generation, retry memo | the pass, the preparation of an app, `forgetApp` | results of a removed app are not published |
| Refresh queue (`feats/provision_refresh.hpp`, `thread_start.hpp`) | active and pending requests, the worker's token | `refreshInBackground`, `startRefreshWorker`, `finishRefresh`, `retainRefreshAfterFailedStart` | at most one worker, no request lost, whatever of a start fails |
| Atomic file (`utils/atomic_file.hpp`) | files | temporary, fsync, rename | a reader sees the old or the new content |
| Cache pair (`feats/cache_pair.hpp`, `provision_cache.hpp`) | two files, their backups and a marker; generations, invalidations and two memos | `publish`: stage, replace, roll back; probe, validate, withdraw | a failed publication leaves the files as they were, and a removed app's cache is not read again |
| Library removal (`feats/libraryremoval_policy.hpp`, `libraryremoval.cpp`) | wanted, told and restorable apps, a deque of works, the one in flight | `push`, `cancel`, `readyToRestore`, `drainOne`, `begin`, `finish`, `retry` from the frame hook | the library ends up showing what was asked last, whatever was in flight |
| Manifest fetch (`utils/ManifestFetch.cpp`) | jobs under way, the archive's circuit and offline signal, what the user has been told, the session | launch or join, wait, attempt, retry, reset of the session | one job per manifest, no promotion lost, one probe at a time, nothing of an old session in a new one |
| Bounded executor (`utils/boundedexecutor.hpp`) | workers, queue | submit, run, stop | bounded workers and backlog, what is accepted is run |
| File watcher (`filewatcher.cpp`, `filewatcher_burst.hpp`) | inotify descriptor, watches, stop flag | loop, rearm, stop | no edit is missed, no callback after stop |
| Configuration (`config.cpp` and its policies) | guarded settings, last good load | load, reload, normalise | a broken file keeps the last good state |
| AppInfo hook guard (`feats/appinfostate.*`) | store pointer, authoritative set | hook entry, publish | hook passes through when unbound |
| PICS worker (`feats/pics.cpp`) | queue of raw caches, worker flag | callback, worker | one worker, last cache wins |
| Process lock (`utils/process_lock.hpp`) | lock file | acquire, release | one holder |
| Depot keys, quarantine, manifest store/bind/code/donor, tickets, prewarm, SteamStub, pattern cache, updater | maps, files, small workers | lookups, persistence | see the plan |

How the parts meet. A configuration edit wakes the **watcher**, whose callback
reloads the **configuration** and calls the **coordinator**. The coordinator
builds a snapshot under its mutex and hands it to **owner work**, which pushes
it onto the **owner queue**; the owner thread takes it on its next IPC frame and
runs it in the **package patch**. A newly added app is first prepared by
**provisioning**, on a detached worker, which reports back to the coordinator
either directly or, when the app needs a compatibility tool, through a command
on the owner queue: the coordinator is then re-entered from *inside* a command
that is running under the queue's execution mutex.

Lock order as the code has it: coordinator mutex, then the provisioning pass
mutex, then the queue's `m_exec`; but `m_exec` is held while a compatibility
step takes the first two. This is the one place where the order is not a line,
and the hardest thing about the system (section 5, `HotReloadStalls`).

What is hard to test, line by line and with the properties aimed at each, is the
list `hazards` of `PROJECT.json`. In short: two threads between the claim of a
batch and `m_exec`; a refusal that means "closing" read as "full"; work that
re-enters the coordinator from inside the queue; a result of a preparation that
a removal has overtaken; a lock-free reader between its count and its load; one
signal slot for many resolutions; a presentation in the client's hands while
the opposite is asked for; a thread that may or may not have been started; a
publication of three files that fails at the last; a package the client loads
anew inside the call that reads it; an answer of a session that is over.

## 2. Modules

```
OwnerCommands ── OwnerQueue ─┬─ OwnerQueueImplements ── MCOwnerQueue
                             │     (refines OwnerHandoff)
                             ├─ OwnerQueueProofs ─┐
                             └─ HotReload ────────┴─ HotReloadProofs
                                    └─ MCHotReload
SnapshotStore ─┬─ MCSnapshotStore        LibraryRemoval ─┬─ MCLibraryRemoval
               └─ SnapshotStoreProofs                    └─ LibraryRemovalProofs
RefreshQueue ──┬─ MCRefreshQueue         CachePair ──────┬─ MCCachePair
               └─ RefreshQueueProofs                     └─ CachePairProofs
Package0 ──────┬─ MCPackage0             ManifestFetch ──┬─ MCManifestFetch
               └─ Package0Proofs                         └─ ManifestFetchProofs
```

A definition whose comment begins with "Variant:" is no part of a specification.
It is the definition after it with one plausible mistake, kept to show that a
property notices that mistake (`mutants` in `PROJECT.json`).

### OwnerCommands and OwnerQueue: the owner queue

`OwnerCommands` has the commands and the pure part of a push
(`Queue::applyPush`, `pushBatch`): `sameWork`, `Absorbing` (which pending record
takes the command), `Merged` and `Coalesce`, `CanPush` (both bounds), `Push`.
Lists of ids are sets, since the code only unites and counts them. The appinfo
request ids of a snapshot travel exactly as its added ids do and are merged with
them in `added`. Where the code tries a batch on a scratch copy and then swaps
it in, `CanPushBatch` is the trial and `PushBatch` the swap.

`OwnerQueue` is `class Queue` under its most general client.

| Variable | Code |
|---|---|
| `pending`, `executing`, `shuttingDown` | `m_pending`, `m_executing`, `m_shuttingDown` |
| `exec` | the holder of the recursive `m_exec` |
| `pc`, `hand`, `batch`, `claimed` | a thread's place in `submitBatch`, `runPendingThen` or `runBatch`, its batch not yet handed over, the batch it is running, and whether it holds the claim |
| `ops` | bound: submissions per thread |
| `done`, `abandoned`, `lost`, `unreconciled` | history: what became of each submitted command (a *ticket*), and injected ids no broadcast has followed yet |

Every section under `m_mutex` is one action; acquiring `m_exec`, running one
command and giving the claim back are actions of their own, because other
threads may act between them. `Abandon` / `PushAccepted` / `PushRejected` /
`ClaimInline` / `JoinInline` are the ends of `submitBatch`; `Drain` is the
owner's IPC frame; `FlushStale` the sweep, from a watcher's poll timeout or ahead
of a submission (`swept`). `RunAgain` is the `EnsureCompat` command that puts
itself back, and `RunPublishing` the one that publishes a snapshot from inside
the owner's drain: its nested submission cannot claim, and re-enters `m_exec`.
In `OwnerQueue` a thread in `hand` may take any route; which route is taken when
(queue switched off, owner not latched) is `HotReload`'s matter.

Clocks are left out: a record is fresh or `stale`, and `Age` makes the oldest
fresh one stale. Statistics and tracing are left out.

`OwnerHandoff` says what a queue is for, without threads, locks or claims: a
line of sets of tickets, served from the front, exactly once; work may join the
line, be served on the spot, go back to its end, or be refused.
`OwnerQueueImplements` maps the line to *claimed batch, then pending set*.

### HotReload: a configuration edit, end to end

`HotReload` EXTENDS `OwnerQueue` and takes its actions as the queue half of its
own. Five threads: the owner, the config watcher, the provisioning worker, the
PICS cache worker and the main thread (`initialize`, unload).

| Variable | Code |
|---|---|
| `config` | the managed app ids of `g_config` |
| `publication`, `requests` | `g_cachePublicationGenerations`, the refresh requests still to be served |
| `coord`, `pass` | who holds the coordinator's mutex, the provisioning pass mutex |
| `initialized`, `generation`, `managed`, `ready` | `CoordinatorState` |
| `latched` | `g_ownerTid` is set |
| `desired` | `g_desiredSnapshot` of the package patch |
| `call`, `job` | where a thread is in its call outside the queue, and what the call is about |
| `prepared`, `owed`, `edits` | history: apps prepared and not forgotten since, announced apps whose restore is due; bound: edits |

`publishLocked` is three steps: everything up to the submission (`PublishLocked`),
the queue's own steps, and the commit of the new state with the refresh requests
(`CommitMembers`, which needs the pass mutex to read each app's publication
generation). `publishPreparedBase` and `publishMetadataCompletion` are
`Coordinate` (what is looked at under the coordinator's mutex), `Validate` (under
the pass mutex) and `CommitApp`. When the owner's compatibility step publishes,
the submission runs at once inside the step (`ValidateAndRun`). `CompatFails`
is the attempt that is pushed again; `PutBack` the same command met off the
owner thread.

Abstractions: the worker serves its batch of requests one at a time, and merges
requests for one app by keeping the newest epoch; planner and depot ids follow
from the base ids; the metadata and cache-repair lists of the coordinator are
left out; what the network answers is the choice between `Prepare` and
`DropRequest`.

### SnapshotStore: lock-free membership

One action per atomic operation of `class Store`: a reader counts itself in
(`Enter`), loads the pointer, looks an app up, re-checks that its record is
current, sets it resolved by compare-and-swap, raises the signal, and leaves; a
publisher, under `publishMutex_`, retires the old owner (`Replace`), swaps the
pointer, looks at the reader count and clears; the owner's frame takes the signal
(`Take`, `Scan`). A snapshot is a value that stands for its address, which is
sound because every publication has a generation of its own. The operations that
decide lifetimes are sequentially consistent in the code, so interleaving them
loses nothing. `shared_ptr` copies handed to callers only keep a snapshot longer
and are left out. Everyone who publishes does so with the coordinator's mutex held
(`publishAppInfoScopes`); the model has two publishers that meet, which the store's
own `publishMutex_` is there for.

### LibraryRemoval: what the library shows

The queue of `libraryremoval_policy.hpp` under callers in any order, and the
frame hook of `libraryremoval.cpp` with the client's `MarkAppChange` between
`begin` and `finish`. `desired`, `effective`, `presentReady`, `pending`,
`inFlight` and `reassert` are the class's fields (the two sets beside the deque
are `Queued(pending)`), `hook` stands for the setup of the hooks and `closed_`,
`source` for the object the client has named, `frame` and `work` for the stack
of the frame, `hidden` for what the client was told (external). The coordinator
calls `queue`, `cancel` and `restore` in a particular pattern; the model lets any
of them come at any time, which covers that pattern. `RequestFullReassert` has no
caller in the source today; it is modelled because the queue offers it.

### RefreshQueue: one background worker

`RefreshQueue` of `provision_refresh.hpp` with the detached worker that
`startRefreshWorker` creates. Every section under `g_refreshScheduleMu` is one
action. A start is outside the lock and has the outcomes of `thread_start.hpp`:
the thread is there (`Started`), was never constructed (`NotConstructed`), or was
constructed but could not be detached, in which case the starter waits for it to
end (`DetachFailed`, `Joined`) and then undoes a start that may have been followed
by others (`Retain`; the token tells). A pass accepts its requests, fetches, and
may throw. `busy`, `active`, `pending` and `token` are `active_`,
`activeRequests_`, `pendingRequests_` and `g_refreshWorkerToken`; `generation` is
the app's publication generation. The reasons of a request and its publishing
flag are one set of flags. `local`, `read` and `told` follow the versions of an
app's local inputs and are there for `ChangesAreRead` only.

A pass that throws is over as far as the queue goes: `finishRefresh` does not put
its requests back, although the log line of the worker (appinfo_provision.cpp,
"async refresh worker failed; will retry") says it will be retried. What retries
is the next request.

### CachePair: three files, one publication

The buffer, its metadata and the marker of a synthetic one. Every file operation
is a step and may fail; the process may die between any two and start again.
A content is the number of the publication it comes from, `0` for no file.
`disk`, `marker` and `aside` are the files and the copies `CachePair::publish`
stages; `tx` the locals of the publication that holds `g_cachePublicationMu` and
the file lock; `generation`, `hidden`, `judged` and `memo` the process's tables of
publication generations, invalidated apps, validation and probe results. Both
publishers are there (`persistBuffer` of the provisioning worker, `persistAppBuffer`
of the PICS worker, whose buffers are normalised), a removal with its four steps,
and a probe that remembers its answer.

What it does not show: the set of invalidated apps is process memory only, and a
removal whose files cannot be moved away is undone by a death of the process,
which is why `RemovedStaysHidden` is about one process. A reader of the memo only
may be told "fresh" of an app between its removal and the end of `forgetApp`.

### Package0: what the client's package holds

One set for the vectors of apps and of depots, which the code treats alike in the
same sections. `live` is the vector, `native` (history) what the client filled it
with at its last load, one of `Contents`, `seeded` what `g_seededAppIds` says the
plugin put there, `desired` the snapshot, and the rest the statics of
`packagepatch.cpp` under their names. All of it but four atomics is under
`g_seededMutex`, which is never held across a call into the client: the steps are
the locked sections, the atomics and the calls. Threads: workers run the commands
of the owner queue and `reprocessCurrentState`, loaders are the client's calls of
`LoadPackage`, askers its calls of `CheckAppOwnership`. The client may load the
package again inside `ProcessPendingLicenseUpdates` (`back` is where such a nested
load returns to). What may fail is a constant (`Faults`): growing a vector
("grow"), finding the local user ("user"), the guard of unresolved apps ("guard"),
the client's processing ("retain"), its updater ("offline"), and the status of a
loaded package ("status"). `seen` is what the client read last; `unread`, `owed`
and `asked` are history.

Snapshots come as the coordinator makes them (`Publish`, `Orders`), and reach the
package in any order, which is more than the queue allows.

### ManifestFetch: one archive, one job per manifest

`launchOrJoinBlob` and everything a job goes through: the queue of the bounded
executor, an attempt (local store, recent misses, transfer, circuit, file), the
locked decision whether a promoted job makes one more, and the completion. The
circuit is `ProviderCircuit` with its half-open probe; a token is named by the
worker that holds it. `offline` is written after the circuit's lock is released,
as in the code. `resetSessionState` is its three locked sections. Cancelling a job
and the passing of its deadline are one thing to the code (`shouldStop`) and to the
model (`stopped`). What is in the local store, what is remembered as missing and
what the archive answers are chosen; a transfer ends, since every one has a time
limit. Two checks of `shouldStop` with no effect between them are one step; a job
stopped between them is `Throw`.

## 3. Runs

All bounds are constants of the specifications or guards with a named constant.
`CHECK_DEADLOCK FALSE` everywhere: an unloaded module, a client that makes no
more edits, or a bound that is used up legitimately stops. Real deadlock is the
property `NoDeadlock`.

| Run | Question | Instance, and why it is enough |
|---|---|---|
| `OwnerQueueHandoff` | Is the queue a serialised, exactly-once, in-order, bounded handoff that loses no work to merging and is silent once closed? | three threads, three apps, two slots, two ids per command, two attempts. Two slots are full after one hot-add, three hot-adds merge past the id cap, two snapshot generations supersede each other, one thread submits twice; the owner publishes once from inside a drain. 647,242 states |
| `OwnerQueueSettles` | Is everything settled, under fairness, and is nothing dropped when there is room? | room for every distinct command, so that `NothingLost` is a statement about merging and not about overflow. 114,544 states |
| `HotReloadPublishes` | Does the package end with the newest snapshot of the configured set, with prepared apps only, one snapshot per generation? | a native and a compatibility app, none or both configured, three edits: added, removed and added again while a preparation is under way, with the owner latched at any moment. 2,020,945 states |
| `HotReloadLocks` | Can the threads block each other, and does every call return? | all five threads, one edit, one hot-add, the sweep on. 51,676 states |
| `SnapshotStoreReads` | Is a freed snapshot ever touched; do publications form one line? | two readers, two publishers, two apps, three publications: two can overlap a reader, a third retires what it holds. Readers and publishers are symmetric. 1,205,521 states |
| `LibraryRemovalPresents` | Does the library end up as asked? | three apps and room for two; all reachable states, no bound. 34,189 states |
| `RefreshServes` | Is there one pass at a time, is no request forgotten, is whatever waits attended to? | two callers, two apps, three calls with two kinds of request, one app removed and the other edited, every start and every pass able to fail. 3 calls: one active, one merged with it, one after a failed start. 964,627 states |
| `CachePairHides` | What is on disk and in the memos after failures, removals and deaths? | two publishers, three publications (one on disk, one under way, one behind it), one removal, one death, every file operation able to fail, any number of times. 7,526,967 states |
| `Package0Settles` | Is everything due refreshed and restored, is nothing ordered lost, is only what was put there taken out? | one app and one id of the client's, which can be managed, too, and comes with every load; two snapshots, one load at any moment, two failures. 420,172 states |
| `Package0Broadcasts` | Do the licenses get broadcast after a cold start? | one snapshot, one load, one hot addition and an asker; one failure, of growing a vector, of finding the user, or of the loaded package. 177,505 states |
| `ManifestFetches` | Do jobs, promotions, the circuit and the marks survive joins, late callers and a reset, and does a caller that leaves take nothing along? | one manifest, since jobs of different manifests share the executor and the circuit only and two jobs of one do, too; two workers, two jobs, a queue of one, a circuit that opens at once, one reset. A rate limit opens the circuit as a failure does at this threshold and is left out of the answers; so is a response that is no manifest. One caller that submits or waits, again and again: submitting does not block, so it joins its own jobs. 836,913 states |
| `HotReloadStalls` | a sentence the code does not keep | section 5 |

`HotReloadLocks` holds under four conditions, all in its configuration, and none
of them can be dropped: the owner has run a frame before the session begins
(`LatchedFirst`), the queue is switched on, no snapshot exceeds the queue's id
cap (`MaxSnapshotIds = MaxIds`), and there is a slot for every command
(`Capacity = 4`; with three, a submission falls back to running inline on a
thread that holds the coordinator's mutex). Each is a condition under which a
submission never runs commands on the submitting thread. `HotReloadStalls`
drops the third, which the source itself drops: the snapshot ceilings are 16384
apps and 131072 depots, the queue's cap 4096.

`UsesQueue` (`HotSpec => Spec`) shows that the threads of `HotReload` do nothing
the queue's general client would not do, so what `OwnerQueueHandoff` and the
proofs say of the queue holds inside `HotReload`.

### Fairness

- `OwnerQueue!FairSpec`: a thread inside a call goes on, `m_exec` is eventually
  given to a thread that waits for it, time passes, and the watchers poll (every
  `kIdleTickMs`). Nothing is assumed of the owner; `SweepSettles` is the escape
  hatch for an owner that stops. That it keeps running frames is the premise
  (`OwnerRuns`) of `EverythingSettles`: these are Steam's own IPC frames.
- `HotReload!FairHotSpec`: strong fairness of each thread's own steps: a mutex
  that is free again and again is eventually given to each waiter. `std::mutex`
  does not promise that; the holders are not in a tight loop, and without the
  assumption no call that takes a mutex could be said to return. The owner keeps
  running frames. Edits, hot-adds and unloading are not fair: they may never come.
- `LibraryRemoval!FairSpec`: weak fairness of the frame, which is the client's
  user interface loop. Callers and the client's naming of an object are not fair;
  `Presented` has `source` as its premise.
- `RefreshQueue!FairSpec`: a thread that has begun goes on. Calls are not fair.
- `Package0!FairSpec`: a thread that has begun goes on; frames that find a refresh
  pending come again and again (`drainOnOwnerFrame` looks at every IPC frame);
  askers keep asking, as the hook of `CheckAppOwnership` is called "early and
  repeatedly". Failures are bounded, which is to say that they do not go on for ever.
- `ManifestFetch!FairSpec`: workers go on (a transfer has a time limit), and so
  does a thread inside `resetSessionState`. Callers may wait for ever.
- `CachePair` states no liveness.
- `SnapshotStore` states no liveness; a reader that never leaves keeps retired
  snapshots alive for ever, as in the code.

## 4. Proofs

TLAPS proves the following for every value of the constants (any number of
threads, apps, slots, readers) under the named assumptions of the modules, each
of which TLC also evaluates in the runs.

| Theorems | Assumptions | Argument |
|---|---|---|
| `SerialisedAlways` | `ThreadsAssumption` | `Ownership`: who is in `run` is exactly who holds `m_exec`; who holds the claim is in `exec`, `run` or `release`, and is alone. `Serialised` alone is not inductive: it says nothing of the holder of `m_exec` |
| `TypesAlways`, `BoundedAlways`, `ClosedStaysEmptyAlways` | `BoundsAssumption`, `ThreadsAssumption`, `ClientAssumption` | one invariant: types, `Hands` (a thread that has yet to decide holds one or two records, without which the two pushes of a batch have no meaning), the bounds and the closed queue. `PushWithin` is the heart: a push that `CanPush` allows keeps both bounds, whichever record absorbs it, and `PushBatchFacts` carries it to batches |
| `ExactlyOnceAlways`, `NothingVanishesAlways` | `BoundsAssumption`, `ThreadsAssumption`, `ClientAssumption` | `Places`: the records of a place are apart, the places are apart from each other and from what is settled, a thread that runs nothing holds nothing (`Idle`), and no ticket in use has a number above its thread's count (`Numbered`), so a new submission is new |
| `WorkCoveredAlways`, `CoalescingKeepsAlways` | the same three, and `HotAddAssumption` for the second | `Work`: every record stands for a submission and covers all it stands for; `MergedCovers` is the merge. A record that stays keeps a ticket, so `Places` names it after the step: `PushBatchGrows` compares it with itself |
| `InjectionIsBroadcastAlways` | the same three and `HotAddAssumption` | `Announcing`: in the pending set a broadcast is only there *with* an injection before it (`Paired`). Without that a broadcast could be absorbed by an older one that runs ahead of the injection it belongs to |
| `ImplementsHandoffAlways` | `BoundsAssumption`, `ThreadsAssumption`, `ClientAssumption` | the refinement of `OwnerHandoff`. `LineFacts` reads the line off the claimed batch and the pending set; `OwnerClaims` (what the owner runs is always claimed) places what it publishes from inside a command. One lemma per kind of step: `PendingStep`, `ClaimLineStep`, `ServeStep`, `DropFrontStep`, `RequeueStep`, `AsideStep`, `CloseStep` |
| `NothingLostAlways` | the same three, and `Room` | `Room`: the queue has a slot for each *subject* commands can be about (all injections are about one thing, so are all snapshots and all broadcasts; a compatibility step is about its app and generation). `Sorted`: pending records are about different subjects, and every record, wherever it is, is about a subject of the batches. So a step that is put back finds its record or, by counting, a free slot (`SlotFree`). `OwnerQueueSettles` is an instance with room |
| `UsesQueueAlways`, `HotTypesAlways` | the four of the queue, `RolesAssumption`, and `Unrestricted` | `Base`: all that is proved of the queue, `Stand` (each thread makes the calls of its part only) and `Held` (who holds the coordinator's and the pass mutex, read off the calls). Each action is one *move* of one thread's call (`...Moves`), followed by at most one step of the queue |
| `NoDeadlockAlways` | the same, `QueueEnabled`, `LatchedFirst`, and a behaviour in which every submission finds room (`Roomy`) | `Claimants`: until the queue closes, whoever runs commands or waits for `m_exec` holds the claim, so one thread at most is in the queue's half of the lock order; `Session`: when the queue closes, the coordinator has given up its mutex for good; `Outside` and `Busy`: who is in a call of its own is not in the queue, but for the owner, which is running the command that made the call |
| `RoomyAlways`, `NoDeadlockWithRoom` | the same as `UsesQueueAlways`, and `EnoughRoom`; the second also `QueueEnabled` and `LatchedFirst` | that every submission finds room, so the theorem above speaks of constants only. `HotCommands` are the commands the five threads submit, about one subject for all injections, one for all snapshots, one for all broadcasts, and one for each app and publication generation a compatibility step can be for. `Edited` bounds the generations (an app has fewer publications behind it than there were config events), `Named` the ids (what is managed was configured), `Offered` is both for what the worker hands over; `HandsFit` says of each action that it submits such commands or none, and `SortedStep` and `RoomToPushBatch` of the queue's proofs do the rest |
| `GenerationNamesSnapshotAlways` | the same as `UsesQueueAlways` | `Numbering`: snapshots are numbered at most one ahead of the coordinator's generation, and one ahead only while a thread holds the mutex to commit it. `SnapshotCases` reduces each step to one that begins a publication, commits one, or leaves both aside |
| `ReadyIsPreparedAlways` | the same | `Tokens` (a request, a compatibility step and a publication all carry the publication generation their app was asked for with, and nothing carries one from the future), `Topology` (what is ready, or in a snapshot in the making, is managed and fits) and `Preparation` (an app in either was prepared and not forgotten since, but for what the watcher is about to take out) |
| `PackageFollowsConfigAlways` | the same, and `EditsFit` | `Delivered` (the package holds the newest snapshot that was run), `Settlement` (while the queue is open nothing is given up but a compatibility step) and `Newest` (the newest submitted snapshot is what the coordinator holds, for the configured set unless the watcher is on its way to publish it) |
| `StoreTypesAlways`, `NoUseAfterFreeAlways`, `MembershipContinuesAlways` | `StoreAssumption` | `Counted` (the reader count is the number of readers between `Enter` and `Leave`), `Locked`, `Pointer` (what the pointer may name while a publisher is between retiring and swapping), `Held`, and `Cleared`: a publisher that saw no reader and has not cleared yet meets only readers that loaded the *new* snapshot. That is the argument why the gap between the look at the count and the clearing is harmless |
| `RemovalTypesAlways`, `CompensatedAlways`, `QueuedIsWantedAlways`, `EffectIsToldAlways`, `WithinCapacityAlways` | `RemovalAssumption` | one invariant that adds `Linked`: the work in flight is the one the frame holds unless the queue was closed under it, it is not also queued, and once begun its effect is on record. `ReconcileKeeps` shows once what `reconcileLocked` re-establishes; every action is an instance of it. Three lemmas say what the deque is after a work is taken out, put in, or all removals are reasserted |
| `RefreshQueue`: `TypesHold`, `OnePassHolds`, `NothingForgottenHolds` | `RefreshAssumption` | `GateHeld`: a worker that passes has the newest token and holds the gate; a start that failed and has the newest token meets no pass. `Kept`: the active requests are the batch of whoever is to run them. Merging never weakens (`Dominates` is the order), so a request is covered by what it was merged into |
| `CachePair`: `MemoIsHonestHolds` | `CacheAssumption` | `Honesty`: `MemoIsHonest` speaks of states without a publication only; `Honest` says what the memo is worth in between (it then describes the files the publication found). What a probe has found is still so when it remembers it (`Found`), a publication that commits has set the marker to what it says (`Marked`), a pair judged valid is of one publication (`Matching`), and an app that is being forgotten can be neither read nor published (`Forgotten`) |
| `CachePair`: `TypesHold`, `FailedKeepsPreviousHolds`, `RemovedStaysHiddenHolds` | `CacheAssumption` | `Undoable`: at every step of a publication each file is as before, or its copy is aside, or an undo has failed. `InForce` and `Shown`: a publication that holds the locks was begun after the last removal, and while reads are allowed nothing voided is on disk or among the copies that can be put back |
| `Package0`: `TypesHold`, `RemovableHolds`, `ProvenanceHolds`, `WorkIsKeptHolds` | `PackageAssumption`; for `ProvenanceHolds` also `SteadyContents`, that all loads agree on the ids that can be managed | `Contained` reduces what a step does to the package to three things: a load, a snapshot applied, ids added. None puts an id there that is neither the client's nor known as the plugin's (`Origins`, `Removable`); that the two stay apart (`Apart`) needs `SteadyContents`, and is false without it (section 5). `Behind`: no thread works for a generation above the desired one, and one that works for it has its work. From it `Restoring` (what is to be restored is in the desired snapshot and that is not processed, or in the hands of a thread that has had it refreshed) and `Requesting` (what is to be asked is in the desired snapshot and not among what was accepted for it) |
| `ManifestFetch`: `TypesKept`, `NoCallerStopsKept`, `OneJobPerKeyKept`, `PromotionIsKeptKept`, `ProbeIsHeldKept`, `MarksAreCurrentKept` | `FetchAssumption` | two halves. `JobsInv` has `Assigned` (a job is queued once or in one worker's hands, and what callers join has not ended) and `Promised`, which follows a promotion from the caller to the job's `bypass`, to `retried` of its worker, to the attempt that asks. `ReachInv` is the circuit, the marks and the session, and needs little but types. `Moves` and `Edits` say once what a step within a job and a step of a caller leave alone; `Spares` says it of joining, launching and leaving, for `NoCallerStops` |

The other type invariants that are proved, `ClosedStaysEmpty` of the queue and
`WithinCapacity` of the removals are not checked by a run as well.

Only model-checked: liveness (`EverythingSettles`, `SweepSettles`,
`CallsReturn`, `Presented`, `Attended`, `Settles`, `Announced`, `EveryJobEnds`),
which the proof system does not reach. Every other property of the passing runs
is a theorem.

Three of the hypotheses of the theorems about `HotReload` are not assumptions of a module,
since the instances TLC checks do not all satisfy them:

- `Unrestricted`: whatever snapshot, compatibility step or hot-add a thread may come
  to submit is among the queue's `Batches` and `NestedCommands`. The code's queue
  refuses no command for what it is; an instance of TLC has finitely many batches,
  so it bounds generations (`MaxGen`) and has just the batches its edits lead to.
- `EditsFit`: no configuration has more apps than a snapshot may have
  (`kMaxSnapshotIds`). The coordinator refuses to publish a larger one, and the package
  then stays with the one before.
- `Roomy`: a thread that is about to push finds room for its batch, unless the queue is
  closed. `HotReloadStalls` shows that it is needed. It follows (`RoomyAlways`) from
  `EnoughRoom`: no more apps than an id list holds, and three slots besides one for each
  pair of a compatibility app and a config event. `HotReloadLocks` is an instance that
  satisfies it exactly (4 slots, one such app, one event). The code's queue has 32 slots
  (`ownerqueue.hpp:108`), so a session in which 30 different compatibility steps
  queue up before a frame drains them is outside the theorem: in the code the next one
  then runs on the thread that submits it.

`HotAddAssumption` says that an injection is submitted with the broadcast behind it
and a broadcast never alone. `submitHotAdd` would submit a lone broadcast for an empty
set of ids (`ownerwork.cpp:427`); its one caller tests for that (`feats/pics.cpp:294`).
With lone broadcasts `Paired` does not hold, and a broadcast queued early could
absorb that of a later injection.

## 5. What the source says and the code does not do

Each name is that of a configuration in which TLC finds the counterexample.
`HotReloadStalls` is one of the project's runs; the others state their property in
the module and are run by hand (`tlc -config X.cfg MCModule`).

- `OwnerQueueInverts`: a fallback whose claim fails runs its own batch and leaves
  pending work behind (`utils/ownerqueue.hpp:422`); the header says fallbacks run
  pending work before their batch. What remains true is the handoff refinement:
  *queued* work never overtakes queued work.
- `OwnerQueueCloses`: `submitBatch` looks at the shutdown flag once; a queue that
  closes after that refuses the batch, and the refusal is taken for an overflow,
  so the batch runs inline on the closed queue.
- `HotReloadStalls`: a snapshot above the queue's id cap runs on the watcher with
  the coordinator's mutex held and waits for `m_exec`, while the owner holds
  `m_exec` and waits for the coordinator's mutex.
- `HotReloadRestores`: a compatibility step publishes its snapshot ahead of the
  older one drained with it, and the older one's announced apps are never restored.
- `HotReloadStrands`: an app rejected between `loadSettings` and `publish` is not
  in the next publication, nor in any later one.
- `SnapshotStoreForgets`: a second resolution overwrites the first one's signal
  and is itself removed before the owner looks; the first is never passed on.

- `RefreshMisses` (`ChangesAreRead`): `enqueue` drops a request that is not stronger
  than the active one for its app, also when the active pass has already read the
  inputs whose change it reports (`provision_refresh.hpp:229`); no pass reads the
  second edit until something else refreshes the app. tools/test_provision_refresh.cpp:109
  says "changed local inputs re-render even a fresh cache pair".
- `CachePairDies` (`DyingKeepsReadable`): a process that dies between the new buffer
  and its metadata leaves a pair no reader accepts, and nothing restores the copies
  put aside (`cache_pair.hpp:155`). Its line 8 says it "keeps the previous publication
  readable when the process dies mid-write"; its next paragraph admits the rejected pair.
- `Package0Loses` (`ChangesAreDue`): a load that changes the package while the owner is
  between the client's reading and the end of the refresh finds the refresh busy; the
  end, of the same generation, clears what the load made due
  (`packagepatch.cpp:600`). packagepatch.hpp:83 calls the flag a "hint for a generation
  whose mark/process work was deferred or lost a non-blocking execution claim".
- `ManifestSignals` (`SignalFollowsCircuit`): two attempts end in one order and store
  the offline signal in the other (`ManifestFetch.cpp:133`), so that the signal, which
  keeps app updates away (`apps.cpp:462`), can contradict the circuit until the archive
  is next asked. tools/test_manifestfetch.cpp:8 says the signal "is derived from that
  archive's reachability".
- `Package0Forgets` (`Provenance`, with loads that may differ): an id the plugin put
  there that comes with the client's next load stays known as the plugin's
  (`packagepatch.cpp:353`), and a later snapshot without it takes it out although the
  client put it there. hotreload_package.hpp:4 says "an id is removable only when it
  was seeded by the plugin", and the comment at packagepatch.cpp:629 wants no "false
  injected provenance".
- `ManifestWriters` (`OneWriter`): a job that is past its transfer when the session is
  reset writes the temporary file of its manifest together with the job of the new
  session. The comment at ManifestFetch.cpp:587-591 says jobs are merged because
  threads "raced over the same tmp file".

Two in `Package0` have no configuration. When a vector can fail to grow, the section
that notes it (`packagepatch.cpp:826`) may mark a newer refresh as due for the older
generation, whose end then clears it: `Settles` is false with "grow" among the
`Faults` of `Package0Settles`. An asker stores that the broadcast has been made after
its call returns, and can so take back what `forceReconcileLicenses` has just armed
(`packagepatch.cpp:158` and 1050), and the hot addition is not broadcast.

One more has no run of its own: the push that puts an `EnsureCompat` back is not
looked at (`ownerwork.cpp:131`), so on a full queue the poll is gone, although
the comment says it is put back for a later frame. The model has it as `lost`;
`NothingLost` therefore is a property of the run whose queue has room.

## 6. Not modelled

`components` of `PROJECT.json` gives a reason for each part. The groups: formats
and codecs (appinfo, KeyValues, protobuf) are sequential and data only; hooks,
patterns, the launch stub and the updater act on the host binary or on other
processes; the features that answer one hooked call from the settings have no
protocol; transfers are pure I/O. Most of the repository's lines are generated
protobuf classes (`sdk/protobufs`), vendored headers (`include`) and tables, which
have no behaviour of this program in them: the map covers the program's
concurrent core, a small share of all lines. Memory order weaker than sequential consistency
is not modelled; the store does not use it where lifetimes are decided.

## 7. Plan

In order of what is at stake:

1. **FileWatcher** (bursts, re-arming, stop) and the **PICS** raw cache worker
   (one worker, one flag under one mutex) as one small module each.
2. The **AppInfoState** hook guard and its removal, composed with `SnapshotStore`.
3. The protocol by which **manifest donors** follow the session
   (`manifestcode.cpp`, `manifestdonor.cpp`), composed with `ManifestFetch`.
4. `HotReload` with `Package0` in place of its `desired` generation, and with the
   coordinator's metadata and cache repair lists.

Proofs to come: the theorems of these modules. Small components will share a run
that chooses one of them initially where that asks no less of each.
