----------------------------- MODULE HotReload -----------------------------
(***************************************************************************)
(* Live reconfiguration from end to end: the config watcher, the hot       *)
(* reload coordinator, the provisioning worker, the PICS cache worker and  *)
(* the owner thread, all handing package work to the owner queue           *)
(* (src/feats/hotreload.cpp, src/ownerwork.cpp, src/config.cpp,            *)
(* src/feats/appinfo_provision.cpp, src/feats/pics.cpp).                   *)
(*                                                                         *)
(* Two locks are held while submitting, and a submission may run commands  *)
(* on the spot, under the queue's m_exec: the coordinator's mutex and the  *)
(* provisioning pass mutex.  call[t] is where a thread stands in its call  *)
(* outside the queue:                                                      *)
(*                                                                         *)
(*   boot, closing, gone   the main thread: initialize, then unload        *)
(*   forget, publish       the watcher, after it has read a new config     *)
(*   handoff, enrich       the worker, after it has prepared an app        *)
(*   coordinate, validate  publishing for an app: waiting for the          *)
(*                         coordinator, then for the pass                  *)
(*   submit                in submitBatch, holding what the call holds     *)
(*   idle                  none of these                                   *)
(*                                                                         *)
(* A snapshot is its generation, its ready bases and the bases it          *)
(* announces as added; planner and depot ids follow from the bases.        *)
(***************************************************************************)
EXTENDS OwnerQueue

CONSTANTS
  Main, Watcher, Worker, Picser, \* the threads besides Owner
  QueueEnabled,   \* SLSSTEAM_OWNER_QUEUE
  StaleFallback,  \* SLSSTEAM_OWNER_QUEUE_MAX_STALE_MS is not 0
  MaxSnapshotIds, \* HotReloadInputs::kMaxSnapshotIds
  LatchedFirst,   \* the owner ran a frame before the session began
  CompatApps,     \* apps that need a compatibility mapping
  Edits,          \* what a config event may find: managed ids, changed inputs
  MaxEdits        \* bound: config events

ASSUME RolesAssumption ==
  /\ {Main, Watcher, Worker, Picser} \subseteq Threads \ {Owner}
  /\ Main \notin {Watcher, Worker, Picser} /\ Watcher \notin {Worker, Picser}
  /\ Worker # Picser
  /\ Edits \subseteq [ids : SUBSET Apps, changed : SUBSET Apps]
  /\ CompatApps \subseteq Apps
  /\ QueueEnabled \in BOOLEAN /\ StaleFallback \in BOOLEAN
  /\ LatchedFirst \in BOOLEAN
  /\ MaxSnapshotIds \in Nat /\ MaxEdits \in Nat

VARIABLES
  config,       \* g_config.managedAppIds
  publication,  \* g_cachePublicationGenerations
  requests,     \* refresh requests the worker still has to serve
  prepared,     \* history: apps prepared since they were last forgotten
  coord,        \* the thread that holds the coordinator's mutex
  pass,         \* the thread that holds the provisioning pass mutex
  initialized, generation, managed, ready,  \* CoordinatorState
  latched,      \* g_ownerTid is set
  desired,      \* PackagePatch's g_desiredSnapshot: its generation and ids
  owed,         \* history: announced apps LibraryRemoval has yet to restore
  call,         \* where each thread stands
  job,          \* what its call is about
  edits         \* config events so far

locks        == <<coord, pass>>
provisioning == <<config, publication, requests, prepared, edits>>
coordinator  == <<initialized, generation, managed, ready>>
package      == <<desired, owed>>
calls        == <<call, job>>
hot          == <<locks, provisioning, coordinator, package, calls, latched>>
allVars      == <<vars, hot>>

Request == [app : Apps, gen : Nat]

NoJob == [kind |-> "none", members |-> {}, ids |-> {}, added |-> {},
          fetch |-> {}, app |-> {}, gen |-> 0]

Job == [kind : {"none", "members", "base", "metadata", "hotadd"},
        members : SUBSET Apps, ids : SUBSET Apps, added : SUBSET Apps,
        fetch : SUBSET Apps, app : SUBSET Apps, gen : Nat]

HotInit ==
  /\ Init
  /\ config \in {e.ids : e \in Edits}
  /\ publication = [app \in Apps |-> 0]
  /\ requests = {}
  /\ prepared = {}
  /\ coord = NoThread /\ pass = NoThread
  /\ initialized = FALSE /\ generation = 0 /\ managed = {} /\ ready = {}
  /\ latched = LatchedFirst
  /\ desired = [gen |-> 0, ids |-> {}]
  /\ owed = {}
  /\ call = [t \in Threads |-> IF t = Main THEN "boot" ELSE "idle"]
  /\ job = [t \in Threads |-> NoJob]
  /\ edits = 0

-----------------------------------------------------------------------------
Becomes(t, c, j) ==
  /\ call' = [call EXCEPT ![t] = c]
  /\ job' = [job EXCEPT ![t] = j]

\* A thread outside the queue, where its call says.
At(t, c) == call[t] = c /\ pc[t] = "out"

(***************************************************************************)
(* The config watcher (config.cpp, onFileChange).                          *)
(***************************************************************************)

\* loadSettings: the new set is visible to every thread from here on.
LoadSettings(e) ==
  /\ At(Watcher, "idle")
  /\ edits < MaxEdits
  /\ edits' = edits + 1
  /\ config' = e.ids
  /\ LET removed == config \ e.ids IN
       Becomes(Watcher, IF removed = {} THEN "publish" ELSE "forget",
               [NoJob EXCEPT !.app = removed, !.fetch = e.changed])
  /\ UNCHANGED <<vars, publication, requests, prepared, locks, coordinator,
                 package, latched>>

\* Variant: the pass stays taken until the new set is published.
ForgetHoldingPass(app) ==
  /\ At(Watcher, "forget")
  /\ app \in job[Watcher].app
  /\ pass \in {NoThread, Watcher}
  /\ publication' = [publication EXCEPT ![app] = @ + 1]
  /\ prepared' = prepared \ {app}
  /\ LET left == job[Watcher].app \ {app} IN
       Becomes(Watcher, IF left = {} THEN "publish" ELSE "forget",
               [job[Watcher] EXCEPT !.app = left])
  /\ pass' = Watcher
  /\ UNCHANGED <<vars, config, requests, edits, coord, coordinator, package,
                 latched>>

\* Variant: the publication generation goes the wrong way.
ForgetBackwards(app) ==
  /\ At(Watcher, "forget")
  /\ app \in job[Watcher].app
  /\ pass = NoThread
  /\ publication' = [publication EXCEPT ![app] = @ - 1]
  /\ prepared' = prepared \ {app}
  /\ LET left == job[Watcher].app \ {app} IN
       Becomes(Watcher, IF left = {} THEN "publish" ELSE "forget",
               [job[Watcher] EXCEPT !.app = left])
  /\ UNCHANGED <<vars, config, requests, edits, locks, coordinator, package,
                 latched>>

\* forgetApp, one removed app at a time, each under the pass mutex.
Forget(app) ==
  /\ At(Watcher, "forget")
  /\ app \in job[Watcher].app
  /\ pass = NoThread
  /\ publication' = [publication EXCEPT ![app] = @ + 1]
  /\ prepared' = prepared \ {app}
  /\ LET left == job[Watcher].app \ {app} IN
       Becomes(Watcher, IF left = {} THEN "publish" ELSE "forget",
               [job[Watcher] EXCEPT !.app = left])
  /\ UNCHANGED <<vars, config, requests, edits, locks, coordinator, package,
                 latched>>

-----------------------------------------------------------------------------
(***************************************************************************)
(* The coordinator (hotreload.cpp).                                        *)
(***************************************************************************)

Valid(ids) == Cardinality(ids) <= MaxSnapshotIds

\* Bases added at run time wait for the worker; those of the first
\* publication are ready from the caches.
ReadyOf(members) == IF generation = 0 THEN members ELSE ready \cap members

\* Variant: every added base is announced, ready or not.
AnnouncedAll(members) == members \ managed

Announced(members) == (members \ managed) \cap ReadyOf(members)

\* shouldEvaluateInputs and shouldPublish; the callers force the evaluation.
Publishable(members, changed) ==
  /\ generation = 0 \/ members # managed \/ changed # {}
  /\ Valid(ReadyOf(members))
  /\ ~shuttingDown

\* publishLocked up to its submission, with the coordinator's mutex taken; or
\* all of it when there is nothing to publish.
PublishLocked(t, changed) ==
  \/ /\ Publishable(config, changed)
     /\ coord' = t
     /\ Becomes(t, "submit",
          [NoJob EXCEPT !.kind = "members", !.members = config,
             !.ids = ReadyOf(config), !.added = Announced(config),
             !.fetch = IF t = Main THEN {}
                       ELSE (config \ managed) \cup (changed \cap config)])
     /\ owed' = (owed \ (managed \ config)) \cup Announced(config)
     /\ prepared' = IF generation = 0 THEN prepared \cup config ELSE prepared
     /\ Submit(t, <<syncPackage0(generation + 1, ReadyOf(config),
                                 Announced(config))>>)
     /\ UNCHANGED <<pass, desired, config, publication, requests, edits>>
  \/ /\ ~Publishable(config, changed)
     /\ Becomes(t, "idle", NoJob)
     /\ UNCHANGED <<vars, locks, provisioning, package>>

\* initialize, on the main thread.
Initialize ==
  /\ At(Main, "boot")
  /\ coord = NoThread
  /\ initialized' = TRUE
  /\ PublishLocked(Main, {})
  /\ UNCHANGED <<generation, managed, ready, latched>>

\* publish, on the watcher.
Publish ==
  /\ At(Watcher, "publish")
  /\ coord = NoThread
  /\ \/ initialized /\ PublishLocked(Watcher, job[Watcher].fetch)
     \/ /\ ~initialized
        /\ Becomes(Watcher, "idle", NoJob)
        /\ UNCHANGED <<vars, locks, provisioning, package>>
  /\ UNCHANGED <<coordinator, latched>>

\* Variant: the coordinator's mutex is not given back.
CommitMembersHolding(t) ==
  /\ At(t, "submit") /\ job[t].kind = "members"
  /\ pass = NoThread
  /\ managed' = job[t].members
  /\ ready' = job[t].ids
  /\ generation' = generation + 1
  /\ requests' = {r \in requests : r.app \notin job[t].fetch}
       \cup {[app |-> app, gen |-> publication[app]] : app \in job[t].fetch}
  /\ Becomes(t, "idle", NoJob)
  /\ UNCHANGED <<vars, locks, config, publication, prepared, edits, initialized,
                 package, latched>>

\* The rest of publishLocked: reading an app's publication generation takes
\* the pass mutex.  Requests for one app keep the newest generation.
CommitMembers(t) ==
  /\ At(t, "submit") /\ job[t].kind = "members"
  /\ pass = NoThread
  /\ managed' = job[t].members
  /\ ready' = job[t].ids
  /\ generation' = generation + 1
  /\ coord' = NoThread
  /\ requests' = {r \in requests : r.app \notin job[t].fetch}
       \cup {[app |-> app, gen |-> publication[app]] : app \in job[t].fetch}
  /\ Becomes(t, "idle", NoJob)
  /\ UNCHANGED <<vars, pass, config, publication, prepared, edits, initialized,
                 package, latched>>

-----------------------------------------------------------------------------
(***************************************************************************)
(* Publishing for one app: publishPreparedBase, by the worker or by the    *)
(* owner's compatibility step, and publishMetadataCompletion.              *)
(***************************************************************************)

TheApp(t) == CHOOSE app \in Apps : job[t].app = {app}

\* What is checked under the coordinator's mutex.
Wanted(t) ==
  /\ initialized
  /\ job[t].app \subseteq managed
  /\ job[t].kind = "base" => ~(job[t].app \subseteq ready)

NextReady(t) == IF job[t].kind = "base" THEN ready \cup job[t].app ELSE ready

\* Variant: an app that was removed and added again is not noticed.
CurrentIgnoringRemoval(t) == config = managed /\ Valid(NextReady(t))

\* What is checked under the pass mutex.
Current(t) ==
  /\ config = managed
  /\ publication[TheApp(t)] = job[t].gen
  /\ Valid(NextReady(t))

\* The command, and the state the submission commits.
AppSnapshot(t) ==
  syncPackage0(generation + 1, NextReady(t),
               IF job[t].kind = "base" THEN job[t].app ELSE {})

\* Where the thread goes next when its publication is over, or rejected.
After(t) ==
  IF t = Worker /\ job[t].kind = "base"
  THEN Becomes(t, "enrich", [job[t] EXCEPT !.kind = "none"])
  ELSE Becomes(t, "idle", NoJob)

\* A rejected compatibility step is over; the worker just goes on.
Rejected(t) ==
  /\ IF t = Owner THEN RunCommand(t) ELSE UNCHANGED vars
  /\ After(t)
  /\ UNCHANGED <<provisioning, coordinator, package, pass, latched>>

Coordinate(t) ==
  /\ call[t] = "coordinate"
  /\ coord = NoThread
  /\ \/ /\ ~Wanted(t)
        /\ Rejected(t)
        /\ UNCHANGED coord
     \/ /\ Wanted(t)
        /\ coord' = t
        /\ Becomes(t, "validate", job[t])
        /\ UNCHANGED <<vars, pass, provisioning, coordinator, package, latched>>

\* synchronizePackage0, as far as the snapshot goes: an older one is ignored,
\* and the announced apps are restored once a newer one is applied.  A
\* superseded snapshot has been processed by then.
\* Variant: whichever snapshot runs last is the desired one.
DeliverAny(c) ==
  IF c.kind = "SyncPackage0"
  THEN desired' = [gen |-> c.gen, ids |-> c.ids] /\ owed' = owed \ c.added
  ELSE UNCHANGED <<desired, owed>>

Deliver(c) ==
  IF c.kind = "SyncPackage0" /\ c.gen >= desired.gen
  THEN desired' = [gen |-> c.gen, ids |-> c.ids] /\ owed' = owed \ c.added
  ELSE UNCHANGED <<desired, owed>>

\* The worker submits with both mutexes held.
ValidateAndSubmit(t) ==
  /\ t # Owner
  /\ pass' = t
  /\ Becomes(t, "submit", [job[t] EXCEPT !.ids = NextReady(t)])
  /\ owed' = owed \cup AppSnapshot(t).added
  /\ Submit(t, <<AppSnapshot(t)>>)
  /\ UNCHANGED <<coord, provisioning, coordinator, desired, latched>>

\* The owner's submission runs at once, inside the step that makes it.
ValidateAndRun(t) ==
  /\ t = Owner
  /\ RunPublishing(t, AppSnapshot(t))
  /\ Deliver(AppSnapshot(t))
  /\ ready' = NextReady(t)
  /\ generation' = generation + 1
  /\ coord' = NoThread
  /\ After(t)
  /\ UNCHANGED <<pass, provisioning, initialized, managed, latched>>

\* A metadata completion whose topology did not change submits nothing.
Validate(t) ==
  /\ call[t] = "validate"
  /\ pass = NoThread
  /\ \/ /\ ~Current(t) \/ shuttingDown \/ job[t].kind = "metadata"
        /\ Rejected(t)
        /\ coord' = NoThread
     \/ /\ Current(t) /\ ~shuttingDown
        /\ ValidateAndSubmit(t) \/ ValidateAndRun(t)

\* Variant: the new state keeps the generation of the old one.
CommitAppKeeping(t) ==
  /\ At(t, "submit") /\ job[t].kind \in {"base", "metadata"}
  /\ ready' = job[t].ids
  /\ coord' = NoThread /\ pass' = NoThread
  /\ After(t)
  /\ UNCHANGED <<vars, provisioning, initialized, generation, managed, package,
                 latched>>

CommitApp(t) ==
  /\ At(t, "submit") /\ job[t].kind \in {"base", "metadata"}
  /\ ready' = job[t].ids
  /\ generation' = generation + 1
  /\ coord' = NoThread /\ pass' = NoThread
  /\ After(t)
  /\ UNCHANGED <<vars, provisioning, initialized, managed, package, latched>>

-----------------------------------------------------------------------------
(***************************************************************************)
(* The provisioning worker (provisionRequestedApps), one request at a      *)
(* time.  Each of its sections under the pass mutex checks the request.    *)
(***************************************************************************)

StillAsked(r) == r.app \in config /\ publication[r.app] = r.gen

\* The app's appinfo is live in this session.
Prepare(r) ==
  /\ At(Worker, "idle")
  /\ r \in requests
  /\ pass = NoThread
  /\ StillAsked(r)
  /\ requests' = requests \ {r}
  /\ prepared' = prepared \cup {r.app}
  /\ Becomes(Worker, IF r.app \in CompatApps THEN "handoff" ELSE "coordinate",
             [NoJob EXCEPT !.kind = "base", !.app = {r.app}, !.gen = r.gen])
  /\ UNCHANGED <<vars, locks, config, publication, edits, coordinator, package,
                 latched>>

\* Overtaken by a removal, or the provider had nothing.
DropRequest(r) ==
  /\ At(Worker, "idle")
  /\ r \in requests
  /\ requests' = requests \ {r}
  /\ UNCHANGED <<vars, locks, config, publication, edits, prepared, coordinator,
                 package, calls, latched>>

\* submitCompatReadiness, with no mutex held.
HandOff ==
  /\ At(Worker, "handoff")
  /\ \/ /\ ~shuttingDown
        /\ Submit(Worker, <<ensureCompat(TheApp(Worker), job[Worker].gen, 0)>>)
        /\ Becomes(Worker, "submit", [job[Worker] EXCEPT !.kind = "none"])
     \/ /\ shuttingDown
        /\ UNCHANGED vars
        /\ Becomes(Worker, "enrich", [job[Worker] EXCEPT !.kind = "none"])
  /\ UNCHANGED <<locks, provisioning, coordinator, package, latched>>

HandedOff ==
  /\ At(Worker, "submit") /\ job[Worker].kind = "none"
  /\ Becomes(Worker, "enrich", job[Worker])
  /\ UNCHANGED <<vars, locks, provisioning, coordinator, package, latched>>

\* enrichAndPublishDlcMetadata: the app's children may have become live.
Enrich ==
  /\ At(Worker, "enrich")
  /\ \/ Becomes(Worker, "coordinate", [job[Worker] EXCEPT !.kind = "metadata"])
     \/ Becomes(Worker, "idle", NoJob)
  /\ UNCHANGED <<vars, locks, provisioning, coordinator, package, latched>>

-----------------------------------------------------------------------------
(***************************************************************************)
(* The PICS cache worker (refreshDlcInjectionAfterCachePublication).       *)
(***************************************************************************)

HotAdd ==
  /\ At(Picser, "idle")
  /\ pass = NoThread
  /\ config # {}
  /\ ~shuttingDown
  /\ pass' = Picser
  /\ Submit(Picser, <<injectPackage0(config), reconcileLicenses>>)
  /\ Becomes(Picser, "submit", [NoJob EXCEPT !.kind = "hotadd"])
  /\ UNCHANGED <<coord, provisioning, coordinator, package, latched>>

HotAdded ==
  /\ At(Picser, "submit")
  /\ pass' = NoThread
  /\ Becomes(Picser, "idle", NoJob)
  /\ UNCHANGED <<vars, coord, provisioning, coordinator, package, latched>>

-----------------------------------------------------------------------------
(***************************************************************************)
(* The owner thread and its frames (ownerwork.cpp).                        *)
(***************************************************************************)

Latch ==
  /\ ~latched
  /\ latched' = TRUE
  /\ UNCHANGED <<vars, locks, provisioning, coordinator, package, calls>>

DrainFrame ==
  /\ latched
  /\ Drain(Owner)
  /\ UNCHANGED hot

\* The first part of an EnsureCompat step on the owner: the mapping stands, or
\* has been asked for, and the app is published.
CompatSettles ==
  /\ Running(Owner) /\ call[Owner] = "idle"
  /\ LET c == Head(batch[Owner]).cmd IN
       /\ c.kind = "EnsureCompat"
       /\ Becomes(Owner, "coordinate",
            [NoJob EXCEPT !.kind = "base", !.app = c.ids, !.gen = c.gen])
  /\ UNCHANGED <<vars, locks, provisioning, coordinator, package, latched>>

\* No manager, or a call into it failed: another attempt, or none.
CompatFails ==
  /\ Running(Owner) /\ call[Owner] = "idle"
  /\ LET c == Head(batch[Owner]).cmd IN
       /\ c.kind = "EnsureCompat"
       /\ IF c.attempt + 1 < MaxAttempts THEN RunAgain(Owner) ELSE RunCommand(Owner)
  /\ UNCHANGED hot

\* A compatibility step off the owner thread is put back.
PutBack(t) ==
  /\ t # Owner
  /\ RunAgain(t)
  /\ UNCHANGED hot

\* Any other command.
Execute(t) ==
  /\ Running(t)
  /\ Head(batch[t]).cmd.kind # "EnsureCompat"
  /\ Deliver(Head(batch[t]).cmd)
  /\ RunCommand(t)
  /\ UNCHANGED <<locks, provisioning, coordinator, calls, latched>>

-----------------------------------------------------------------------------
(***************************************************************************)
(* submitBatch, from the sweep to the fallbacks (ownerwork.cpp), and the   *)
(* sweep of the watcher's poll timeout.                                    *)
(***************************************************************************)

Sweep(t) ==
  /\ QueueEnabled /\ StaleFallback
  /\ pc[t] = "out" => call[t] = "idle"
  /\ FlushStale(t)
  /\ UNCHANGED hot

\* Switched off, or no owner yet: the batch runs on this thread.
RunInline(t) ==
  /\ ~QueueEnabled \/ ~latched \/ pc[t] = "refused"
  /\ ClaimInline(t) \/ JoinInline(t)
  /\ UNCHANGED hot

PushToOwner(t) ==
  /\ QueueEnabled /\ latched
  /\ PushAccepted(t) \/ PushRejected(t)
  /\ UNCHANGED hot

TakeTurn(t) == AcquireExec(t) /\ UNCHANGED hot

Finish(t) == (FinishBatch(t) \/ ReleaseExecuting(t)) /\ UNCHANGED hot

Stale == StaleFallback /\ Age /\ UNCHANGED hot

-----------------------------------------------------------------------------
(***************************************************************************)
(* Unloading (main.cpp, unload): the coordinator forgets its state, then   *)
(* the queue closes.                                                       *)
(***************************************************************************)

CoordinatorShutdown ==
  /\ At(Main, "idle")
  /\ coord = NoThread
  /\ initialized' = FALSE
  /\ generation' = 0 /\ managed' = {} /\ ready' = {}
  /\ Becomes(Main, "closing", NoJob)
  /\ UNCHANGED <<vars, locks, provisioning, package, latched>>

QueueShutdown ==
  /\ At(Main, "closing")
  /\ Shutdown
  /\ Becomes(Main, "gone", NoJob)
  /\ UNCHANGED <<locks, provisioning, coordinator, package, latched>>

\* The steps that finish what a thread has begun.
Advance(t) ==
  \/ t = Watcher /\ ((\E app \in Apps : Forget(app)) \/ Publish)
  \/ t = Main /\ (Initialize \/ QueueShutdown)
  \/ t = Worker /\ (HandOff \/ HandedOff \/ Enrich)
  \/ t = Picser /\ HotAdded
  \/ t = Owner /\ (CompatSettles \/ CompatFails)
  \/ Coordinate(t) \/ Validate(t) \/ CommitMembers(t) \/ CommitApp(t)
  \/ PushToOwner(t) \/ RunInline(t) \/ TakeTurn(t) \/ Execute(t) \/ PutBack(t)
  \/ Finish(t)

\* The steps that begin something.
Begin ==
  \/ \E e \in Edits : LoadSettings(e)
  \/ \E r \in requests : Prepare(r) \/ DropRequest(r)
  \/ HotAdd \/ Latch \/ DrainFrame \/ CoordinatorShutdown \/ Stale
  \/ \E t \in Threads : Sweep(t)

HotNext == Begin \/ \E t \in Threads : Advance(t)

HotSpec == HotInit /\ [][HotNext]_allVars

\* Every thread goes on with its call, a free lock is given to each waiting
\* thread in turn, and the owner keeps running frames.
FairHotSpec ==
  /\ HotSpec
  /\ \A t \in Threads : SF_allVars(Advance(t))
  /\ WF_allVars(Latch)
  /\ SF_allVars(DrainFrame)

-----------------------------------------------------------------------------
(***************************************************************************)
(* What live reconfiguration promises.                                     *)
(***************************************************************************)

\* The states the variables of this module range over.
HotTypeOK ==
  /\ config \in SUBSET Apps
  /\ publication \in [Apps -> Nat]
  /\ requests \in SUBSET Request
  /\ prepared \in SUBSET Apps
  /\ coord \in Threads \cup {NoThread} /\ pass \in Threads \cup {NoThread}
  /\ initialized \in BOOLEAN /\ generation \in Nat
  /\ managed \in SUBSET Apps /\ ready \in SUBSET Apps
  /\ latched \in BOOLEAN
  /\ desired \in [gen : Nat, ids : SUBSET Apps]
  /\ owed \in SUBSET Apps
  /\ call \in [Threads -> {"boot", "closing", "gone", "idle", "forget",
                            "publish", "handoff", "enrich", "coordinate",
                            "validate", "submit"}]
  /\ job \in [Threads -> Job]
  /\ edits \in 0 .. MaxEdits

\* Nobody is in a call, nothing is pending, and the session is running.
Quiescent ==
  /\ initialized /\ latched /\ ~shuttingDown
  /\ \A t \in Threads : At(t, "idle")
  /\ pending = <<>>

\* In whatever order snapshots are queued, swept, run inline or run nested, the
\* package ends with the newest one, and that is the one the coordinator last
\* published for the configured set.
PackageFollowsConfig ==
  Quiescent => /\ managed = config
               /\ desired = [gen |-> generation, ids |-> ready]
               /\ ready \subseteq config

\* Only prepared apps enter package ownership: the result of a preparation that
\* a removal has overtaken is never published, even when the app is back.
ReadyIsPrepared ==
  call[Watcher] = "idle" => ready \cap managed \subseteq prepared

\* Two submitted snapshots of one generation are one submission, which is what the queue's
\* coalescing and the package's stale check rely on: the coordinator's mutex is
\* held from the choice of a generation until it is committed.
GenerationNamesSnapshot ==
  \A tk, uk \in Live \cup done :
    /\ tk.cmd.kind = "SyncPackage0"
    /\ uk.cmd.kind = "SyncPackage0"
    /\ tk.cmd.gen = uk.cmd.gen
    => tk = uk

\* The lock a thread is waiting for, by its holder.
WaitsFor(t) ==
  CASE pc[t] = "exec" -> exec
    [] call[t] \in {"boot", "publish", "coordinate"} -> coord
    [] call[t] \in {"forget", "validate"} -> pass
    [] At(t, "submit") /\ job[t].kind = "members" -> pass
    [] OTHER -> NoThread

\* No circle of threads waits for each other's locks: the coordinator's mutex,
\* the pass mutex and m_exec, which submitting under the first two may take and
\* under which the owner takes the first two.
NoDeadlock ==
  \A S \in (SUBSET Threads) \ {{}} : \E t \in S : WaitsFor(t) \notin S

\* Every watcher callback and every publication returns.
CallsReturn ==
  \A t \in Threads : (call[t] \notin {"idle", "gone"}) ~> (call[t] \in {"idle", "gone"})

\* These threads are clients of the queue: whatever the queue promises under
\* its most general client it promises them.
UsesQueue == Spec

\* "Called after the re-added package generation has completed its license
\* refresh": no announced app is left without its restore.
AnnouncedIsRestored == Quiescent => owed = {}

\* A rejected app "stays outside package ownership until the next publication":
\* once the config change that caused it is published, prepared apps are owned.
PreparedIsPublished == Quiescent => prepared \cap managed \subseteq ready

=============================================================================
