------------------------------ MODULE Package0 ------------------------------
(***************************************************************************)
(* Package 0 of the client: its ids, which the client fills when it loads  *)
(* the package and the plugin adds to and takes from                       *)
(* (src/feats/packagepatch.cpp with src/feats/hotreload_package.hpp).      *)
(*                                                                         *)
(* Worker threads run the commands of the owner queue and retry a refresh  *)
(* at every frame, the client's loaders call LoadPackage, and askers call  *)
(* CheckAppOwnership.  All state but a few atomics is under g_seededMutex, *)
(* which is not held across a call into the client: every step below is    *)
(* one locked section, one atomic or one call.  The vectors of apps and of *)
(* depots are treated alike in the same sections, and one set stands for   *)
(* them.  The client's calls are external: what it does with the package   *)
(* is to read it.                                                          *)
(***************************************************************************)
EXTENDS Integers, FiniteSets

CONSTANTS
  Apps,            \* the ids that can be managed
  Contents,        \* what the client itself may load the package with
  Workers, Loaders, Askers,  \* the threads
  Faults,          \* what may fail: "grow", "user", "guard", "retain",
                   \* "offline", "status"
  MaxGeneration,   \* bound: snapshots published
  MaxLoads,        \* bound: loads of the package
  MaxInjections,   \* bound: hot additions
  MaxFaults        \* bound: failures

Ids == Apps \cup UNION Contents
Threads == Workers \cup Loaders \cup Askers
Generations == 0 .. MaxGeneration

ASSUME PackageAssumption ==
  /\ MaxGeneration \in Nat /\ MaxLoads \in Nat /\ MaxInjections \in Nat
  /\ MaxFaults \in Nat

VARIABLES
  live,        \* AppIdVec, and what the client thinks of the package
  native,      \* history: what the client loaded the package with last
  status,      \* "none" before the first load, "available" or "unavailable"
  seeded,      \* g_seededAppIds
  desired,     \* g_desiredSnapshot, of generation 0 before there is one
  applied, processed,    \* g_appliedGeneration, g_processedGeneration
  pending, pendingGen,   \* g_runtimeRefreshPending, g_pendingGeneration
  metadata,    \* g_pendingMetadataAppIds
  info,        \* g_appInfoRequestState
  executing,   \* g_runtimeRefreshExecuting
  reconciled, injected, fallback,  \* g_licenseReconciled,
               \* g_package0Injected, g_fallbackReconcileGeneration
  thread,      \* where each thread stands, with its locals
  waiting,     \* snapshots on their way through the owner queue
  newest,      \* the snapshot published last
  forces,      \* ReconcileLicenses commands on their way
  seen,        \* what the client read in the package last
  loads, injections, failures,  \* bounds
  unread,      \* history: what snapshots changed since the client read it
  owed,        \* history: <<generation, id>> added and not restored
  asked        \* history: <<generation, id>> to request, not accepted

package  == <<live, native, status, seeded>>
snapshot == <<desired, applied, metadata>>
refresh  == <<processed, pending, pendingGen, executing>>
license  == <<reconciled, injected, fallback>>
commands == <<waiting, newest, forces>>
history  == <<unread, owed, asked>>
bounds   == <<loads, injections, failures>>
vars     == <<package, snapshot, refresh, info, license, thread, commands,
              seen, history, bounds>>

Snapshot == [gen : Generations, ids : SUBSET Apps, added : SUBSET Apps,
             requests : SUBSET Apps, complete : BOOLEAN]
NoSnapshot == [gen |-> 0, ids |-> {}, added |-> {}, requests |-> {},
               complete |-> FALSE]

\* A thread's locals: the generation it works for, what to restore and to
\* request after, whether the refresh is needed and safe, whether a cold start
\* may fall back on a broadcast, the generation a load could not apply, and
\* where a nested load or a broadcast returns.
Idle == [at |-> "idle", gen |-> 0, added |-> {}, requests |-> {},
         needed |-> FALSE, safe |-> FALSE, cold |-> FALSE, tried |-> 0,
         back |-> "idle"]

Init ==
  /\ live = {} /\ native = {} /\ status = "none" /\ seeded = {}
  /\ desired = NoSnapshot /\ applied = 0 /\ metadata = {}
  /\ processed = 0 /\ pending = FALSE /\ pendingGen = 0 /\ executing = FALSE
  /\ info = [highest |-> 0, accepted |-> [g \in Generations |-> {}],
             inFlight |-> {}]
  /\ reconciled = FALSE /\ injected = FALSE /\ fallback = 0
  /\ thread = [t \in Threads |-> Idle]
  /\ waiting = {} /\ newest = NoSnapshot /\ forces = 0
  /\ seen = {}
  /\ loads = 0 /\ injections = 0 /\ failures = 0
  /\ unread = {} /\ owed = {} /\ asked = {}

At(t, place) == thread[t].at = place
Goto(t, place) == thread' = [thread EXCEPT ![t].at = place]
Return(t) == thread' = [thread EXCEPT ![t] = Idle]
Larger(m, n) == IF m > n THEN m ELSE n
Differ(x, y) == (x \ y) \cup (y \ x)

\* Something that can go wrong goes wrong.
Fails(what) == what \in Faults /\ failures < MaxFaults
               /\ failures' = failures + 1

-----------------------------------------------------------------------------
(***************************************************************************)
(* Applying a snapshot.                                                    *)
(***************************************************************************)

\* Variant: everything desired counts as put there by the plugin.
SeededWithWanted(wanted) == wanted

\* buildNextSeeded: what the plugin put there and still wants, and what it adds.
NextSeeded(wanted) == (seeded \cap wanted) \cup (wanted \ live)

\* applySnapshotLocked.
Apply(s) ==
  /\ live' = (live \ (seeded \ s.ids)) \cup s.ids
  /\ seeded' = NextSeeded(s.ids)
  /\ metadata' = IF s.complete THEN {}
                 ELSE (metadata \cap s.ids) \cup s.added
  /\ applied' = s.gen
  /\ injected' = (injected \/ s.added # {})
  /\ unread' = (unread \cup Differ(live', live)) \cap Differ(live', seen)

\* A changed package must be refreshed; an older refresh still due is now due
\* for this generation.
Due(s) ==
  /\ pending' = (pending \/ live' # live)
  /\ pendingGen' = IF pending' THEN s.gen ELSE pendingGen

\* What the caller of a successful apply takes with it.
TakeWork(t, s, cold) ==
  \E ready \in BOOLEAN :
    /\ IF ready THEN UNCHANGED failures ELSE Fails("guard")
    /\ thread' = [thread EXCEPT ![t] =
         [@ EXCEPT !.at = "refresh", !.gen = s.gen, !.added = s.added,
                   !.requests = s.requests, !.needed = pending',
                   !.safe = (metadata' = {} \/ ready), !.cold = cold]]

Unapplied == UNCHANGED <<live, seeded, metadata, applied, injected, unread>>

\* A grown vector can be too small.
Cannot(s) == ~(s.ids \subseteq live) /\ Fails("grow")

-----------------------------------------------------------------------------
(***************************************************************************)
(* Snapshots: published by the coordinator, applied by workers.            *)
(***************************************************************************)

\* What a snapshot orders for the ids it is the first to hold: apps are added
\* and asked for, or only added when they come from the local cache, and what
\* the metadata names besides is only asked for.
Orders(ids) ==
  {order \in [added : {ids, {}}, requests : {ids, {}}, complete : BOOLEAN] :
     IF order.complete THEN ids \subseteq order.added \cup order.requests
     ELSE order.added = ids /\ order.requests = ids}

Publish ==
  /\ newest.gen < MaxGeneration
  /\ \E ids \in SUBSET Apps :
       \E order \in Orders(ids \ newest.ids) :
         newest' = [gen |-> newest.gen + 1, ids |-> ids, added |-> order.added,
                    requests |-> order.requests, complete |-> order.complete]
  /\ waiting' = waiting \cup {newest'}
  /\ UNCHANGED <<package, snapshot, refresh, info, license, thread, forces,
                 seen, history, bounds>>

AllAccepted(s) == s.requests \subseteq info.accepted[s.gen]

\* carryPendingSnapshotWork, what is to be requested and what is to be restored.
CarriedRequests(s) ==
  [s EXCEPT !.requests = IF AllAccepted(desired) THEN @
                         ELSE (@ \cup desired.requests) \cap s.ids]

\* Variant: what was added is carried while a refresh is pending.
CarriedWhilePending(s) ==
  [CarriedRequests(s) EXCEPT
     !.added = IF ~pending THEN @ ELSE (@ \cup desired.added) \cap s.ids]

Carried(s) ==
  [CarriedRequests(s) EXCEPT
     !.added = IF processed >= desired.gen THEN @
               ELSE (@ \cup desired.added) \cap s.ids]

\* synchronizePackage0, its locked section: an older snapshot is ignored, and
\* one that cannot be applied stays desired.
Sync(t) ==
  /\ At(t, "idle")
  /\ \E s \in waiting :
     /\ waiting' = waiting \ {s}
     /\ \/ /\ s.gen < desired.gen
           /\ UNCHANGED <<package, snapshot, refresh, injected, thread, history,
                          failures>>
        \/ /\ s.gen > desired.gen
           /\ desired' = Carried(s)
           /\ owed' = {o \in owed : o[2] \in s.ids}
                        \cup {s.gen} \X s.added
           /\ asked' = {o \in asked : o[2] \in s.ids}
                         \cup {s.gen} \X s.requests
           /\ \/ /\ status = "available"
                 /\ Apply(desired') /\ Due(desired')
                 /\ TakeWork(t, desired', FALSE)
              \/ /\ Unapplied /\ UNCHANGED <<pending, pendingGen, thread>>
                 /\ \/ status # "available" /\ UNCHANGED failures
                    \/ status = "available" /\ Cannot(desired')
           /\ UNCHANGED <<native, status, processed, executing>>
  /\ UNCHANGED <<info, reconciled, fallback, newest, forces, seen,
                 loads, injections>>

\* reprocessCurrentState, at a frame that finds a refresh pending.
Reprocess(t) ==
  /\ At(t, "idle")
  /\ pending /\ applied = desired.gen
  /\ pendingGen' = applied
  /\ \E ready \in BOOLEAN :
       /\ IF ready THEN UNCHANGED failures ELSE Fails("guard")
       /\ thread' = [thread EXCEPT ![t] =
            [@ EXCEPT !.at = "refresh", !.gen = applied,
                      !.added = desired.added, !.requests = desired.requests,
                      !.needed = TRUE, !.safe = (metadata = {} \/ ready)]]
  /\ UNCHANGED <<package, snapshot, processed, pending, executing, info,
                 license, commands, seen, history, loads, injections>>

-----------------------------------------------------------------------------
(***************************************************************************)
(* processRuntimeRefresh, and what its callers do after.                   *)
(***************************************************************************)

Untouched == UNCHANGED <<package, snapshot, commands, loads, injections>>

\* Variant: a refresh that is over ends every refresh that is due.
SettledForAll(gen) ==
  /\ processed' = Larger(processed, gen)
  /\ pending' = FALSE /\ pendingGen' = 0

\* The refresh of a generation is over; a newer one may be due.
Settled(gen) ==
  /\ processed' = Larger(processed, gen)
  /\ IF pending /\ pendingGen = gen
     THEN pending' = FALSE /\ pendingGen' = 0
     ELSE UNCHANGED <<pending, pendingGen>>

NoChange(t) ==
  /\ At(t, "refresh") /\ ~thread[t].needed
  /\ Settled(thread[t].gen)
  /\ Goto(t, "restore")
  /\ UNCHANGED <<executing, info, license, seen, history, failures>>
  /\ Untouched

Defer(t) ==
  /\ At(t, "refresh") /\ thread[t].needed /\ ~thread[t].safe
  /\ Goto(t, "deferred")
  /\ UNCHANGED <<refresh, info, license, seen, history, failures>> /\ Untouched

\* Another thread is at it; the refresh stays due, and so does what follows it.
Busy(t) ==
  /\ At(t, "refresh") /\ thread[t].needed /\ thread[t].safe /\ executing
  /\ Return(t)
  /\ UNCHANGED <<refresh, info, license, seen, history, failures>> /\ Untouched

\* Variant: the claim is not exclusive.
MarkAnyway(t) ==
  /\ At(t, "refresh") /\ thread[t].needed /\ thread[t].safe
  /\ \/ executing' = TRUE /\ Goto(t, "processing") /\ UNCHANGED failures
     \/ Fails("user") /\ Goto(t, "deferred") /\ UNCHANGED executing
  /\ UNCHANGED <<processed, pending, pendingGen, info, license, seen, history>>
  /\ Untouched

\* MarkLicenseAsChanged, unless there is no local user yet.
Mark(t) ==
  /\ At(t, "refresh") /\ thread[t].needed /\ thread[t].safe /\ ~executing
  /\ \/ executing' = TRUE /\ Goto(t, "processing") /\ UNCHANGED failures
     \/ Fails("user") /\ Goto(t, "deferred") /\ UNCHANGED executing
  /\ UNCHANGED <<processed, pending, pendingGen, info, license, seen, history>>
  /\ Untouched

\* ProcessPendingLicenseUpdates: the client reads the package, or retains the
\* update.
Process(t) ==
  /\ At(t, "processing")
  /\ \/ seen' = live /\ unread' = {} /\ Goto(t, "read")
        /\ UNCHANGED <<executing, failures>>
     \/ Fails("retain") /\ Goto(t, "deferred") /\ executing' = FALSE
        /\ UNCHANGED <<seen, unread>>
  /\ UNCHANGED <<processed, pending, pendingGen, info, license, owed, asked>>
  /\ Untouched

Settle(t) ==
  /\ At(t, "read")
  /\ Settled(thread[t].gen)
  /\ Goto(t, "leaving")
  /\ UNCHANGED <<executing, info, license, seen, history, failures>>
  /\ Untouched

Leave(t) ==
  /\ At(t, "leaving")
  /\ executing' = FALSE /\ Goto(t, "restore")
  /\ UNCHANGED <<processed, pending, pendingGen, info, license, seen, history,
                 failures>>
  /\ Untouched

\* LibraryRemoval::restore of what the generation added.
Restore(t) ==
  /\ At(t, "restore")
  /\ owed' = {o \in owed : ~(o[1] <= thread[t].gen /\ o[2] \in thread[t].added)}
  /\ Goto(t, "request")
  /\ UNCHANGED <<refresh, info, license, seen, unread, asked, failures>>
  /\ Untouched

\* After a refresh that could not be made: once per generation, and only before
\* the first that could, the licenses are broadcast instead.
Deferred(t) ==
  /\ At(t, "deferred")
  /\ IF thread[t].cold /\ thread[t].gen > fallback
     THEN /\ fallback' = thread[t].gen
          /\ thread' = [thread EXCEPT ![t] =
                         [@ EXCEPT !.at = "force", !.back = "request"]]
     ELSE Goto(t, "request") /\ UNCHANGED fallback
  /\ UNCHANGED <<refresh, info, reconciled, injected, seen, history,
                 failures>>
  /\ Untouched

Pruned(accepted, highest) ==
  [g \in Generations |-> IF g + 1 < highest THEN {} ELSE accepted[g]]

\* AppInfoRequestState::reserve: ids in flight or accepted are not asked twice.
Reserve(t) ==
  /\ At(t, "request")
  /\ LET gen == thread[t].gen
         highest == Larger(info.highest, gen)
         accepted == Pruned(info.accepted, highest)
         ids == {a \in thread[t].requests \ accepted[gen] :
                   <<gen, a>> \notin info.inFlight}
     IN /\ info' = IF thread[t].requests = {} THEN info
                   ELSE [highest |-> highest, accepted |-> accepted,
                         inFlight |-> info.inFlight \cup {gen} \X ids]
        /\ IF ids = {} THEN Return(t)
           ELSE thread' = [thread EXCEPT ![t] =
                  [@ EXCEPT !.at = "asking", !.requests = ids]]
  /\ UNCHANGED <<refresh, license, seen, history, failures>> /\ Untouched

\* What has been accepted once the client accepts ids of a generation.
AcceptedWith(gen, ids) ==
  IF gen + 1 < info.highest THEN info.accepted
  ELSE Pruned([info.accepted EXCEPT ![gen] = @ \cup ids], info.highest)

\* requestAppInfoUpdate and AppInfoRequestState::finish.
Finish(t) ==
  /\ At(t, "asking")
  /\ LET gen == thread[t].gen
         ids == thread[t].requests
         left == info.inFlight \ ({gen} \X ids)
     IN \/ /\ info' = [info EXCEPT !.inFlight = left,
                                   !.accepted = AcceptedWith(gen, ids)]
           /\ asked' = {o \in asked : ~(o[1] <= gen /\ o[2] \in ids)}
           /\ UNCHANGED failures
        \/ /\ Fails("offline")
           /\ info' = [info EXCEPT !.inFlight = left] /\ UNCHANGED asked
  /\ Return(t)
  /\ UNCHANGED <<refresh, license, seen, unread, owed>> /\ Untouched

-----------------------------------------------------------------------------
(***************************************************************************)
(* Loads: the client fills the package anew, in a call of its own or       *)
(* inside ProcessPendingLicenseUpdates.                                    *)
(***************************************************************************)

LoadsAgain == loads < MaxLoads /\ loads' = loads + 1

\* hkLoadPackage up to its locked section.
Load(t) ==
  /\ LoadsAgain
  /\ \/ /\ t \in Loaders /\ At(t, "idle") /\ Goto(t, "loaded")
     \/ /\ thread[t].at \in {"processing", "read"}
        /\ thread' = [thread EXCEPT ![t] =
             [@ EXCEPT !.at = "reloaded", !.back = thread[t].at]]
  /\ native' \in Contents /\ live' = native'
  /\ \/ status' = "available" /\ UNCHANGED failures
     \/ status' = "unavailable" /\ Fails("status")
  /\ UNCHANGED <<seeded, snapshot, refresh, info, license, commands,
                 seen, history, injections>>

Back(t) ==
  IF thread[t].back = "idle" THEN Return(t)
  ELSE thread' = [thread EXCEPT ![t] =
         [@ EXCEPT !.at = thread[t].back, !.back = "idle"]]

\* Variant: ids the client has itself are taken for the plugin's.
AppendAll(ids) ==
  /\ live' = live \cup ids
  /\ seeded' = seeded \cup ids
  /\ injected' = (injected \/ ids # {})
  /\ unread' = unread \cap Differ(live', seen)

\* appendToVecLocked.
Append(ids) ==
  /\ live' = live \cup ids
  /\ seeded' = seeded \cup (ids \ live)
  /\ injected' = (injected \/ ids \ live # {})
  /\ unread' = unread \cap Differ(live', seen)

\* injectFullSetLocked.
InjectFullSet(ids) ==
  \/ Append(ids) /\ UNCHANGED failures
  \/ ~(ids \subseteq live) /\ Fails("grow")
     /\ UNCHANGED <<live, seeded, injected, unread>>

\* hkLoadPackage after the client's own load: the latest snapshot is applied.
Reapply(t) ==
  /\ thread[t].at \in {"loaded", "reloaded"}
  /\ status = "available" /\ desired.gen > 0
  /\ \/ /\ Apply(desired) /\ Due(desired)
        /\ IF At(t, "loaded") THEN TakeWork(t, desired, processed = 0)
           ELSE Back(t) /\ UNCHANGED failures
     \/ /\ Cannot(desired) /\ Unapplied
        /\ thread' = [thread EXCEPT ![t] =
             [@ EXCEPT !.at = "unapplied", !.tried = desired.gen]]
        /\ UNCHANGED <<pending, pendingGen>>
  /\ UNCHANGED <<native, status, desired, processed, executing, info,
                 reconciled, fallback, commands, seen, owed, asked,
                 loads, injections>>

\* Its own locked section for a snapshot that could not be applied.
Unavailable(t) ==
  /\ At(t, "unapplied")
  /\ pendingGen' = thread[t].tried
  /\ Back(t)
  /\ UNCHANGED <<processed, pending, executing, info, license, seen, history,
                 failures>>
  /\ Untouched

\* A package that is not available is left alone.
LeaveAlone(t) ==
  /\ thread[t].at \in {"loaded", "reloaded"} /\ status # "available"
  /\ Back(t)
  /\ UNCHANGED <<refresh, info, license, seen, history, failures>> /\ Untouched

\* Before there is a snapshot, what is configured is put there.
BootInject(t) ==
  /\ At(t, "loaded") /\ status = "available" /\ desired.gen = 0
  /\ \E ids \in SUBSET Apps :
       IF ids = {} THEN Return(t) /\ UNCHANGED <<live, seeded, injected, unread,
                                                 failures>>
       ELSE InjectFullSet(ids) /\ Goto(t, "reconcile")
  /\ UNCHANGED <<native, status, snapshot, refresh, info, reconciled,
                 fallback, commands, seen, owed, asked, loads,
                 injections>>

-----------------------------------------------------------------------------
(***************************************************************************)
(* Hot additions and the broadcast of the licenses.                        *)
(***************************************************************************)

\* submitHotAdd, and injectIntoPackage0 when its command runs; the command to
\* broadcast follows.
Inject(t) ==
  /\ At(t, "idle")
  /\ injections < MaxInjections /\ injections' = injections + 1
  /\ forces' = forces + 1
  /\ IF status = "none"
     THEN UNCHANGED <<live, seeded, injected, unread, failures, thread>>
     ELSE \E ids \in (SUBSET Apps) \ {{}} :
            InjectFullSet(ids) /\ Goto(t, "reconcile")
  /\ UNCHANGED <<native, status, snapshot, refresh, info, reconciled,
                 fallback, waiting, newest, seen, owed, asked, loads>>

\* forceReconcileLicenses.
Rebroadcast(t) ==
  /\ At(t, "idle")
  /\ forces > 0 /\ forces' = forces - 1
  /\ IF injected THEN Goto(t, "force") ELSE UNCHANGED thread
  /\ UNCHANGED <<package, snapshot, refresh, info, license, waiting, newest,
                 seen, history, bounds>>

Arm(t) ==
  /\ At(t, "force")
  /\ reconciled' = FALSE
  /\ Goto(t, "reconcile")
  /\ UNCHANGED <<refresh, info, injected, fallback, seen, history, failures>>
  /\ Untouched

\* CheckAppOwnership retries the broadcast until it has been made.
TryReconcile(t) ==
  /\ At(t, "idle") /\ ~reconciled /\ injected
  /\ Goto(t, "reconcile")
  /\ UNCHANGED <<refresh, info, license, seen, history, failures>> /\ Untouched

\* Variant: the gate closes also when there is no local user yet.
ReconcileAnyway(t) ==
  /\ At(t, "reconcile")
  /\ \/ /\ reconciled \/ ~injected
        /\ Back(t) /\ UNCHANGED failures
     \/ /\ ~reconciled /\ injected
        /\ \/ Goto(t, "notify") /\ UNCHANGED failures
           \/ Fails("user") /\ Goto(t, "notified")
  /\ UNCHANGED <<refresh, info, license, seen, history>> /\ Untouched

\* reconcileLicensesOnce, up to the call.
Reconcile(t) ==
  /\ At(t, "reconcile")
  /\ \/ /\ reconciled \/ ~injected
        /\ Back(t) /\ UNCHANGED failures
     \/ /\ ~reconciled /\ injected
        /\ \/ Goto(t, "notify") /\ UNCHANGED failures
           \/ Fails("user") /\ Back(t)
  /\ UNCHANGED <<refresh, info, license, seen, history>> /\ Untouched

\* notifyLicensesUpdated.
Notify(t) ==
  /\ At(t, "notify")
  /\ seen' = live /\ unread' = {}
  /\ Goto(t, "notified")
  /\ UNCHANGED <<refresh, info, reconciled, injected, fallback, owed, asked,
                 failures>>
  /\ Untouched

Notified(t) ==
  /\ At(t, "notified")
  /\ reconciled' = TRUE
  /\ Back(t)
  /\ UNCHANGED <<refresh, info, injected, fallback, seen, history,
                 failures>>
  /\ Untouched

-----------------------------------------------------------------------------
\* What a thread does once it has begun.
Continue(t) ==
  \/ NoChange(t) \/ Defer(t) \/ Busy(t) \/ Mark(t) \/ Process(t) \/ Settle(t)
  \/ Leave(t) \/ Restore(t) \/ Deferred(t) \/ Reserve(t) \/ Finish(t)
  \/ Reapply(t) \/ Unavailable(t) \/ LeaveAlone(t) \/ BootInject(t)
  \/ Arm(t) \/ Reconcile(t) \/ Notify(t) \/ Notified(t)

Next ==
  \/ Publish
  \/ \E t \in Workers : Sync(t) \/ Reprocess(t) \/ Inject(t) \/ Rebroadcast(t)
  \/ \E t \in Askers : TryReconcile(t)
  \/ \E t \in Threads : Load(t) \/ Continue(t)

Spec == Init /\ [][Next]_vars

\* A thread that has begun goes on, frames find what is pending, and the client
\* keeps asking for the ownership of apps.
Fairness ==
  /\ \A t \in Threads : WF_vars(Continue(t))
  /\ \A t \in Workers : WF_vars(Reprocess(t))
  /\ \A t \in Askers : WF_vars(TryReconcile(t))

FairSpec == Spec /\ Fairness

-----------------------------------------------------------------------------
(***************************************************************************)
(* What the package promises.                                              *)
(***************************************************************************)

Places == {"idle", "refresh", "deferred", "processing", "read", "leaving",
           "restore", "request", "asking", "loaded", "reloaded", "unapplied",
           "force", "reconcile", "notify", "notified"}
Locals == [at : Places, gen : Generations, added : SUBSET Apps,
           requests : SUBSET Apps, needed : BOOLEAN, safe : BOOLEAN,
           cold : BOOLEAN, tried : Generations,
           back : {"idle", "processing", "read", "request"}]
Jobs == Generations \X Apps

\* In the client's refresh, a load nested in it included.
Refreshing(t) ==
  \/ thread[t].at \in {"processing", "read", "leaving"}
  \/ thread[t].back \in {"processing", "read"}

PackageOK ==
  /\ live \subseteq Ids /\ native \subseteq Ids /\ seeded \subseteq Apps
  /\ status \in {"none", "available", "unavailable"}
  /\ desired \in Snapshot /\ applied \in Generations
  /\ metadata \subseteq Apps
  /\ processed \in Generations /\ pendingGen \in Generations
  /\ pending \in BOOLEAN /\ executing \in BOOLEAN
  /\ reconciled \in BOOLEAN /\ injected \in BOOLEAN
  /\ fallback \in Generations

InfoOK ==
  info \in [highest : Generations, accepted : [Generations -> SUBSET Apps],
            inFlight : SUBSET Jobs]

CommandsOK ==
  /\ waiting \subseteq Snapshot /\ newest \in Snapshot
  /\ injections \in 0 .. MaxInjections /\ forces \in 0 .. injections
  /\ loads \in 0 .. MaxLoads /\ failures \in 0 .. MaxFaults
  /\ seen \subseteq Ids /\ unread \subseteq Ids
  /\ owed \subseteq Jobs /\ asked \subseteq Jobs

ThreadsOK == thread \in [Threads -> Locals]

OneRefresher ==
  /\ \A t, u \in Threads : Refreshing(t) /\ Refreshing(u) => t = u
  /\ executing <=> \E t \in Threads : Refreshing(t)

\* The variables keep their types, and one thread at a time is in the client's
\* refresh, with the loads nested in it.
TypeOK == PackageOK /\ InfoOK /\ CommandsOK /\ ThreadsOK /\ OneRefresher

\* "an id is removable only when it was seeded by the plugin": what the client
\* put into the package at its last load stays, also an id that is managed for a
\* while, and what the plugin put there can be taken out again.
Provenance ==
  status # "none" =>
    /\ native \subseteq live
    /\ seeded \cap native = {}
    /\ live \ native \subseteq seeded

\* "a generation whose mark/process work was deferred or lost a non-blocking
\* execution claim" stays due: what changed and the client has not read is
\* pending, or a thread is about to have it read.
ChangesAreDue ==
  unread # {} => \/ pending
                 \/ \E t \in Threads : \/ At(t, "refresh") /\ thread[t].needed
                                       \/ At(t, "processing")

\* The restoring and requesting a snapshot ordered, skipped by a busy thread or
\* refused by the client, is what the next snapshot or retry starts from.
WorkIsKept ==
  /\ \A o \in owed :
       \/ o[2] \in desired.added
       \/ \E t \in Threads : /\ thread[t].at \in {"read", "leaving", "restore"}
                             /\ o[2] \in thread[t].added
                             /\ o[1] <= thread[t].gen
  /\ \A o \in asked : o[2] \in desired.requests

\* A refresh that is due ends, and what its snapshot added is restored, unless
\* a newer snapshot cannot be applied.
Settles ==
  (pending \/ owed # {}) /\ applied = desired.gen
    ~> (~pending /\ owed = {}) \/ applied # desired.gen

\* Once the plugin has put an app into the package the licenses are broadcast,
\* if need be when the client next asks: a cold start would hang without.
Announced == injected ~> reconciled /\ seen # {}
=============================================================================
