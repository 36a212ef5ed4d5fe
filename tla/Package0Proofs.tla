--------------------------- MODULE Package0Proofs ---------------------------
(***************************************************************************)
(* What the plugin put into package 0 can be taken out, what the client    *)
(* put there stays as long as its loads agree on the ids that can be       *)
(* managed, and no work a snapshot ordered is forgotten, for any apps,     *)
(* threads, faults and bounds.                                             *)
(*                                                                         *)
(* Restoring says that the ids to restore are either still in the desired  *)
(* snapshot, and then its generation has not been processed, or in the     *)
(* hands of a thread that has had them refreshed.  Requesting says that    *)
(* what is to be asked of the client is in the desired snapshot and not    *)
(* among what has been accepted for its generation.  Both hold because no  *)
(* thread works for a generation above the desired one, and one that works *)
(* for the desired generation has its work.                                *)
(***************************************************************************)
EXTENDS Package0, TLAPS

\* Only a load nested in a refresh has it to return to.
Backs ==
  \A t \in Threads : thread[t].back \in {"processing", "read"} =>
                       thread[t].at \in {"reloaded", "unapplied"}

\* Before the first load nothing has been seeded; after it, what the client did
\* not load is known as the plugin's.
Origins ==
  IF status = "none" THEN seeded = {}
  ELSE native \in Contents /\ live \ native \subseteq seeded

\* What the client loaded is there, and not known as the plugin's.
Apart == status # "none" => native \subseteq live /\ seeded \cap native = {}

\* What a snapshot orders it holds.
Ordered == \A s \in waiting : s.added \subseteq s.ids /\ s.requests \subseteq s.ids

\* Nobody is ahead of the desired snapshot.
Behind ==
  /\ processed <= desired.gen
  /\ \A t \in Threads :
       /\ thread[t].gen <= desired.gen
       /\ thread[t].gen = desired.gen /\ thread[t].gen # 0 =>
            thread[t].added = desired.added
       /\ thread[t].at = "idle" => thread[t].gen = 0
  /\ \A o \in owed \cup asked : 0 < o[1] /\ o[1] <= desired.gen

\* A thread has had refreshed what is to be restored and will restore it.
Holds(t, o) ==
  /\ thread[t].at \in {"leaving", "restore"}
  /\ o[2] \in thread[t].added /\ o[1] <= thread[t].gen

Restoring ==
  \A o \in owed :
    \/ o[2] \in desired.added /\ processed < desired.gen
    \/ \E t \in Threads : Holds(t, o)

Requesting ==
  /\ \A g \in Generations : g > desired.gen => info.accepted[g] = {}
  /\ \A o \in asked : /\ o[2] \in desired.requests
                      /\ o[2] \notin info.accepted[desired.gen]

IInv == /\ TypeOK /\ Backs
        /\ Origins
        /\ Ordered /\ Behind /\ Restoring /\ Requesting

\* The ids the client has itself are the same at every load, as far as they can
\* be managed.
SteadyContents == \A m, n \in Contents : m \cap Apps = n \cap Apps

\* What can happen to the package: a load, a snapshot that is applied, and ids
\* that are added.
Loaded ==
  /\ native' \in Contents /\ live' = native' /\ status' # "none"
  /\ seeded' = seeded

Applied(ids) ==
  /\ live' = (live \ (seeded \ ids)) \cup ids
  /\ seeded' = (seeded \cap ids) \cup (ids \ live)
  /\ status # "none" /\ UNCHANGED <<native, status>>

Appended(ids) ==
  /\ live' = live \cup ids
  /\ seeded' = seeded \cup (ids \ live)
  /\ status # "none" /\ UNCHANGED <<native, status>>

LEMMA Contained ==
  ASSUME [Next]_vars
  PROVE  \/ Loaded \/ UNCHANGED package
         \/ \E ids : Applied(ids) \/ Appended(ids)
<1> DEFINE Result == \/ Loaded \/ UNCHANGED package
                     \/ \E ids : Applied(ids) \/ Appended(ids)
<1>1. ASSUME NEW t \in Threads, Sync(t) PROVE Result
  <2>1. CASE status = "available" /\ Apply(desired') /\ UNCHANGED <<native, status>>
    BY <2>1 DEF Apply, NextSeeded, Applied
  <2> QED
    BY <1>1, <2>1 DEF Sync, Unapplied, package
<1>2. ASSUME NEW t \in Threads, Inject(t) PROVE Result
  <2>1. UNCHANGED <<native, status>>
    BY <1>2 DEF Inject
  <2>2. ASSUME NEW ids, Append(ids), status # "none" PROVE Result
    BY <2>1, <2>2 DEF Append, Appended
  <2> QED
    BY <1>2, <2>1, <2>2 DEF Inject, InjectFullSet, package
<1>3. ASSUME NEW t \in Threads, Load(t) PROVE Result
  BY <1>3 DEF Load, Loaded
<1>4. ASSUME NEW t \in Threads, Reapply(t) PROVE Result
  <2>1. CASE status = "available" /\ Apply(desired) /\ UNCHANGED <<native, status>>
    BY <2>1 DEF Apply, NextSeeded, Applied
  <2> QED
    BY <1>4, <2>1 DEF Reapply, Unapplied, package
<1>5. ASSUME NEW t \in Threads, BootInject(t) PROVE Result
  <2>1. UNCHANGED <<native, status>> /\ status # "none"
    BY <1>5 DEF BootInject
  <2>2. ASSUME NEW ids, Append(ids) PROVE Result
    BY <2>1, <2>2 DEF Append, Appended
  <2> QED
    BY <1>5, <2>1, <2>2 DEF BootInject, InjectFullSet, package
<1>6. CASE Publish \/ UNCHANGED vars
  BY <1>6 DEF Publish, vars
<1>7. ASSUME NEW t \in Threads,
          Reprocess(t) \/ Rebroadcast(t) \/ TryReconcile(t) \/
          NoChange(t) \/ Defer(t) \/ Busy(t) \/ Mark(t) \/ Process(t) \/
          Settle(t) \/ Leave(t) \/ Restore(t) \/ Deferred(t) \/
          Reserve(t) \/ Finish(t) \/ Unavailable(t) \/ LeaveAlone(t) \/
          Arm(t) \/ Reconcile(t) \/ Notify(t) \/ Notified(t)
   PROVE  Result
  BY <1>7
  DEF Reprocess, Rebroadcast, TryReconcile, NoChange, Defer, Busy, Mark,
      Process, Settle, Leave, Restore, Deferred, Reserve, Finish, Unavailable,
      LeaveAlone, Arm, Reconcile, Notify, Notified, Untouched
<1> QED
  BY <1>1, <1>2, <1>3, <1>4, <1>5, <1>6, <1>7
  DEF Next, Continue, Threads

\* Applying, adding and loading keep track of what the plugin put there.
LEMMA OriginsStep ==
  ASSUME IInv, [Next]_vars
  PROVE  Origins'
<1>1. CASE Loaded
  BY <1>1 DEF Loaded, Origins
<1>2. CASE UNCHANGED package
  BY <1>2 DEF package, IInv, Origins
<1>3. ASSUME NEW ids, Applied(ids) \/ Appended(ids) PROVE Origins'
  BY <1>3 DEF Applied, Appended, IInv, Origins
<1> QED
  BY <1>1, <1>2, <1>3, Contained

\* What the client loads again was not the plugin's.
LEMMA ApartStep ==
  ASSUME SteadyContents, IInv, Apart, [Next]_vars
  PROVE  Apart'
<1>1. CASE Loaded
  <2>1. seeded \subseteq Apps
    BY DEF IInv, TypeOK, PackageOK
  <2> QED
    BY <1>1, <2>1 DEF Loaded, IInv, Origins, Apart, SteadyContents
<1>2. CASE UNCHANGED package
  BY <1>2 DEF package, Apart
<1>3. ASSUME NEW ids, Applied(ids) \/ Appended(ids) PROVE Apart'
  BY <1>3 DEF Applied, Appended, Apart
<1> QED
  BY <1>1, <1>2, <1>3, Contained

\* The desired snapshot after a step, and the types it gives a thread.
LEMMA Carrying ==
  ASSUME PackageAssumption, desired \in Snapshot, NEW s \in Snapshot
  PROVE  /\ Carried(s) \in Snapshot
         /\ Carried(s).gen = s.gen /\ Carried(s).ids = s.ids
         /\ Carried(s).complete = s.complete
         /\ Carried(s).added = IF processed >= desired.gen THEN s.added
                               ELSE (s.added \cup desired.added) \cap s.ids
         /\ Carried(s).requests = IF AllAccepted(desired) THEN s.requests
                               ELSE (s.requests \cup desired.requests) \cap s.ids
  BY DEF Carried, CarriedRequests, Snapshot

\* What the locals of a thread are, and what they can be set to.
LEMMA Fields ==
  ASSUME PackageAssumption, ThreadsOK, NEW t \in Threads
  PROVE  /\ thread[t].at \in Places /\ thread[t].gen \in Generations
         /\ thread[t].added \subseteq Apps /\ thread[t].requests \subseteq Apps
         /\ thread[t].tried \in Generations
         /\ thread[t].back \in {"idle", "processing", "read", "request"}
  BY DEF ThreadsOK, Locals

\* A call made from within another, and a snapshot that could not be applied.
LEMMA Nested ==
  ASSUME NEW x \in Locals, NEW place \in Places,
         NEW back \in {"idle", "processing", "read", "request"}
  PROVE  [x EXCEPT !.at = place, !.back = back] \in Locals
  BY DEF Locals

LEMMA Tried ==
  ASSUME NEW x \in Locals, NEW gen \in Generations
  PROVE  [x EXCEPT !.at = "unapplied", !.tried = gen] \in Locals
  BY DEF Locals, Places

LEMMA Moves ==
  ASSUME PackageAssumption, ThreadsOK, NEW t \in Threads
  PROVE  /\ 0 \in Generations /\ Idle \in Locals
         /\ \A x \in Locals : [thread EXCEPT ![t] = x] \in [Threads -> Locals]
         /\ \A place \in Places : Goto(t, place) => ThreadsOK'
         /\ Return(t) => ThreadsOK'
         /\ Back(t) => ThreadsOK'
<1>1. 0 \in Generations
  BY DEF PackageAssumption, Generations
<1>2. Idle \in Locals
  BY <1>1 DEF Idle, Locals, Places
<1>3. \A x \in Locals : [thread EXCEPT ![t] = x] \in [Threads -> Locals]
  BY DEF ThreadsOK
<1>4. \A place \in Places : [thread[t] EXCEPT !.at = place] \in Locals
  BY DEF ThreadsOK, Locals
<1>5. \A place \in Places : Goto(t, place) => ThreadsOK'
  BY <1>3, <1>4 DEF Goto, ThreadsOK
<1>6. Return(t) => ThreadsOK'
  BY <1>2, <1>3 DEF Return, ThreadsOK
<1>7. [thread[t] EXCEPT !.at = thread[t].back, !.back = "idle"] \in Locals
  <2>1. thread[t] \in Locals /\ thread[t].back \in Places
    BY Fields DEF ThreadsOK, Places
  <2> QED
    BY <2>1, Nested
<1>8. Back(t) => ThreadsOK'
  BY <1>3, <1>6, <1>7 DEF Back, ThreadsOK
<1> QED
  BY <1>1, <1>2, <1>3, <1>5, <1>6, <1>8

LEMMA Given ==
  ASSUME NEW x \in Locals, NEW gen \in Generations, NEW added \in SUBSET Apps,
         NEW requests \in SUBSET Apps, NEW safe \in BOOLEAN
  PROVE  [x EXCEPT !.at = "refresh", !.gen = gen, !.added = added,
            !.requests = requests, !.needed = TRUE, !.safe = safe] \in Locals
  BY DEF Locals, Places

\* A thread takes the work of a snapshot with it.
LEMMA Takes ==
  ASSUME PackageAssumption, ThreadsOK, NEW t \in Threads,
         NEW s \in Snapshot, NEW cold \in BOOLEAN, pending' \in BOOLEAN,
         TakeWork(t, s, cold)
  PROVE  ThreadsOK'
<1>1. PICK ready \in BOOLEAN :
        thread' = [thread EXCEPT ![t] =
          [@ EXCEPT !.at = "refresh", !.gen = s.gen, !.added = s.added,
                    !.requests = s.requests, !.needed = pending',
                    !.safe = (metadata' = {} \/ ready), !.cold = cold]]
  BY DEF TakeWork
<1>2. [thread[t] EXCEPT !.at = "refresh", !.gen = s.gen, !.added = s.added,
                        !.requests = s.requests, !.needed = pending',
                        !.safe = (metadata' = {} \/ ready), !.cold = cold]
        \in Locals
  <2>1. (metadata' = {} \/ ready) \in BOOLEAN /\ thread[t] \in Locals
    BY <1>1 DEF ThreadsOK
  <2>2. /\ s.gen \in Generations /\ s.added \in SUBSET Apps
        /\ s.requests \in SUBSET Apps
    BY DEF Snapshot
  <2>3. \A safe \in BOOLEAN :
          [thread[t] EXCEPT !.at = "refresh", !.gen = s.gen, !.added = s.added,
             !.requests = s.requests, !.needed = pending', !.safe = safe,
             !.cold = cold] \in Locals
    BY <2>1, <2>2 DEF Locals, Places
  <2> QED
    BY <2>1, <2>3
<1> QED
  BY <1>1, <1>2, Moves DEF ThreadsOK

\* The package, the snapshot and what is due keep their types.
LEMMA PackageStep ==
  ASSUME PackageAssumption, IInv, [Next]_vars
  PROVE  PackageOK'
<1>1. CASE Publish
  BY <1>1, Fields, Moves
  DEF Publish, IInv, TypeOK, PackageOK, Ids, Larger, package, snapshot,
      refresh, license, Untouched
<1>2. ASSUME NEW t \in Threads, Sync(t) PROVE PackageOK'
  <2>1. desired' \in Snapshot
    <3>1. ASSUME NEW s \in waiting, desired' = Carried(s)
          PROVE  desired' \in Snapshot
      BY <3>1, Carrying DEF IInv, TypeOK, PackageOK, CommandsOK
    <3> QED
      BY <1>2, <3>1 DEF Sync, snapshot, IInv, TypeOK, PackageOK
  <2>2. /\ live' \subseteq Ids /\ seeded' \subseteq Apps /\ metadata' \subseteq Apps
        /\ applied' \in Generations /\ injected' \in BOOLEAN
        /\ pending' \in BOOLEAN /\ pendingGen' \in Generations
    <3>1. CASE Apply(desired') /\ Due(desired')
      BY <2>1, <3>1
      DEF Apply, Due, NextSeeded, Snapshot, Ids, IInv, TypeOK, PackageOK
    <3>2. CASE Unapplied /\ UNCHANGED <<pending, pendingGen>>
      BY <3>2 DEF Unapplied, IInv, TypeOK, PackageOK
    <3> QED
      BY <1>2, <3>1, <3>2
      DEF Sync, package, snapshot, refresh, IInv, TypeOK, PackageOK
  <2> QED
    BY <1>2, <2>1, <2>2 DEF Sync, package, refresh, IInv, TypeOK, PackageOK
<1>3. ASSUME NEW t \in Threads, Reprocess(t) PROVE PackageOK'
  BY <1>3, Fields, Moves
  DEF Reprocess, Fails, IInv, TypeOK, PackageOK, Ids, Larger, package,
      snapshot, refresh, license, Untouched
<1>4. ASSUME NEW t \in Threads, Inject(t) PROVE PackageOK'
  BY <1>4, Fields, Moves
  DEF Inject, InjectFullSet, Append, Fails, IInv, TypeOK, PackageOK, Ids,
      Larger, package, snapshot, refresh, license, Untouched
<1>5. ASSUME NEW t \in Threads, Load(t) PROVE PackageOK'
  BY <1>5, Fields, Moves
  DEF Load, Fails, IInv, TypeOK, PackageOK, Ids, Larger, package, snapshot,
      refresh, license, Untouched
<1>6. ASSUME NEW t \in Threads, NoChange(t) PROVE PackageOK'
  BY <1>6, Fields, Moves
  DEF NoChange, Settled, IInv, TypeOK, PackageOK, Ids, Larger, package,
      snapshot, refresh, license, Untouched
<1>7. ASSUME NEW t \in Threads, Mark(t) PROVE PackageOK'
  BY <1>7, Fields, Moves
  DEF Mark, Fails, IInv, TypeOK, PackageOK, Ids, Larger, package, snapshot,
      refresh, license, Untouched
<1>8. ASSUME NEW t \in Threads, Process(t) PROVE PackageOK'
  BY <1>8, Fields, Moves
  DEF Process, Fails, IInv, TypeOK, PackageOK, Ids, Larger, package, snapshot,
      refresh, license, Untouched
<1>9. ASSUME NEW t \in Threads, Settle(t) PROVE PackageOK'
  BY <1>9, Fields, Moves
  DEF Settle, Settled, IInv, TypeOK, PackageOK, Ids, Larger, package, snapshot,
      refresh, license, Untouched
<1>10. ASSUME NEW t \in Threads, Leave(t) PROVE PackageOK'
  BY <1>10, Fields, Moves
  DEF Leave, IInv, TypeOK, PackageOK, Ids, Larger, package, snapshot, refresh,
      license, Untouched
<1>11. ASSUME NEW t \in Threads, Deferred(t) PROVE PackageOK'
  BY <1>11, Fields, Moves
  DEF Deferred, IInv, TypeOK, PackageOK, Ids, Larger, package, snapshot,
      refresh, license, Untouched
<1>12. ASSUME NEW t \in Threads, Reapply(t) PROVE PackageOK'
  <2>1. /\ live' \subseteq Ids /\ seeded' \subseteq Apps /\ metadata' \subseteq Apps
        /\ applied' \in Generations /\ injected' \in BOOLEAN
        /\ pending' \in BOOLEAN /\ pendingGen' \in Generations
    BY <1>12
    DEF Reapply, Apply, Due, Unapplied, NextSeeded, Snapshot, Ids, IInv, TypeOK,
        PackageOK
  <2> QED
    BY <1>12, <2>1 DEF Reapply, IInv, TypeOK, PackageOK
<1>13. ASSUME NEW t \in Threads, Unavailable(t) PROVE PackageOK'
  BY <1>13, Fields, Moves
  DEF Unavailable, IInv, TypeOK, PackageOK, Ids, Larger, package, snapshot,
      refresh, license, Untouched
<1>14. ASSUME NEW t \in Threads, BootInject(t) PROVE PackageOK'
  BY <1>14, Fields, Moves
  DEF BootInject, InjectFullSet, Append, Fails, IInv, TypeOK, PackageOK, Ids,
      Larger, package, snapshot, refresh, license, Untouched
<1>15. ASSUME NEW t \in Threads, Arm(t) PROVE PackageOK'
  BY <1>15, Fields, Moves
  DEF Arm, IInv, TypeOK, PackageOK, Ids, Larger, package, snapshot, refresh,
      license, Untouched
<1>16. ASSUME NEW t \in Threads, Notified(t) PROVE PackageOK'
  BY <1>16, Fields, Moves
  DEF Notified, IInv, TypeOK, PackageOK, Ids, Larger, package, snapshot,
      refresh, license, Untouched
<1>17. ASSUME NEW t \in Threads,
          Rebroadcast(t) \/ TryReconcile(t) \/ Defer(t) \/ Busy(t) \/
          Restore(t) \/ Reserve(t) \/ Finish(t) \/ LeaveAlone(t) \/
          Reconcile(t) \/ Notify(t)
   PROVE  PackageOK'
  BY <1>17, Fields, Moves
  DEF Rebroadcast, TryReconcile, Defer, Busy, Restore, Reserve, Finish,
      LeaveAlone, Reconcile, Notify, IInv, TypeOK, PackageOK, Ids, Larger,
      package, snapshot, refresh, license, Untouched
<1>18. CASE UNCHANGED vars
  BY <1>18
  DEF vars, IInv, TypeOK, PackageOK, Ids, Larger, package, snapshot, refresh,
      license
<1> QED
  BY <1>1, <1>2, <1>3, <1>4, <1>5, <1>6, <1>7, <1>8, <1>9, <1>10, <1>11, <1>12,
     <1>13, <1>14, <1>15, <1>16, <1>17, <1>18
  DEF Next, Continue, Threads

\* The threads' locals keep their types.
LEMMA ThreadsStep ==
  ASSUME PackageAssumption, IInv, [Next]_vars
  PROVE  ThreadsOK'
<1>1. ASSUME NEW t \in Threads, Sync(t) PROVE ThreadsOK'
  <2>1. desired' \in Snapshot /\ pending' \in BOOLEAN
    BY PackageStep, <1>1 DEF Next, Threads, PackageOK
  <2>2. CASE thread' = thread
    BY <2>2 DEF IInv, TypeOK, ThreadsOK
  <2>3. CASE TakeWork(t, desired', FALSE)
    BY <2>1, <2>3, Takes DEF IInv, TypeOK
  <2> QED
    BY <1>1, <2>2, <2>3 DEF Sync
<1>2. ASSUME NEW t \in Threads, Reprocess(t) PROVE ThreadsOK'
  <2>1. PICK ready \in BOOLEAN :
          thread' = [thread EXCEPT ![t] =
            [@ EXCEPT !.at = "refresh", !.gen = applied,
                      !.added = desired.added, !.requests = desired.requests,
                      !.needed = TRUE, !.safe = (metadata = {} \/ ready)]]
    BY <1>2 DEF Reprocess
  <2>2. applied \in Generations /\ desired \in Snapshot
    BY DEF IInv, TypeOK, PackageOK
  <2>3. [thread[t] EXCEPT !.at = "refresh", !.gen = applied,
                          !.added = desired.added,
                          !.requests = desired.requests, !.needed = TRUE,
                          !.safe = (metadata = {} \/ ready)] \in Locals
    <3>1. (metadata = {} \/ ready) \in BOOLEAN /\ thread[t] \in Locals
      BY <2>1 DEF IInv, TypeOK, ThreadsOK
    <3> QED
      BY <2>2, <3>1, Given DEF Snapshot
  <2> QED
    BY <2>1, <2>3, Moves DEF IInv, TypeOK, ThreadsOK
<1>3. ASSUME NEW t \in Threads, Load(t) PROVE ThreadsOK'
  <2>1. CASE Goto(t, "loaded")
    BY <2>1, Moves DEF Places, IInv, TypeOK
  <2>2. CASE thread[t].at \in {"processing", "read"} /\
             thread' = [thread EXCEPT ![t] =
               [@ EXCEPT !.at = "reloaded", !.back = thread[t].at]]
    <3>1. ThreadsOK /\ thread[t] \in Locals /\ "reloaded" \in Places
      BY DEF IInv, TypeOK, ThreadsOK, Places
    <3>2. thread[t].at \in {"idle", "processing", "read", "request"}
      BY <2>2
    <3>3. [thread[t] EXCEPT !.at = "reloaded", !.back = thread[t].at] \in Locals
      BY <3>1, <3>2, Nested
    <3> QED
      BY <2>2, <3>1, <3>3, Moves DEF ThreadsOK
  <2> QED
    BY <1>3, <2>1, <2>2 DEF Load
<1>4. ASSUME NEW t \in Threads, Deferred(t) PROVE ThreadsOK'
  <2>1. [thread[t] EXCEPT !.at = "force", !.back = "request"] \in Locals
    BY Nested DEF IInv, TypeOK, ThreadsOK, Places
  <2> QED
    BY <1>4, <2>1, Moves DEF Deferred, IInv, TypeOK, ThreadsOK, Places
<1>5. ASSUME NEW t \in Threads, Reserve(t) PROVE ThreadsOK'
  <2>1. ASSUME NEW ids \in SUBSET Apps
        PROVE  [thread[t] EXCEPT !.at = "asking", !.requests = ids] \in Locals
    <3>1. thread[t] \in Locals
      BY DEF IInv, TypeOK, ThreadsOK
    <3>2. \A x \in Locals : [x EXCEPT !.at = "asking", !.requests = ids]
                              \in Locals
      BY <2>1 DEF Locals, Places
    <3> QED
      BY <3>1, <3>2
  <2>2. thread[t].requests \subseteq Apps
    BY Fields DEF IInv, TypeOK
  <2>3. \/ Return(t)
        \/ \E ids \in SUBSET Apps : thread' = [thread EXCEPT ![t] =
             [@ EXCEPT !.at = "asking", !.requests = ids]]
    BY <1>5, <2>2 DEF Reserve
  <2> QED
    BY <2>1, <2>3, Moves DEF IInv, TypeOK, ThreadsOK
<1>6. ASSUME NEW t \in Threads, Reapply(t) PROVE ThreadsOK'
  <2>1. /\ desired \in Snapshot /\ (processed = 0) \in BOOLEAN
        /\ pending' \in BOOLEAN
    BY <1>6, PackageStep DEF IInv, TypeOK, PackageOK
  <2>2. CASE TakeWork(t, desired, processed = 0)
    BY <2>1, <2>2, Takes DEF IInv, TypeOK
  <2>3. [thread[t] EXCEPT !.at = "unapplied", !.tried = desired.gen] \in Locals
    <3>1. thread[t] \in Locals /\ desired.gen \in Generations
      BY <2>1 DEF Snapshot, IInv, TypeOK, ThreadsOK
    <3> QED
      BY <3>1, Tried
  <2>4. ThreadsOK
    BY DEF IInv, TypeOK
  <2>5. CASE thread' = [thread EXCEPT ![t] =
               [@ EXCEPT !.at = "unapplied", !.tried = desired.gen]]
    BY <2>3, <2>4, <2>5, Moves DEF ThreadsOK
  <2>6. CASE Back(t)
    BY <2>4, <2>6, Moves
  <2> QED
    BY <1>6, <2>2, <2>5, <2>6 DEF Reapply
<1>7. CASE Publish
  BY <1>7
  DEF Publish, IInv, TypeOK, ThreadsOK
<1>8. ASSUME NEW t \in Threads,
          Inject(t) \/ Rebroadcast(t) \/ TryReconcile(t) \/ NoChange(t) \/
          Defer(t) \/ Busy(t) \/ Mark(t) \/ Process(t) \/ Settle(t) \/
          Leave(t) \/ Restore(t) \/ Finish(t) \/ Unavailable(t) \/
          LeaveAlone(t) \/ BootInject(t) \/ Arm(t) \/ Reconcile(t) \/
          Notify(t) \/ Notified(t)
   PROVE  ThreadsOK'
  BY <1>8, Moves
  DEF Inject, Rebroadcast, TryReconcile, NoChange, Defer, Busy, Mark, Process,
      Settle, Leave, Restore, Finish, Unavailable, LeaveAlone, BootInject, Arm,
      Reconcile, Notify, Notified, Places, IInv, TypeOK, ThreadsOK
<1>9. CASE UNCHANGED vars
  BY <1>9
  DEF vars, IInv, TypeOK, ThreadsOK
<1> QED
  BY <1>1, <1>2, <1>3, <1>4, <1>5, <1>6, <1>7, <1>8, <1>9
  DEF Next, Continue, Threads

\* What was asked of the client keeps its type.
LEMMA InfoStep ==
  ASSUME PackageAssumption, IInv, [Next]_vars
  PROVE  InfoOK'
<1>1. ASSUME NEW t \in Threads, Reserve(t) PROVE InfoOK'
  <2>1. /\ thread[t].gen \in Generations /\ thread[t].requests \subseteq Apps
        /\ info.highest \in Generations
    BY Fields DEF IInv, TypeOK, InfoOK
  <2>2. \A highest \in Generations :
          Pruned(info.accepted, highest) \in [Generations -> SUBSET Apps]
    BY DEF Pruned, IInv, TypeOK, InfoOK
  <2>3. Larger(info.highest, thread[t].gen) \in Generations
    BY <2>1 DEF Larger
  <2>4. \A ids \in SUBSET Apps :
          info.inFlight \cup {thread[t].gen} \X ids \subseteq Jobs
    BY <2>1 DEF Jobs, IInv, TypeOK, InfoOK
  <2>5. CASE info' = info
    BY <2>5 DEF IInv, TypeOK, InfoOK
  <2>6. \/ info' = info
        \/ \E ids \in SUBSET Apps :
             info' = [highest |-> Larger(info.highest, thread[t].gen),
                      accepted |-> Pruned(info.accepted,
                                     Larger(info.highest, thread[t].gen)),
                      inFlight |-> info.inFlight \cup {thread[t].gen} \X ids]
    <3>1. {a \in thread[t].requests \
             Pruned(info.accepted, Larger(info.highest, thread[t].gen))
               [thread[t].gen] :
             <<thread[t].gen, a>> \notin info.inFlight} \in SUBSET Apps
      BY <2>1
    <3> QED
      BY <1>1, <3>1 DEF Reserve
  <2> QED
    BY <2>2, <2>3, <2>4, <2>5, <2>6 DEF InfoOK
<1>2. ASSUME NEW t \in Threads, Finish(t) PROVE InfoOK'
  <2> DEFINE gen == thread[t].gen
             ids == thread[t].requests
             left == info.inFlight \ ({gen} \X ids)
  <2>1. /\ gen \in Generations /\ ids \subseteq Apps
        /\ info.highest \in Generations
        /\ info.accepted \in [Generations -> SUBSET Apps]
        /\ info.inFlight \subseteq Jobs
    BY Fields DEF IInv, TypeOK, InfoOK
  <2>2. [info.accepted EXCEPT ![gen] = @ \cup ids]
          \in [Generations -> SUBSET Apps]
    BY <2>1
  <2>3. AcceptedWith(gen, ids) \in [Generations -> SUBSET Apps]
    BY <2>1, <2>2 DEF AcceptedWith, Pruned
  <2>4. \/ info' = [info EXCEPT !.inFlight = left,
                                !.accepted = AcceptedWith(gen, ids)]
        \/ info' = [info EXCEPT !.inFlight = left]
    BY <1>2 DEF Finish
  <2> HIDE DEF gen, ids
  <2> QED
    BY <2>1, <2>3, <2>4 DEF InfoOK, IInv, TypeOK
<1>3. CASE Publish
  BY <1>3
  DEF Publish, IInv, TypeOK, InfoOK
<1>4. ASSUME NEW t \in Threads,
          Sync(t) \/ Reprocess(t) \/ Inject(t) \/ Rebroadcast(t) \/
          TryReconcile(t) \/ Load(t) \/ NoChange(t) \/ Defer(t) \/
          Busy(t) \/ Mark(t) \/ Process(t) \/ Settle(t) \/ Leave(t) \/
          Restore(t) \/ Deferred(t) \/ Reapply(t) \/ Unavailable(t) \/
          LeaveAlone(t) \/ BootInject(t) \/ Arm(t) \/ Reconcile(t) \/
          Notify(t) \/ Notified(t)
   PROVE  InfoOK'
  BY <1>4
  DEF Sync, Reprocess, Inject, Rebroadcast, TryReconcile, Load, NoChange,
      Defer, Busy, Mark, Process, Settle, Leave, Restore, Deferred, Reapply,
      Unavailable, LeaveAlone, BootInject, Arm, Reconcile, Notify, Notified,
      IInv, TypeOK, InfoOK
<1>5. CASE UNCHANGED vars
  BY <1>5
  DEF vars, IInv, TypeOK, InfoOK
<1> QED
  BY <1>1, <1>2, <1>3, <1>4, <1>5
  DEF Next, Continue, Threads

\* What the client has not read is in the package or was.
LEMMA Unread ==
  ASSUME PackageOK, CommandsOK, live' \subseteq Ids, NEW s, Apply(s)
  PROVE  unread' \subseteq Ids
<1>1. unread' = (unread \cup Differ(live', live)) \cap Differ(live', seen)
  BY DEF Apply
<1> QED
  BY <1>1 DEF Differ, PackageOK, CommandsOK

\* Snapshots, commands, bounds and histories keep their types.
LEMMA CommandsStep ==
  ASSUME PackageAssumption, IInv, [Next]_vars
  PROVE  CommandsOK'
<1>1. CASE Publish
  <2>1. newest.gen + 1 \in Generations
    BY <1>1 DEF Publish, Snapshot, Generations, PackageAssumption, IInv, TypeOK,
              CommandsOK
  <2>2. \E ids \in SUBSET Apps : \E order \in Orders(ids \ newest.ids) :
          newest' = [gen |-> newest.gen + 1, ids |-> ids, added |-> order.added,
                     requests |-> order.requests, complete |-> order.complete]
    BY <1>1 DEF Publish
  <2>3. \A new \in SUBSET Apps : \A order \in Orders(new) :
          /\ order.added \in SUBSET Apps /\ order.requests \in SUBSET Apps
          /\ order.complete \in BOOLEAN
    BY DEF Orders
  <2>4. newest' \in Snapshot
    <3>1. PICK ids \in SUBSET Apps : \E order \in Orders(ids \ newest.ids) :
            newest' = [gen |-> newest.gen + 1, ids |-> ids,
                       added |-> order.added, requests |-> order.requests,
                       complete |-> order.complete]
      BY <2>2
    <3>2. ids \ newest.ids \in SUBSET Apps
      OBVIOUS
    <3> QED
      BY <2>1, <2>3, <3>1, <3>2 DEF Snapshot
  <2> QED
    BY <1>1, <2>4 DEF Publish, bounds, history, IInv, TypeOK, CommandsOK
<1>2. ASSUME NEW t \in Threads, Sync(t) PROVE CommandsOK'
  <2>1. live' \subseteq Ids
    BY PackageStep DEF PackageOK
  <2>2. PICK s \in waiting : /\ waiting' = waiting \ {s}
                            /\ \/ UNCHANGED history
                               \/ /\ owed' \subseteq owed \cup {s.gen} \X s.added
                                  /\ asked' \subseteq
                                       asked \cup {s.gen} \X s.requests
                                  /\ Apply(desired') \/ unread' = unread
    BY <1>2 DEF Sync, Unapplied
  <2>3. s \in Snapshot
    BY DEF IInv, TypeOK, CommandsOK
  <2>4. owed' \subseteq Jobs /\ asked' \subseteq Jobs /\ unread' \subseteq Ids
    <3>1. {s.gen} \X s.added \subseteq Jobs /\ {s.gen} \X s.requests \subseteq Jobs
      BY <2>3 DEF Snapshot, Jobs
    <3>2. owed \subseteq Jobs /\ asked \subseteq Jobs /\ unread \subseteq Ids
      BY DEF IInv, TypeOK, CommandsOK
    <3>3. CASE UNCHANGED history
      BY <3>2, <3>3 DEF history
    <3>4. Apply(desired') => unread' \subseteq Ids
      BY <2>1, Unread DEF IInv, TypeOK
    <3> QED
      BY <2>2, <3>1, <3>2, <3>3, <3>4
  <2>5. failures' \in 0 .. MaxFaults
    <3>1. UNCHANGED failures \/ Fails("guard") \/ Fails("grow")
      BY <1>2 DEF Sync, TakeWork, Cannot
    <3> QED
      BY <3>1 DEF Fails, IInv, TypeOK, CommandsOK, PackageAssumption
  <2> QED
    BY <1>2, <2>2, <2>4, <2>5 DEF Sync, IInv, TypeOK, CommandsOK
<1>3. ASSUME NEW t \in Threads, Reprocess(t) PROVE CommandsOK'
  BY <1>3
  DEF Reprocess, Fails, IInv, TypeOK, PackageOK, CommandsOK, commands, history,
      bounds, Untouched
<1>4. ASSUME NEW t \in Threads, Inject(t) PROVE CommandsOK'
  BY <1>4
  DEF Inject, InjectFullSet, Append, Fails, IInv, TypeOK, PackageOK,
      CommandsOK, commands, history, bounds, Untouched
<1>5. ASSUME NEW t \in Threads, Rebroadcast(t) PROVE CommandsOK'
  BY <1>5
  DEF Rebroadcast, IInv, TypeOK, PackageOK, CommandsOK, commands, history,
      bounds, Untouched
<1>6. ASSUME NEW t \in Threads, Load(t) PROVE CommandsOK'
  BY <1>6
  DEF Load, LoadsAgain, Fails, IInv, TypeOK, PackageOK, CommandsOK, commands,
      history, bounds, Untouched
<1>7. ASSUME NEW t \in Threads, Mark(t) PROVE CommandsOK'
  BY <1>7
  DEF Mark, Fails, IInv, TypeOK, PackageOK, CommandsOK, commands, history,
      bounds, Untouched
<1>8. ASSUME NEW t \in Threads, Process(t) PROVE CommandsOK'
  BY <1>8
  DEF Process, Fails, IInv, TypeOK, PackageOK, CommandsOK, commands, history,
      bounds, Untouched
<1>9. ASSUME NEW t \in Threads, Restore(t) PROVE CommandsOK'
  BY <1>9
  DEF Restore, IInv, TypeOK, PackageOK, CommandsOK, commands, history, bounds,
      Untouched
<1>10. ASSUME NEW t \in Threads, Finish(t) PROVE CommandsOK'
  BY <1>10
  DEF Finish, Fails, IInv, TypeOK, PackageOK, CommandsOK, commands, history,
      bounds, Untouched
<1>11. ASSUME NEW t \in Threads, Reapply(t) PROVE CommandsOK'
  <2>1. live' \subseteq Ids
    BY PackageStep DEF PackageOK
  <2>2. unread' \subseteq Ids
    BY <1>11, <2>1, Unread
    DEF Reapply, Unapplied, IInv, TypeOK, CommandsOK
  <2>3. failures' \in 0 .. MaxFaults
    <3>1. UNCHANGED failures \/ Fails("guard") \/ Fails("grow")
      BY <1>11 DEF Reapply, TakeWork, Cannot
    <3> QED
      BY <3>1 DEF Fails, IInv, TypeOK, CommandsOK, PackageAssumption
  <2> QED
    BY <1>11, <2>2, <2>3 DEF Reapply, commands, IInv, TypeOK, CommandsOK
<1>12. ASSUME NEW t \in Threads, BootInject(t) PROVE CommandsOK'
  BY <1>12
  DEF BootInject, InjectFullSet, Append, Fails, IInv, TypeOK, PackageOK,
      CommandsOK, commands, history, bounds, Untouched
<1>13. ASSUME NEW t \in Threads, Reconcile(t) PROVE CommandsOK'
  BY <1>13
  DEF Reconcile, Fails, IInv, TypeOK, PackageOK, CommandsOK, commands, history,
      bounds, Untouched
<1>14. ASSUME NEW t \in Threads, Notify(t) PROVE CommandsOK'
  BY <1>14
  DEF Notify, IInv, TypeOK, PackageOK, CommandsOK, commands, history, bounds,
      Untouched
<1>15. ASSUME NEW t \in Threads,
          TryReconcile(t) \/ NoChange(t) \/ Defer(t) \/ Busy(t) \/
          Settle(t) \/ Leave(t) \/ Deferred(t) \/ Reserve(t) \/
          Unavailable(t) \/ LeaveAlone(t) \/ Arm(t) \/ Notified(t)
   PROVE  CommandsOK'
  BY <1>15
  DEF TryReconcile, NoChange, Defer, Busy, Settle, Leave, Deferred, Reserve,
      Unavailable, LeaveAlone, Arm, Notified, IInv, TypeOK, PackageOK,
      CommandsOK, commands, history, bounds, Untouched
<1>16. CASE UNCHANGED vars
  BY <1>16
  DEF vars, IInv, TypeOK, PackageOK, CommandsOK, commands, history, bounds
<1> QED
  BY <1>1, <1>2, <1>3, <1>4, <1>5, <1>6, <1>7, <1>8, <1>9, <1>10, <1>11, <1>12,
     <1>13, <1>14, <1>15, <1>16
  DEF Next, Continue, Threads

\* What moving does to the locals of a thread, and of no other.
LEMMA Effects ==
  ASSUME PackageAssumption, ThreadsOK, NEW t \in Threads
  PROVE  /\ \A place \in Places : Goto(t, place) =>
              /\ thread'[t].at = place /\ thread'[t].back = thread[t].back
              /\ thread'[t].gen = thread[t].gen
              /\ thread'[t].added = thread[t].added
              /\ \A u \in Threads : u # t => thread'[u] = thread[u]
         /\ Return(t) =>
              /\ thread'[t] = Idle
              /\ thread'[t].at = "idle" /\ thread'[t].back = "idle"
              /\ \A u \in Threads : u # t => thread'[u] = thread[u]
         /\ Back(t) =>
              /\ thread'[t].at = thread[t].back /\ thread'[t].back = "idle"
              /\ \/ thread'[t] = Idle
                 \/ /\ thread[t].back # "idle"
                    /\ thread'[t].gen = thread[t].gen
                    /\ thread'[t].added = thread[t].added
              /\ \A u \in Threads : u # t => thread'[u] = thread[u]
         /\ \A s, cold : TakeWork(t, s, cold) =>
              /\ thread'[t].at = "refresh" /\ thread'[t].back = thread[t].back
              /\ thread'[t].gen = s.gen /\ thread'[t].added = s.added
              /\ \A u \in Threads : u # t => thread'[u] = thread[u]
<1> USE DEF ThreadsOK, Locals
<1>1. ASSUME NEW place \in Places, Goto(t, place)
      PROVE  /\ thread'[t].at = place /\ thread'[t].back = thread[t].back
             /\ thread'[t].gen = thread[t].gen
             /\ thread'[t].added = thread[t].added
             /\ \A u \in Threads : u # t => thread'[u] = thread[u]
  BY <1>1 DEF Goto
<1>2. ASSUME Return(t)
      PROVE  /\ thread'[t] = Idle
             /\ thread'[t].at = "idle" /\ thread'[t].back = "idle"
             /\ \A u \in Threads : u # t => thread'[u] = thread[u]
  BY <1>2 DEF Return, Idle
<1>3. ASSUME Back(t)
      PROVE  /\ thread'[t].at = thread[t].back /\ thread'[t].back = "idle"
             /\ \/ thread'[t] = Idle
                \/ /\ thread[t].back # "idle"
                   /\ thread'[t].gen = thread[t].gen
                   /\ thread'[t].added = thread[t].added
             /\ \A u \in Threads : u # t => thread'[u] = thread[u]
  <2>1. CASE Return(t) /\ thread[t].back = "idle"
    BY <1>2, <2>1
  <2>2. CASE thread' = [thread EXCEPT ![t] =
               [@ EXCEPT !.at = thread[t].back, !.back = "idle"]]
    BY <1>3, <1>2, <2>2 DEF Back
  <2> QED
    BY <1>3, <2>1, <2>2 DEF Back
<1>4. ASSUME NEW s, NEW cold, TakeWork(t, s, cold)
      PROVE  /\ thread'[t].at = "refresh" /\ thread'[t].back = thread[t].back
             /\ thread'[t].gen = s.gen /\ thread'[t].added = s.added
             /\ \A u \in Threads : u # t => thread'[u] = thread[u]
  BY <1>4 DEF TakeWork
<1> QED
  BY <1>1, <1>2, <1>3, <1>4

\* A refresh to return to is kept by nested loads only.
LEMMA BacksStep ==
  ASSUME PackageAssumption, IInv, [Next]_vars
  PROVE  Backs'
<1>1. ASSUME NEW t \in Threads, Sync(t) PROVE Backs'
  <2>1. CASE thread' = thread
    BY <2>1 DEF Backs, IInv
  <2>2. ASSUME NEW s, TakeWork(t, s, FALSE), thread[t].at = "idle"
        PROVE  Backs'
    <3>1. /\ thread'[t].back = thread[t].back
          /\ \A u \in Threads : u # t => thread'[u] = thread[u]
      BY <2>2, Effects DEF IInv, TypeOK
    <3> QED
      BY <2>2, <3>1 DEF Backs, IInv
  <2>3. thread[t].at = "idle"
    BY <1>1 DEF Sync, At
  <2>4. \E s \in waiting : thread' = thread \/ TakeWork(t, desired', FALSE)
    BY <1>1 DEF Sync
  <2> QED
    BY <2>1, <2>2, <2>3, <2>4
<1>2. ASSUME NEW t \in Threads, Reprocess(t) PROVE Backs'
  BY <1>2, Fields DEF Reprocess, At, Backs, IInv, TypeOK, ThreadsOK
<1>3. ASSUME NEW t \in Threads, Load(t) PROVE Backs'
  <2>1. CASE Goto(t, "loaded") /\ At(t, "idle")
    BY <2>1, Effects DEF At, Places, Backs, IInv, TypeOK
  <2>2. CASE thread' = [thread EXCEPT ![t] =
               [@ EXCEPT !.at = "reloaded", !.back = thread[t].at]]
    BY <2>2, Fields DEF Backs, IInv, TypeOK, ThreadsOK
  <2> QED
    BY <1>3, <2>1, <2>2 DEF Load
<1>4. ASSUME NEW t \in Threads, Deferred(t) PROVE Backs'
  <2>1. CASE Goto(t, "request") /\ At(t, "deferred")
    BY <2>1, Effects DEF At, Places, Backs, IInv, TypeOK
  <2>2. CASE thread' = [thread EXCEPT ![t] =
               [@ EXCEPT !.at = "force", !.back = "request"]]
    BY <2>2, Fields DEF Backs, IInv, TypeOK, ThreadsOK
  <2> QED
    BY <1>4, <2>1, <2>2 DEF Deferred
<1>5. ASSUME NEW t \in Threads, Reserve(t) PROVE Backs'
  <2>1. CASE Return(t)
    BY <2>1, Effects DEF Backs, IInv, TypeOK
  <2>2. CASE \E ids : thread' = [thread EXCEPT ![t] =
               [@ EXCEPT !.at = "asking", !.requests = ids]]
    BY <1>5, <2>2, Fields DEF Reserve, At, Backs, IInv, TypeOK, ThreadsOK
  <2> QED
    BY <1>5, <2>1, <2>2 DEF Reserve
<1>6. ASSUME NEW t \in Threads, Reapply(t) PROVE Backs'
  <2>1. CASE At(t, "loaded") /\ TakeWork(t, desired, processed = 0)
    BY <2>1, Effects DEF At, Backs, IInv, TypeOK
  <2>2. CASE Back(t)
    BY <2>2, Effects DEF Backs, IInv, TypeOK
  <2>3. CASE thread' = [thread EXCEPT ![t] =
               [@ EXCEPT !.at = "unapplied", !.tried = desired.gen]]
    BY <2>3, Fields DEF Backs, IInv, TypeOK, ThreadsOK
  <2> QED
    BY <1>6, <2>1, <2>2, <2>3 DEF Reapply
<1>7. CASE Publish
  BY <1>7
  DEF Publish, IInv, TypeOK, Backs
<1>8. ASSUME NEW t \in Threads,
          Inject(t) \/ Rebroadcast(t) \/ TryReconcile(t) \/ NoChange(t) \/
          Defer(t) \/ Busy(t) \/ Mark(t) \/ Process(t) \/ Settle(t) \/
          Leave(t) \/ Restore(t) \/ Finish(t) \/ Unavailable(t) \/
          LeaveAlone(t) \/ BootInject(t) \/ Arm(t) \/ Reconcile(t) \/
          Notify(t) \/ Notified(t)
   PROVE  Backs'
  <2>0. PackageAssumption /\ ThreadsOK /\ Backs /\ thread[t].at \in Places
    BY Fields DEF IInv, TypeOK
  <2>1. CASE Inject(t) \/ Rebroadcast(t) \/ NoChange(t) \/ BootInject(t)
    BY <2>0, <2>1, Effects
    DEF Inject, Rebroadcast, NoChange, BootInject, At, Places, Backs
  <2>2. CASE TryReconcile(t) \/ Defer(t) \/ Busy(t)
    BY <2>0, <2>2, Effects
    DEF TryReconcile, Defer, Busy, At, Places, Backs
  <2>3. CASE Mark(t) \/ Process(t) \/ Settle(t)
    BY <2>0, <2>3, Effects
    DEF Mark, Process, Settle, At, Places, Backs
  <2>4. CASE Leave(t) \/ Restore(t)
    BY <2>0, <2>4, Effects
    DEF Leave, Restore, At, Places, Backs
  <2>5. CASE Finish(t) \/ Unavailable(t) \/ LeaveAlone(t)
    BY <2>0, <2>5, Effects
    DEF Finish, Unavailable, LeaveAlone, At, Places, Backs
  <2>6. CASE Arm(t) \/ Reconcile(t) \/ Notify(t) \/ Notified(t)
    BY <2>0, <2>6, Effects
    DEF Arm, Reconcile, Notify, Notified, At, Places, Backs
  <2> QED
    BY <1>8, <2>1, <2>2, <2>3, <2>4, <2>5, <2>6
<1>9. CASE UNCHANGED vars
  BY <1>9
  DEF vars, IInv, TypeOK, Backs
<1> QED
  BY <1>1, <1>2, <1>3, <1>4, <1>5, <1>6, <1>7, <1>8, <1>9
  DEF Next, Continue, Threads

\* Nobody enters or leaves the refresh of the client.
LEMMA Aside ==
  ASSUME OneRefresher, NEW t \in Threads, executing' = executing,
         \A u \in Threads : u # t => thread'[u] = thread[u],
         Refreshing(t)' <=> Refreshing(t)
  PROVE  OneRefresher'
  BY DEF OneRefresher, Refreshing

\* The claim is held by the one thread in the refresh of the client.
LEMMA OneRefresherStep ==
  ASSUME PackageAssumption, IInv, [Next]_vars
  PROVE  OneRefresher'
<1>1. ASSUME NEW t \in Threads, Sync(t) PROVE OneRefresher'
  <2>1. CASE TakeWork(t, desired', FALSE)
    BY <1>1, <2>1, Effects, Aside
    DEF Sync, At, Backs, Refreshing, refresh, IInv, TypeOK
  <2>2. CASE thread' = thread
    BY <1>1, <2>2, Aside DEF Sync, Refreshing, refresh, IInv, TypeOK
  <2> QED
    BY <1>1, <2>1, <2>2 DEF Sync
<1>2. ASSUME NEW t \in Threads, Reprocess(t) PROVE OneRefresher'
  <2>1. /\ \A u \in Threads : u # t => thread'[u] = thread[u]
        /\ Refreshing(t)' <=> Refreshing(t)
    BY <1>2, Fields DEF Reprocess, At, Backs, Refreshing, IInv, TypeOK, ThreadsOK
  <2> QED
    BY <1>2, <2>1, Aside DEF Reprocess, refresh, IInv, TypeOK
<1>3. ASSUME NEW t \in Threads, Load(t) PROVE OneRefresher'
  <2>1. /\ \A u \in Threads : u # t => thread'[u] = thread[u]
        /\ Refreshing(t)' <=> Refreshing(t)
    <3>1. CASE Goto(t, "loaded") /\ At(t, "idle")
      BY <3>1, Effects DEF At, Places, Backs, Refreshing, IInv, TypeOK
    <3>2. CASE /\ thread[t].at \in {"processing", "read"}
               /\ thread' = [thread EXCEPT ![t] =
                    [@ EXCEPT !.at = "reloaded", !.back = thread[t].at]]
      BY <3>2, Fields DEF Refreshing, IInv, TypeOK, ThreadsOK
    <3> QED
      BY <1>3, <3>1, <3>2 DEF Load
  <2> QED
    BY <1>3, <2>1, Aside DEF Load, refresh, IInv, TypeOK
<1>4. ASSUME NEW t \in Threads, Mark(t) PROVE OneRefresher'
  <2>1. CASE executing' = TRUE /\ Goto(t, "processing")
    BY <1>4, <2>1, Effects
    DEF Mark, At, Places, Backs, Refreshing, OneRefresher, IInv, TypeOK
  <2>2. CASE executing' = executing /\ Goto(t, "deferred")
    BY <1>4, <2>2, Effects, Aside
    DEF Mark, At, Places, Backs, Refreshing, IInv, TypeOK
  <2> QED
    BY <1>4, <2>1, <2>2 DEF Mark
<1>5. ASSUME NEW t \in Threads, Process(t) PROVE OneRefresher'
  <2>1. CASE executing' = FALSE /\ Goto(t, "deferred")
    BY <1>5, <2>1, Effects
    DEF Process, At, Places, Backs, Refreshing, OneRefresher, IInv, TypeOK
  <2>2. CASE executing' = executing /\ Goto(t, "read")
    BY <1>5, <2>2, Effects, Aside
    DEF Process, At, Places, Backs, Refreshing, IInv, TypeOK
  <2> QED
    BY <1>5, <2>1, <2>2 DEF Process
<1>6. ASSUME NEW t \in Threads, Leave(t) PROVE OneRefresher'
  BY <1>6, Effects
  DEF Leave, At, Places, Backs, Refreshing, OneRefresher, IInv, TypeOK
<1>7. ASSUME NEW t \in Threads, Deferred(t) PROVE OneRefresher'
  <2>1. /\ \A u \in Threads : u # t => thread'[u] = thread[u]
        /\ Refreshing(t)' <=> Refreshing(t)
    <3>1. CASE Goto(t, "request") /\ At(t, "deferred")
      BY <3>1, Effects DEF At, Places, Backs, Refreshing, IInv, TypeOK
    <3>2. CASE /\ At(t, "deferred")
               /\ thread' = [thread EXCEPT ![t] =
                    [@ EXCEPT !.at = "force", !.back = "request"]]
      BY <3>2, Fields DEF At, Backs, Refreshing, IInv, TypeOK, ThreadsOK
    <3> QED
      BY <1>7, <3>1, <3>2 DEF Deferred
  <2> QED
    BY <1>7, <2>1, Aside DEF Deferred, refresh, IInv, TypeOK
<1>8. ASSUME NEW t \in Threads, Reserve(t) PROVE OneRefresher'
  <2>1. /\ \A u \in Threads : u # t => thread'[u] = thread[u]
        /\ Refreshing(t)' <=> Refreshing(t)
    <3>1. CASE Return(t) /\ At(t, "request")
      BY <3>1, Effects DEF At, Places, Backs, Refreshing, IInv, TypeOK
    <3>2. CASE \E ids : /\ At(t, "request")
                        /\ thread' = [thread EXCEPT ![t] =
                             [@ EXCEPT !.at = "asking", !.requests = ids]]
      BY <3>2, Fields DEF At, Backs, Refreshing, IInv, TypeOK, ThreadsOK
    <3> QED
      BY <1>8, <3>1, <3>2 DEF Reserve
  <2> QED
    BY <1>8, <2>1, Aside DEF Reserve, refresh, IInv, TypeOK
<1>9. ASSUME NEW t \in Threads, Reapply(t) PROVE OneRefresher'
  <2>1. /\ \A u \in Threads : u # t => thread'[u] = thread[u]
        /\ Refreshing(t)' <=> Refreshing(t)
    <3>1. CASE At(t, "loaded") /\ TakeWork(t, desired, processed = 0)
      BY <3>1, Effects DEF At, Backs, Refreshing, IInv, TypeOK
    <3>2. CASE thread[t].at \in {"loaded", "reloaded"} /\ Back(t)
      BY <3>2, Effects, Fields DEF Backs, Refreshing, IInv, TypeOK
    <3>3. CASE /\ thread[t].at \in {"loaded", "reloaded"}
               /\ thread' = [thread EXCEPT ![t] =
                    [@ EXCEPT !.at = "unapplied", !.tried = desired.gen]]
      BY <3>3, Fields DEF Backs, Refreshing, IInv, TypeOK, ThreadsOK
    <3> QED
      BY <1>9, <3>1, <3>2, <3>3 DEF Reapply
  <2> QED
    BY <1>9, <2>1, Aside DEF Reapply, refresh, IInv, TypeOK
<1>10. CASE Publish
  BY <1>10
  DEF Publish, IInv, TypeOK, Backs, Refreshing, OneRefresher, refresh
<1>11. ASSUME NEW t \in Threads,
          Inject(t) \/ Rebroadcast(t) \/ TryReconcile(t) \/ NoChange(t) \/
          Defer(t) \/ Busy(t) \/ Settle(t) \/ Restore(t) \/ Finish(t) \/
          Unavailable(t) \/ LeaveAlone(t) \/ BootInject(t) \/ Arm(t) \/
          Reconcile(t) \/ Notify(t) \/ Notified(t)
   PROVE  OneRefresher'
  <2>1. executing' = executing
    BY <1>11
    DEF Inject, Rebroadcast, TryReconcile, NoChange, Defer, Busy, Settle,
        Restore, Finish, Unavailable, LeaveAlone, BootInject, Arm, Reconcile,
        Notify, Notified, refresh, Untouched
  <2>2. /\ \A u \in Threads : u # t => thread'[u] = thread[u]
        /\ Refreshing(t)' <=> Refreshing(t)
    BY <1>11, Effects, Fields
    DEF Inject, Rebroadcast, TryReconcile, NoChange, Defer, Busy, Settle,
        Restore, Finish, Unavailable, LeaveAlone, BootInject, Arm, Reconcile,
        Notify, Notified, At, Places, Backs, Refreshing, IInv, TypeOK
  <2> QED
    BY <2>1, <2>2, Aside DEF IInv, TypeOK
<1>12. CASE UNCHANGED vars
  BY <1>12
  DEF vars, IInv, TypeOK, Backs, Refreshing, OneRefresher, refresh
<1> QED
  BY <1>1, <1>2, <1>3, <1>4, <1>5, <1>6, <1>7, <1>8, <1>9, <1>10, <1>11, <1>12
  DEF Next, Continue, Threads

\* A snapshot adds and requests what it holds.
LEMMA OrderedStep ==
  ASSUME PackageAssumption, IInv, [Next]_vars
  PROVE  Ordered'
<1>1. CASE Publish
  <2>1. newest'.added \subseteq newest'.ids /\ newest'.requests \subseteq newest'.ids
    <3>1. PICK ids \in SUBSET Apps : \E order \in Orders(ids \ newest.ids) :
            newest' = [gen |-> newest.gen + 1, ids |-> ids,
                       added |-> order.added, requests |-> order.requests,
                       complete |-> order.complete]
      BY <1>1 DEF Publish
    <3>2. \A new : \A order \in Orders(new) :
            order.added \subseteq new /\ order.requests \subseteq new
      BY DEF Orders
    <3> QED
      BY <3>1, <3>2
  <2> QED
    BY <1>1, <2>1 DEF Publish, IInv, Ordered
<1>2. ASSUME NEW t \in Threads, Sync(t) PROVE Ordered'
  BY <1>2
  DEF Sync, IInv, Ordered, commands, Untouched
<1>3. ASSUME NEW t \in Threads, Inject(t) PROVE Ordered'
  BY <1>3
  DEF Inject, IInv, Ordered, commands, Untouched
<1>4. ASSUME NEW t \in Threads, Rebroadcast(t) PROVE Ordered'
  BY <1>4
  DEF Rebroadcast, IInv, Ordered, commands, Untouched
<1>5. ASSUME NEW t \in Threads,
          Reprocess(t) \/ TryReconcile(t) \/ Load(t) \/ NoChange(t) \/
          Defer(t) \/ Busy(t) \/ Mark(t) \/ Process(t) \/ Settle(t) \/
          Leave(t) \/ Restore(t) \/ Deferred(t) \/ Reserve(t) \/
          Finish(t) \/ Reapply(t) \/ Unavailable(t) \/ LeaveAlone(t) \/
          BootInject(t) \/ Arm(t) \/ Reconcile(t) \/ Notify(t) \/
          Notified(t)
   PROVE  Ordered'
  BY <1>5
  DEF Reprocess, TryReconcile, Load, NoChange, Defer, Busy, Mark, Process,
      Settle, Leave, Restore, Deferred, Reserve, Finish, Reapply, Unavailable,
      LeaveAlone, BootInject, Arm, Reconcile, Notify, Notified, IInv, Ordered,
      commands, Untouched
<1>6. CASE UNCHANGED vars
  BY <1>6
  DEF vars, IInv, Ordered, commands
<1> QED
  BY <1>1, <1>2, <1>3, <1>4, <1>5, <1>6
  DEF Next, Continue, Threads

\* A thread goes on with the work it has, or is done with it.
GoesOn(t) ==
  /\ \A u \in Threads : u # t => thread'[u] = thread[u]
  /\ \/ thread'[t] = Idle
     \/ /\ thread'[t].at # "idle" /\ thread'[t].gen = thread[t].gen
        /\ thread'[t].added = thread[t].added

LEMMA StillBehind ==
  ASSUME PackageAssumption, PackageOK, ThreadsOK, Behind, NEW t \in Threads,
         GoesOn(t), desired' = desired,
         processed' = processed \/ processed' = Larger(processed, thread[t].gen),
         owed' \subseteq owed, asked' \subseteq asked
  PROVE  Behind'
<1>1. desired.gen \in Generations /\ processed \in Generations
  BY DEF PackageOK, Snapshot
<1>2. processed' <= desired'.gen
  BY <1>1 DEF Behind, Larger
<1>3. Idle.gen = 0 /\ Idle.at = "idle" /\ 0 <= desired.gen
  BY <1>1 DEF Idle, Generations
<1>4. ASSUME NEW u \in Threads
      PROVE  /\ thread'[u].gen <= desired'.gen
             /\ thread'[u].gen = desired'.gen /\ thread'[u].gen # 0 =>
                  thread'[u].added = desired'.added
             /\ thread'[u].at = "idle" => thread'[u].gen = 0
  BY <1>3 DEF Behind, GoesOn
<1> QED
  BY <1>2, <1>4 DEF Behind

\* What may touch the work of a thread, but for snapshots that are applied.
LEMMA Continues ==
  ASSUME PackageAssumption, IInv, NEW t \in Threads,
         Load(t) \/ Deferred(t) \/ Reserve(t) \/ Inject(t) \/ Rebroadcast(t) \/
         TryReconcile(t) \/ NoChange(t) \/ Defer(t) \/ Busy(t) \/ Mark(t) \/
         Process(t) \/ Settle(t) \/ Leave(t) \/ Restore(t) \/ Finish(t) \/
         Unavailable(t) \/ LeaveAlone(t) \/ BootInject(t) \/ Arm(t) \/
         Reconcile(t) \/ Notify(t) \/ Notified(t)
  PROVE  GoesOn(t) \/ thread' = thread
<1>1. ASSUME NEW place \in Places \ {"idle"}, Goto(t, place) PROVE GoesOn(t)
  BY <1>1, Effects DEF GoesOn, IInv, TypeOK
<1>2. Return(t) => GoesOn(t)
  BY Effects DEF GoesOn, IInv, TypeOK
<1>3. Back(t) => GoesOn(t)
  BY Effects DEF GoesOn, IInv, TypeOK
<1>4. CASE Load(t)
  <2>1. CASE thread' = [thread EXCEPT ![t] =
               [@ EXCEPT !.at = "reloaded", !.back = thread[t].at]]
    BY <2>1 DEF GoesOn, IInv, TypeOK, ThreadsOK, Locals
  <2> QED
    BY <1>1, <1>4, <2>1 DEF Load, Places
<1>5. CASE Deferred(t)
  <2>1. CASE thread' = [thread EXCEPT ![t] =
               [@ EXCEPT !.at = "force", !.back = "request"]]
    BY <2>1 DEF GoesOn, IInv, TypeOK, ThreadsOK, Locals
  <2> QED
    BY <1>1, <1>5, <2>1 DEF Deferred, Places
<1>6. CASE Reserve(t)
  <2>1. CASE \E ids : thread' = [thread EXCEPT ![t] =
               [@ EXCEPT !.at = "asking", !.requests = ids]]
    BY <2>1 DEF GoesOn, IInv, TypeOK, ThreadsOK, Locals
  <2> QED
    BY <1>2, <1>6, <2>1 DEF Reserve
<1>7. CASE Inject(t) \/ Rebroadcast(t) \/ TryReconcile(t) \/ NoChange(t) \/
           Defer(t) \/ Busy(t) \/ Mark(t) \/ Process(t) \/ Settle(t) \/
           Leave(t) \/ Restore(t) \/ Finish(t) \/ Unavailable(t) \/
           LeaveAlone(t) \/ BootInject(t) \/ Arm(t) \/ Reconcile(t) \/
           Notify(t) \/ Notified(t)
  BY <1>1, <1>2, <1>3, <1>7
  DEF Inject, Rebroadcast, TryReconcile, NoChange, Defer, Busy, Mark, Process,
      Settle, Leave, Restore, Finish, Unavailable, LeaveAlone, BootInject, Arm,
      Reconcile, Notify, Notified, Places
<1> QED
  BY <1>4, <1>5, <1>6, <1>7

\* Nobody gets ahead of the desired snapshot.
LEMMA BehindStep ==
  ASSUME PackageAssumption, IInv, [Next]_vars
  PROVE  Behind'
<1>1. ASSUME NEW t \in Threads, Sync(t) PROVE Behind'
  <2>1. PICK s \in waiting :
          \/ UNCHANGED <<desired, processed, owed, asked, thread>>
          \/ /\ s.gen > desired.gen /\ desired' = Carried(s)
             /\ owed' \subseteq owed \cup {s.gen} \X s.added
             /\ asked' \subseteq asked \cup {s.gen} \X s.requests
             /\ TakeWork(t, desired', FALSE) \/ thread' = thread
             /\ processed' = processed
    BY <1>1 DEF Sync, snapshot, refresh, history
  <2>2. CASE UNCHANGED <<desired, processed, owed, asked, thread>>
    BY <2>2 DEF IInv, Behind
  <2>3. CASE desired' = Carried(s) /\ s.gen > desired.gen /\ processed' = processed
    <3>1. /\ s \in Snapshot /\ desired \in Snapshot /\ processed \in Generations
      BY DEF IInv, TypeOK, CommandsOK, PackageOK
    <3>2. desired'.gen = s.gen
      BY <2>3, <3>1, Carrying
    <3>3. processed' <= desired'.gen
      BY <2>3, <3>1, <3>2 DEF IInv, Behind, Snapshot, Generations
    <3>4. ASSUME NEW u \in Threads, thread'[u] = thread[u]
          PROVE  /\ thread'[u].gen < desired'.gen
                 /\ thread'[u].at = "idle" => thread'[u].gen = 0
      BY <2>3, <3>1, <3>2, <3>4, Fields
      DEF IInv, TypeOK, Behind, Snapshot, Generations
    <3>6. ASSUME NEW u \in Threads
          PROVE  /\ thread'[u].gen <= desired'.gen
                 /\ thread'[u].gen = desired'.gen /\ thread'[u].gen # 0 =>
                      thread'[u].added = desired'.added
                 /\ thread'[u].at = "idle" => thread'[u].gen = 0
      <4>1. CASE thread'[u] = thread[u]
        BY <3>1, <3>2, <3>4, <4>1, Fields
        DEF IInv, TypeOK, Snapshot, Generations
      <4>2. CASE u = t /\ TakeWork(t, desired', FALSE)
        <5>1. /\ thread'[t].gen = desired'.gen /\ thread'[t].added = desired'.added
              /\ thread'[t].at = "refresh"
          BY <4>2, Effects DEF IInv, TypeOK
        <5>2. desired'.gen <= desired'.gen
          BY <3>1, <3>2 DEF Snapshot, Generations
        <5> QED
          BY <4>2, <5>1, <5>2
      <4>3. TakeWork(t, desired', FALSE) \/ thread' = thread
        BY <2>1, <2>3, <3>1, <3>2 DEF Snapshot, Generations
      <4>4. u # t /\ TakeWork(t, desired', FALSE) => thread'[u] = thread[u]
        BY Effects DEF IInv, TypeOK
      <4> QED
        BY <4>1, <4>2, <4>3, <4>4
    <3>7. \A o \in owed' \cup asked' : 0 < o[1] /\ o[1] <= desired'.gen
      <4>1. \A o \in owed \cup asked : o[1] \in Generations
        BY DEF IInv, TypeOK, CommandsOK, Jobs
      <4>2. 0 < s.gen
        BY <2>3, <3>1 DEF Snapshot, Generations
      <4>3. /\ owed' \subseteq owed \cup {s.gen} \X s.added
            /\ asked' \subseteq asked \cup {s.gen} \X s.requests
        BY <2>1, <2>3, <3>1 DEF Snapshot, Generations
      <4>4. ASSUME NEW o \in owed \cup asked PROVE 0 < o[1] /\ o[1] <= s.gen
        BY <2>3, <3>1, <4>1 DEF IInv, Behind, Snapshot, Generations
      <4>5. ASSUME NEW o \in {s.gen} \X s.added \cup {s.gen} \X s.requests
            PROVE  0 < o[1] /\ o[1] <= s.gen
        BY <3>1, <4>2 DEF Snapshot, Generations
      <4> QED
        BY <3>2, <4>3, <4>4, <4>5
    <3> QED
      BY <3>3, <3>6, <3>7 DEF Behind
  <2> QED
    BY <2>1, <2>2, <2>3
<1>2. ASSUME NEW t \in Threads, Reprocess(t) PROVE Behind'
  <2>1. thread'[t].gen = desired.gen /\ thread'[t].added = desired.added
        /\ thread'[t].at = "refresh"
        /\ \A u \in Threads : u # t => thread'[u] = thread[u]
    BY <1>2 DEF Reprocess, IInv, TypeOK, ThreadsOK, Locals
  <2>2. UNCHANGED <<desired, processed, owed, asked>>
    BY <1>2 DEF Reprocess, snapshot, history
  <2>3. desired.gen <= desired.gen
    BY DEF IInv, TypeOK, PackageOK, Snapshot, Generations
  <2> QED
    BY <2>1, <2>2, <2>3 DEF IInv, Behind
<1>3. ASSUME NEW t \in Threads, Reapply(t) PROVE Behind'
  <2>1. UNCHANGED <<desired, processed, owed, asked>>
    BY <1>3 DEF Reapply
  <2>2. CASE TakeWork(t, desired, processed = 0)
    <3>1. /\ thread'[t].gen = desired.gen /\ thread'[t].added = desired.added
          /\ thread'[t].at = "refresh"
          /\ \A u \in Threads : u # t => thread'[u] = thread[u]
      BY <2>2, Effects DEF IInv, TypeOK
    <3>2. desired.gen <= desired.gen
      BY DEF IInv, TypeOK, PackageOK, Snapshot, Generations
    <3> QED
      BY <2>1, <3>1, <3>2 DEF IInv, Behind
  <2>3. CASE Back(t)
    <3>1. GoesOn(t)
      BY <2>3, Effects DEF GoesOn, IInv, TypeOK
    <3> QED
      BY <2>1, <3>1, StillBehind DEF IInv, TypeOK
  <2>4. CASE thread' = [thread EXCEPT ![t] =
               [@ EXCEPT !.at = "unapplied", !.tried = desired.gen]]
    <3>1. GoesOn(t)
      BY <2>4 DEF GoesOn, IInv, TypeOK, ThreadsOK, Locals
    <3> QED
      BY <2>1, <3>1, StillBehind DEF IInv, TypeOK
  <2> QED
    BY <1>3, <2>2, <2>3, <2>4 DEF Reapply
<1>4. CASE Publish
  BY <1>4
  DEF Publish, IInv, Behind, snapshot, refresh, history
<1>5. ASSUME NEW t \in Threads,
          Inject(t) \/ Rebroadcast(t) \/ TryReconcile(t) \/ Load(t) \/
          NoChange(t) \/ Defer(t) \/ Busy(t) \/ Mark(t) \/ Process(t) \/
          Settle(t) \/ Leave(t) \/ Restore(t) \/ Deferred(t) \/
          Reserve(t) \/ Finish(t) \/ Unavailable(t) \/ LeaveAlone(t) \/
          BootInject(t) \/ Arm(t) \/ Reconcile(t) \/ Notify(t) \/
          Notified(t)
   PROVE  Behind'
  <2>1. GoesOn(t) \/ thread' = thread
    BY <1>5, Continues
  <2>2. /\ desired' = desired /\ owed' \subseteq owed /\ asked' \subseteq asked
        /\ processed' = processed \/ processed' = Larger(processed, thread[t].gen)
    BY <1>5
    DEF Inject, Rebroadcast, TryReconcile, Load, NoChange, Defer, Busy, Mark,
        Process, Settle, Leave, Restore, Deferred, Reserve, Finish,
        Unavailable, LeaveAlone, BootInject, Arm, Reconcile, Notify, Notified,
        Settled, snapshot, refresh, history, Untouched
  <2>3. CASE thread' = thread
    <3>1. processed' <= desired.gen
      BY <2>2 DEF Larger, IInv, Behind
    <3> QED
      BY <2>2, <2>3, <3>1 DEF IInv, Behind
  <2> QED
    BY <2>1, <2>2, <2>3, StillBehind DEF IInv, TypeOK
<1>6. CASE UNCHANGED vars
  BY <1>6
  DEF vars, IInv, Behind, snapshot, refresh, history
<1> QED
  BY <1>1, <1>2, <1>3, <1>4, <1>5, <1>6
  DEF Next, Continue, Threads

\* What is to be restored stays with the desired snapshot or with its thread
\* while neither is touched.
LEMMA StillRestoring ==
  ASSUME PackageAssumption, Restoring, NEW t \in Threads,
         thread[t].at \notin {"leaving", "restore"} \/ thread' = thread,
         \A u \in Threads : u # t => thread'[u] = thread[u],
         desired' = desired, processed' = processed, owed' \subseteq owed
  PROVE  Restoring'
  BY DEF Restoring, Holds

\* A thread that has had its generation processed restores what it added.
LEMMA NowRestoring ==
  ASSUME PackageAssumption, IInv, NEW t \in Threads,
         thread[t].at \in {"refresh", "read"},
         NEW place \in {"restore", "leaving"}, Goto(t, place),
         Settled(thread[t].gen), desired' = desired, owed' = owed
  PROVE  Restoring'
<1>1. /\ thread'[t].at = place
      /\ thread'[t].gen = thread[t].gen /\ thread'[t].added = thread[t].added
      /\ \A u \in Threads : u # t => thread'[u] = thread[u]
  BY Effects DEF IInv, TypeOK, Places
<1>2. /\ processed \in Generations /\ thread[t].gen \in Generations
      /\ desired.gen \in Generations
  BY Fields DEF IInv, TypeOK, PackageOK, Snapshot
<1>3. ASSUME NEW o \in owed
      PROVE  \/ o[2] \in desired'.added /\ processed' < desired'.gen
             \/ \E u \in Threads : Holds(u, o)'
  <2>1. CASE \E u \in Threads : Holds(u, o)
    BY <1>1, <2>1 DEF Holds
  <2>2. CASE /\ o[2] \in desired.added /\ processed < desired.gen
             /\ thread[t].gen # desired.gen
    <3>1. processed' < desired.gen
      BY <1>2, <2>2 DEF Settled, Larger, IInv, Behind, Generations
    <3> QED
      BY <2>2, <3>1
  <2>3. CASE o[2] \in desired.added /\ thread[t].gen = desired.gen
    <3>1. 0 < o[1] /\ o[1] <= desired.gen /\ o[1] \in Generations
      BY DEF IInv, Behind, TypeOK, CommandsOK, Jobs
    <3>2. thread[t].gen # 0
      BY <1>2, <2>3, <3>1 DEF Generations
    <3>3. thread[t].added = desired.added
      BY <2>3, <3>2 DEF IInv, Behind
    <3>4. Holds(t, o)'
      BY <1>1, <2>3, <3>1, <3>3 DEF Holds
    <3> QED
      BY <3>4
  <2> QED
    BY <2>1, <2>2, <2>3 DEF IInv, Restoring
<1> QED
  BY <1>3 DEF Restoring

\* Nothing that is to be restored is forgotten.
LEMMA RestoringStep ==
  ASSUME PackageAssumption, IInv, [Next]_vars
  PROVE  Restoring'
<1>1. ASSUME NEW t \in Threads, Sync(t) PROVE Restoring'
  <2>1. PICK s \in waiting :
          \/ UNCHANGED <<desired, processed, owed, thread>>
          \/ /\ s.gen > desired.gen /\ desired' = Carried(s)
             /\ owed' = {o \in owed : o[2] \in s.ids} \cup {s.gen} \X s.added
             /\ TakeWork(t, desired', FALSE) \/ thread' = thread
             /\ processed' = processed
    BY <1>1 DEF Sync, snapshot, refresh, history
  <2>2. CASE UNCHANGED <<desired, processed, owed, thread>>
    BY <2>2 DEF IInv, Restoring, Holds
  <2>3. CASE /\ s.gen > desired.gen /\ desired' = Carried(s)
             /\ owed' = {o \in owed : o[2] \in s.ids} \cup {s.gen} \X s.added
             /\ TakeWork(t, desired', FALSE) \/ thread' = thread
             /\ processed' = processed
    <3>1. /\ s \in Snapshot /\ desired \in Snapshot /\ processed \in Generations
      BY DEF IInv, TypeOK, CommandsOK, PackageOK
    <3>2. /\ desired'.gen = s.gen
          /\ desired'.added = IF processed >= desired.gen THEN s.added
                              ELSE (s.added \cup desired.added) \cap s.ids
      BY <2>3, <3>1, Carrying
    <3>3. processed' < desired'.gen /\ s.added \subseteq s.ids
      BY <2>3, <3>1, <3>2 DEF IInv, Behind, Ordered, Snapshot, Generations
    <3>4. s.added \subseteq desired'.added
      BY <3>2, <3>3
    <3>5. \A u \in Threads : thread[u].at \in {"leaving", "restore"} =>
            thread'[u] = thread[u]
      BY <1>1, <2>3, Effects DEF Sync, At, IInv, TypeOK
    <3>6. ASSUME NEW o \in owed, o[2] \in s.ids
          PROVE  \/ o[2] \in desired'.added
                 \/ \E u \in Threads : Holds(u, o)'
      <4>1. CASE \E u \in Threads : Holds(u, o)
        BY <3>5, <4>1 DEF Holds
      <4>2. CASE o[2] \in desired.added /\ processed < desired.gen
        BY <3>1, <3>2, <3>6, <4>2 DEF Snapshot, Generations
      <4> QED
        BY <4>1, <4>2 DEF IInv, Restoring
    <3>7. \A o \in {s.gen} \X s.added : o[2] \in desired'.added
      BY <3>4
    <3> QED
      BY <2>3, <3>3, <3>6, <3>7 DEF Restoring
  <2> QED
    BY <2>1, <2>2, <2>3
<1>2. ASSUME NEW t \in Threads, Reprocess(t) \/ Reapply(t) PROVE Restoring'
  <2>1. /\ UNCHANGED <<desired, processed, owed>>
        /\ thread[t].at \notin {"leaving", "restore"}
    BY <1>2 DEF Reprocess, Reapply, At, snapshot, history
  <2>2. \A u \in Threads : u # t => thread'[u] = thread[u]
    BY <1>2, Effects DEF Reprocess, Reapply, IInv, TypeOK, ThreadsOK
  <2> QED
    BY <2>1, <2>2, StillRestoring DEF IInv
<1>3. ASSUME NEW t \in Threads, NoChange(t) PROVE Restoring'
  BY <1>3, NowRestoring DEF NoChange, At, Untouched, snapshot, history
<1>4. ASSUME NEW t \in Threads, Settle(t) PROVE Restoring'
  BY <1>4, NowRestoring DEF Settle, At, Untouched, snapshot, history
<1>5. ASSUME NEW t \in Threads, Leave(t) PROVE Restoring'
  <2>1. /\ thread'[t].at = "restore" /\ thread'[t].gen = thread[t].gen
        /\ thread'[t].added = thread[t].added
        /\ \A u \in Threads : u # t => thread'[u] = thread[u]
    BY <1>5, Effects DEF Leave, Places, IInv, TypeOK
  <2>2. UNCHANGED <<desired, processed, owed>>
    BY <1>5 DEF Leave, Untouched, snapshot, history
  <2> QED
    BY <2>1, <2>2 DEF IInv, Restoring, Holds
<1>6. ASSUME NEW t \in Threads, Restore(t) PROVE Restoring'
  <2>1. \A u \in Threads : u # t => thread'[u] = thread[u]
    BY <1>6, Effects DEF Restore, Places, IInv, TypeOK
  <2>2. /\ UNCHANGED <<desired, processed>> /\ owed' \subseteq owed
        /\ \A o \in owed' : ~Holds(t, o)
    BY <1>6 DEF Restore, Holds, Untouched, snapshot, refresh
  <2> QED
    BY <2>1, <2>2 DEF IInv, Restoring, Holds
<1>7. CASE Publish
  BY <1>7 DEF Publish, IInv, Restoring, Holds, snapshot, refresh, history
<1>8. ASSUME NEW t \in Threads,
          Inject(t) \/ Rebroadcast(t) \/ TryReconcile(t) \/ Load(t) \/
          Defer(t) \/ Busy(t) \/ Mark(t) \/ Process(t) \/ Deferred(t) \/
          Reserve(t) \/ Finish(t) \/ Unavailable(t) \/ LeaveAlone(t) \/
          BootInject(t) \/ Arm(t) \/ Reconcile(t) \/ Notify(t) \/
          Notified(t)
   PROVE  Restoring'
  <2>1. GoesOn(t) \/ thread' = thread
    BY <1>8, Continues
  <2>2. UNCHANGED <<desired, processed, owed>>
    BY <1>8
    DEF Inject, Rebroadcast, TryReconcile, Load, Defer, Busy, Mark, Process,
        Deferred, Reserve, Finish, Unavailable, LeaveAlone, BootInject, Arm,
        Reconcile, Notify, Notified, snapshot, refresh, history, Untouched
  <2>3. thread[t].at \notin {"leaving", "restore"}
    BY <1>8
    DEF Inject, Rebroadcast, TryReconcile, Load, Defer, Busy, Mark, Process,
        Deferred, Reserve, Finish, Unavailable, LeaveAlone, BootInject, Arm,
        Reconcile, Notify, Notified, At
  <2> QED
    BY <2>1, <2>2, <2>3, StillRestoring DEF IInv, GoesOn
<1>9. CASE UNCHANGED vars
  BY <1>9 DEF vars, IInv, Restoring, Holds, snapshot, refresh, history
<1> QED
  BY <1>1, <1>2, <1>3, <1>4, <1>5, <1>6, <1>7, <1>8, <1>9
  DEF Next, Continue, Threads

\* Accepting adds to the generation that was asked for, and to no other.
LEMMA Accepting ==
  ASSUME PackageAssumption, InfoOK, NEW gen \in Generations, NEW ids
  PROVE  \A g \in Generations :
           AcceptedWith(gen, ids)[g] \subseteq
             info.accepted[g] \cup (IF g = gen THEN ids ELSE {})
  BY DEF AcceptedWith, Pruned, InfoOK

\* What the client is to be asked for stays while no more is accepted.
LEMMA StillRequesting ==
  ASSUME Requesting, desired \in Snapshot, desired' = desired, asked' \subseteq asked,
         \A g \in Generations : info'.accepted[g] \subseteq info.accepted[g]
  PROVE  Requesting'
  BY DEF Requesting, Snapshot

\* Nothing the client is to be asked for is forgotten.
LEMMA RequestingStep ==
  ASSUME PackageAssumption, IInv, [Next]_vars
  PROVE  Requesting'
<1>0. desired \in Snapshot /\ desired.gen \in Generations
  BY DEF IInv, TypeOK, PackageOK, Snapshot
<1>1. ASSUME NEW t \in Threads, Sync(t) PROVE Requesting'
  <2>1. PICK s \in waiting :
          \/ UNCHANGED <<desired, asked>>
          \/ /\ s.gen > desired.gen /\ desired' = Carried(s)
             /\ asked' = {o \in asked : o[2] \in s.ids} \cup {s.gen} \X s.requests
    BY <1>1 DEF Sync, snapshot, history
  <2>2. info' = info
    BY <1>1 DEF Sync
  <2>3. CASE UNCHANGED <<desired, asked>>
    BY <1>0, <2>2, <2>3, StillRequesting DEF IInv
  <2>4. CASE /\ s.gen > desired.gen /\ desired' = Carried(s)
             /\ asked' = {o \in asked : o[2] \in s.ids} \cup {s.gen} \X s.requests
    <3>1. s \in Snapshot /\ s.requests \subseteq s.ids
      BY DEF IInv, TypeOK, CommandsOK, Ordered
    <3>2. /\ desired'.gen = s.gen
          /\ desired'.requests = IF AllAccepted(desired) THEN s.requests
                                 ELSE (s.requests \cup desired.requests) \cap s.ids
      BY <1>0, <2>4, <3>1, Carrying
    <3>3. \A g \in Generations : g > desired'.gen => info.accepted[g] = {}
      BY <1>0, <2>4, <3>1, <3>2 DEF IInv, Requesting, Snapshot, Generations
    <3>4. info.accepted[desired'.gen] = {}
      BY <2>4, <3>1, <3>2 DEF IInv, Requesting, Snapshot
    <3>5. ASSUME NEW o \in asked, o[2] \in s.ids PROVE o[2] \in desired'.requests
      <4>1. o[2] \in desired.requests /\ ~AllAccepted(desired)
        BY DEF IInv, Requesting, AllAccepted
      <4> QED
        BY <3>2, <3>5, <4>1
    <3>6. \A o \in {s.gen} \X s.requests : o[2] \in desired'.requests
      BY <3>1, <3>2
    <3> QED
      BY <2>2, <2>4, <3>3, <3>4, <3>5, <3>6 DEF Requesting
  <2> QED
    BY <2>1, <2>3, <2>4
<1>2. ASSUME NEW t \in Threads, Reserve(t) PROVE Requesting'
  <2>1. \A g \in Generations : info'.accepted[g] \subseteq info.accepted[g]
    BY <1>2 DEF Reserve, Pruned, IInv, TypeOK, InfoOK
  <2> QED
    BY <1>0, <1>2, <2>1, StillRequesting
    DEF Reserve, IInv, Untouched, snapshot, history
<1>3. ASSUME NEW t \in Threads, Finish(t) PROVE Requesting'
  <2>1. CASE info'.accepted = info.accepted /\ asked' = asked
    BY <1>0, <1>3, <2>1, StillRequesting DEF Finish, IInv, Untouched, snapshot
  <2>2. CASE /\ info'.accepted = AcceptedWith(thread[t].gen, thread[t].requests)
             /\ asked' = {o \in asked : ~(/\ o[1] <= thread[t].gen
                                         /\ o[2] \in thread[t].requests)}
    <3>1. /\ thread[t].gen \in Generations /\ thread[t].gen <= desired.gen
          /\ desired' = desired
      BY <1>3, Fields DEF Finish, Untouched, snapshot, IInv, TypeOK, Behind
    <3>2. ASSUME NEW g \in Generations, g > desired.gen
          PROVE  info'.accepted[g] = {}
      BY <1>0, <2>2, <3>1, <3>2, Accepting
      DEF IInv, TypeOK, Requesting, Generations
    <3>3. ASSUME NEW o \in asked'
          PROVE  /\ o[2] \in desired.requests
                 /\ o[2] \notin info'.accepted[desired.gen]
      <4>1. /\ o[2] \in desired.requests /\ o[2] \notin info.accepted[desired.gen]
            /\ o[1] <= desired.gen
        BY <2>2 DEF IInv, Requesting, Behind
      <4>2. thread[t].gen = desired.gen => o[2] \notin thread[t].requests
        BY <2>2, <4>1
      <4> QED
        BY <1>0, <2>2, <3>1, <4>1, <4>2, Accepting DEF IInv, TypeOK
    <3> QED
      BY <3>1, <3>2, <3>3 DEF Requesting
  <2> QED
    BY <1>3, <2>1, <2>2 DEF Finish, IInv, TypeOK, InfoOK
<1>4. ASSUME NEW t \in Threads,
          Reprocess(t) \/ Reapply(t) \/ Inject(t) \/ Rebroadcast(t) \/
          TryReconcile(t) \/ Load(t) \/ NoChange(t) \/ Defer(t) \/ Busy(t) \/
          Mark(t) \/ Process(t) \/ Settle(t) \/ Leave(t) \/ Restore(t) \/
          Deferred(t) \/ Unavailable(t) \/ LeaveAlone(t) \/ BootInject(t) \/
          Arm(t) \/ Reconcile(t) \/ Notify(t) \/ Notified(t)
   PROVE  Requesting'
  <2>1. UNCHANGED <<desired, asked, info>>
    BY <1>4
    DEF Reprocess, Reapply, Inject, Rebroadcast, TryReconcile, Load, NoChange,
        Defer, Busy, Mark, Process, Settle, Leave, Restore, Deferred,
        Unavailable, LeaveAlone, BootInject, Arm, Reconcile, Notify, Notified,
        snapshot, history, Untouched
  <2> QED
    BY <1>0, <2>1, StillRequesting DEF IInv
<1>5. CASE Publish
  BY <1>5 DEF Publish, IInv, Requesting, snapshot, history
<1>6. CASE UNCHANGED vars
  BY <1>6 DEF vars, IInv, Requesting, snapshot, history
<1> QED
  BY <1>1, <1>2, <1>3, <1>4, <1>5, <1>6
  DEF Next, Continue, Threads

\* The invariant holds at the start.
LEMMA Starts ==
  ASSUME PackageAssumption, Init
  PROVE  IInv
<1>1. 0 \in Generations /\ NoSnapshot \in Snapshot /\ Idle \in Locals
  BY DEF PackageAssumption, Generations, NoSnapshot, Snapshot, Idle, Locals,
         Places
<1>2. PackageOK
  BY <1>1 DEF Init, PackageOK
<1>3. InfoOK
  BY <1>1 DEF Init, InfoOK, Jobs
<1>4. CommandsOK
  BY <1>1 DEF Init, CommandsOK, PackageAssumption
<1>5. ThreadsOK
  BY <1>1 DEF Init, ThreadsOK
<1>6. \A t \in Threads : /\ thread[t].at = "idle" /\ thread[t].back = "idle"
                        /\ thread[t].gen = 0
  BY DEF Init, Idle
<1>7. OneRefresher /\ Backs
  BY <1>6 DEF Init, OneRefresher, Backs, Refreshing
<1>8. Origins
  BY DEF Init, Origins
<1>9. Ordered /\ Restoring
  BY DEF Init, Ordered, Restoring
<1>10. Behind
  BY <1>6 DEF Init, Behind, NoSnapshot
<1>11. Requesting
  BY DEF Init, Requesting
<1> QED
  BY <1>2, <1>3, <1>4, <1>5, <1>7, <1>8, <1>9, <1>10, <1>11
  DEF IInv, TypeOK

\* The invariant of the specification.
THEOREM Invariant == Spec => []IInv
<1>1. Init => IInv
  BY Starts, PackageAssumption
<1>2. IInv /\ [Next]_vars => IInv'
  BY PackageAssumption, PackageStep, InfoStep, CommandsStep, ThreadsStep,
     OneRefresherStep, BacksStep, OriginsStep, OrderedStep, BehindStep, RestoringStep,
     RequestingStep
  DEF IInv, TypeOK
<1> QED
  BY <1>1, <1>2, PTL DEF Spec

\* For any apps, threads, faults and bounds: the variables keep their types,
\* and one thread at a time is in the client's refresh of its licenses
\* (g_runtimeRefreshExecuting).
THEOREM TypesHold == Spec => []TypeOK
<1>1. IInv => TypeOK
  BY DEF IInv
<1> QED
  BY <1>1, Invariant, PTL

\* For any apps, threads, faults, bounds and loads: what is in package 0 and
\* did not come with the last load is known as the plugin's and can be taken
\* out again (buildNextSeeded, appendToVecLocked).
Removable == status # "none" => live \ native \subseteq seeded

THEOREM RemovableHolds == Spec => []Removable
<1>1. IInv => Removable
  BY DEF IInv, Origins, Removable
<1> QED
  BY <1>1, Invariant, PTL

\* For any apps, threads, faults and bounds, when the client has the same
\* managed ids at every load: what it put into package 0 is never taken out and
\* is never taken for the plugin's, and what the plugin put there is known as
\* its own (compactInjected, buildNextSeeded, appendToVecLocked).
THEOREM ProvenanceHolds == SteadyContents => (Spec => []Provenance)
<1> SUFFICES ASSUME SteadyContents PROVE Spec => []Provenance
  OBVIOUS
<1>1. Init => Apart
  BY DEF Init, Apart
<1>2. IInv /\ Apart /\ [Next]_vars => Apart'
  BY ApartStep
<1>3. IInv /\ Apart => Provenance
  BY DEF IInv, Origins, Apart, Provenance
<1> QED
  BY <1>1, <1>2, <1>3, Invariant, PTL DEF Spec

\* For any apps, threads, faults and bounds: what a snapshot orders to restore
\* or to request is carried from snapshot to snapshot until it has been done
\* (carryPendingSnapshotWork).
THEOREM WorkIsKeptHolds == Spec => []WorkIsKept
<1>1. IInv => WorkIsKept
  BY DEF IInv, Restoring, Requesting, WorkIsKept, Holds
<1> QED
  BY <1>1, Invariant, PTL

=============================================================================
