--------------------------- MODULE HotReloadProofs ---------------------------
(***************************************************************************)
(* Proofs about live reconfiguration, for any apps, any config changes and *)
(* any threads besides the five.                                           *)
(*                                                                         *)
(* The threads use the queue as any of its clients may, so what is proved  *)
(* of the queue holds here and every invariant below starts from it.       *)
(* First where the threads stand and which locks that means, then who can  *)
(* wait for whom, then what the snapshots are numbered, prepared and       *)
(* delivered by.                                                           *)
(***************************************************************************)
EXTENDS HotReload, OwnerQueueProofs, FiniteSetTheorems

\* The queue's client is not kept from any submission: whatever snapshot,
\* compatibility step or hot-add a thread may come to submit is in the batches
\* that the queue was specified with.
Unrestricted ==
  /\ \A gen \in Nat : \A ids, added \in SUBSET Apps :
       /\ <<syncPackage0(gen, ids, added)>> \in Batches
       /\ syncPackage0(gen, ids, added) \in NestedCommands
  /\ \A app \in Apps : \A gen \in Nat : <<ensureCompat(app, gen, 0)>> \in Batches
  /\ \A ids \in SUBSET Apps : <<injectPackage0(ids), reconcileLicenses>> \in Batches

-----------------------------------------------------------------------------
(***************************************************************************)
(* Where the threads stand, and what they hold there.                      *)
(***************************************************************************)

Calls == {"boot", "closing", "gone", "idle", "forget", "publish", "handoff",
          "enrich", "coordinate", "validate", "submit"}

\* A thread only makes the calls of its part.
CallOK(t, c, j) ==
  /\ t = Main => /\ c \in {"boot", "submit", "idle", "closing", "gone"}
                 /\ c = "submit" => j.kind = "members"
  /\ t = Watcher => /\ c \in {"idle", "forget", "publish", "submit"}
                    /\ c = "submit" => j.kind = "members"
  /\ t = Worker => /\ c \in {"idle", "handoff", "enrich", "coordinate",
                             "validate", "submit"}
                   /\ c # "idle" => \E app \in Apps : j.app = {app}
                   /\ c \in {"coordinate", "validate"} =>
                        j.kind \in {"base", "metadata"}
                   /\ c = "submit" => j.kind \in {"none", "base", "metadata"}
  /\ t = Picser => /\ c \in {"idle", "submit"}
                   /\ c = "submit" => j.kind = "hotadd"
  /\ t = Owner => /\ c \in {"idle", "coordinate", "validate"}
                  /\ c # "idle" => j.kind = "base"
  /\ t \notin {Main, Watcher, Worker, Picser, Owner} => c = "idle"

Stand == \A t \in Threads : CallOK(t, call[t], job[t])

\* The calls under the coordinator's mutex, and under the pass mutex.
HoldsCoord(c, j) ==
  c = "validate" \/ (c = "submit" /\ j.kind \in {"members", "base", "metadata"})
HoldsPass(c, j) == c = "submit" /\ j.kind \in {"base", "metadata", "hotadd"}

Held ==
  \A t \in Threads : /\ coord = t <=> HoldsCoord(call[t], job[t])
                     /\ pass = t <=> HoldsPass(call[t], job[t])

\* What every later argument starts from.
Base == Ordered /\ HotTypeOK /\ Stand /\ Held

\* A step of one thread's call, with the locks it takes or gives back.
Moves(t, c, j) ==
  /\ t \in Threads /\ c \in Calls /\ j \in Job
  /\ Becomes(t, c, j)
  /\ CallOK(t, c, j)
  /\ coord' = t <=> HoldsCoord(c, j)
  /\ pass' = t <=> HoldsPass(c, j)
  /\ \A u \in Threads : u # t => /\ coord' = u <=> coord = u
                                 /\ pass' = u <=> pass = u

CallsOK == call \in [Threads -> Calls] /\ job \in [Threads -> Job]

LEMMA BecomesFacts ==
  ASSUME CallsOK, NEW t \in Threads, NEW c \in Calls, NEW j \in Job,
         Becomes(t, c, j)
  PROVE  /\ CallsOK'
         /\ call'[t] = c /\ job'[t] = j
         /\ \A u \in Threads : u # t => call'[u] = call[u] /\ job'[u] = job[u]
BY DEF Becomes, CallsOK

LEMMA MovesKeep ==
  ASSUME CallsOK, Stand, Held, NEW t, NEW c, NEW j, Moves(t, c, j)
  PROVE  CallsOK' /\ Stand' /\ Held'
<1>1. /\ t \in Threads /\ CallsOK'
      /\ call'[t] = c /\ job'[t] = j
      /\ \A u \in Threads : u # t => call'[u] = call[u] /\ job'[u] = job[u]
  BY BecomesFacts DEF Moves
<1>2. Stand'
  <2>1. ASSUME NEW u \in Threads PROVE CallOK(u, call'[u], job'[u])
    <3>1. CASE u = t
      BY <1>1, <3>1 DEF Moves
    <3>2. CASE u # t
      BY <1>1, <3>2 DEF Stand
    <3> QED
      BY <3>1, <3>2
  <2> QED
    BY <2>1 DEF Stand, CallOK
<1>3. Held'
  <2>1. ASSUME NEW u \in Threads
        PROVE  /\ coord' = u <=> HoldsCoord(call'[u], job'[u])
               /\ pass' = u <=> HoldsPass(call'[u], job'[u])
    <3>1. CASE u = t
      BY <1>1, <3>1 DEF Moves
    <3>2. CASE u # t
      BY <1>1, <3>2 DEF Moves, Held
    <3> QED
      BY <3>1, <3>2
  <2> QED
    BY <2>1 DEF Held, HoldsCoord, HoldsPass
<1> QED
  BY <1>1, <1>2, <1>3

LEMMA Distinct ==
  /\ Main \in Threads /\ Watcher \in Threads /\ Worker \in Threads
  /\ Picser \in Threads /\ Owner \in Threads
  /\ Main # Watcher /\ Main # Worker /\ Main # Picser /\ Main # Owner
  /\ Watcher # Worker /\ Watcher # Picser /\ Watcher # Owner
  /\ Worker # Picser /\ Worker # Owner /\ Picser # Owner
  /\ NoThread \notin Threads
BY RolesAssumption, ThreadsAssumption

\* Who may be at a place that only some threads come to.
LEMMA WhoStands ==
  ASSUME Stand, NEW t \in Threads
  PROVE  /\ call[t] \in {"coordinate", "validate"} => t \in {Worker, Owner}
         /\ call[t] = "submit" => t \in {Main, Watcher, Worker, Picser}
         /\ call[t] = "submit" /\ job[t].kind = "members" => t \in {Main, Watcher}
         /\ call[t] = "submit" /\ job[t].kind \in {"base", "metadata"} => t = Worker
  BY Distinct DEF Stand, CallOK

\* The jobs that a call starts or goes on with.
LEMMA JobForms ==
  /\ NoJob \in Job
  /\ \A j \in Job : \A kind \in {"none", "base", "metadata"} :
       /\ [j EXCEPT !.kind = kind] \in Job
       /\ [j EXCEPT !.kind = kind].kind = kind
       /\ [j EXCEPT !.kind = kind].app = j.app
       /\ [j EXCEPT !.kind = kind].gen = j.gen
  /\ \A j \in Job : \A ids \in SUBSET Apps :
       /\ [j EXCEPT !.ids = ids] \in Job
       /\ [j EXCEPT !.ids = ids].kind = j.kind
       /\ [j EXCEPT !.ids = ids].ids = ids
       /\ [j EXCEPT !.ids = ids].app = j.app
       /\ [j EXCEPT !.ids = ids].gen = j.gen
  /\ \A j \in Job : \A app \in SUBSET Apps : [j EXCEPT !.app = app] \in Job
  /\ \A app, fetch \in SUBSET Apps :
       [NoJob EXCEPT !.app = app, !.fetch = fetch] \in Job
  /\ [NoJob EXCEPT !.kind = "hotadd"] \in Job
  /\ [NoJob EXCEPT !.kind = "hotadd"].kind = "hotadd"
<1>1. NoJob \in Job
  BY DEF NoJob, Job
<1>2. ASSUME NEW j \in Job, NEW kind \in {"none", "base", "metadata"}
      PROVE  /\ [j EXCEPT !.kind = kind] \in Job
             /\ [j EXCEPT !.kind = kind].kind = kind
             /\ [j EXCEPT !.kind = kind].app = j.app
             /\ [j EXCEPT !.kind = kind].gen = j.gen
  BY DEF Job
<1>3. ASSUME NEW j \in Job, NEW ids \in SUBSET Apps
      PROVE  /\ [j EXCEPT !.ids = ids] \in Job
             /\ [j EXCEPT !.ids = ids].kind = j.kind
             /\ [j EXCEPT !.ids = ids].ids = ids
             /\ [j EXCEPT !.ids = ids].app = j.app
             /\ [j EXCEPT !.ids = ids].gen = j.gen
  BY DEF Job
<1>4. ASSUME NEW j \in Job, NEW app \in SUBSET Apps
      PROVE  [j EXCEPT !.app = app] \in Job
  BY DEF Job
<1>5. ASSUME NEW app \in SUBSET Apps, NEW fetch \in SUBSET Apps
      PROVE  [NoJob EXCEPT !.app = app, !.fetch = fetch] \in Job
  BY DEF NoJob, Job
<1>6. /\ [NoJob EXCEPT !.kind = "hotadd"] \in Job
      /\ [NoJob EXCEPT !.kind = "hotadd"].kind = "hotadd"
  BY DEF NoJob, Job
<1> QED
  BY <1>1, <1>2, <1>3, <1>4, <1>5, <1>6

\* What a publication of the members is about.
MembersJob(members, ids, added, fetch) ==
  [NoJob EXCEPT !.kind = "members", !.members = members, !.ids = ids,
                !.added = added, !.fetch = fetch]

LEMMA MembersForm ==
  ASSUME NEW members \in SUBSET Apps, NEW ids \in SUBSET Apps,
         NEW added \in SUBSET Apps, NEW fetch \in SUBSET Apps
  PROVE  LET j == MembersJob(members, ids, added, fetch) IN
         /\ j \in Job /\ j.kind = "members" /\ j.members = members
         /\ j.ids = ids /\ j.fetch = fetch
  BY DEF MembersJob, NoJob, Job

\* What a publication for one app is about.
AppJob(app, gen) == [NoJob EXCEPT !.kind = "base", !.app = app, !.gen = gen]

LEMMA AppForm ==
  ASSUME NEW app \in SUBSET Apps, NEW gen \in Nat
  PROVE  /\ AppJob(app, gen) \in Job /\ AppJob(app, gen).kind = "base"
         /\ AppJob(app, gen).app = app /\ AppJob(app, gen).gen = gen
  BY DEF AppJob, NoJob, Job

-----------------------------------------------------------------------------
(***************************************************************************)
(* The step of a call that each action makes.                              *)
(***************************************************************************)

\* A lock is not touched, taken, or given back.
LEMMA Locking ==
  ASSUME Held, NEW t \in Threads, NEW c, NEW j
  PROVE  /\ UNCHANGED coord /\ (HoldsCoord(c, j) <=> HoldsCoord(call[t], job[t])) =>
              /\ coord' = t <=> HoldsCoord(c, j)
              /\ \A u \in Threads : u # t => (coord' = u <=> coord = u)
         /\ coord = NoThread /\ coord' = t /\ HoldsCoord(c, j) =>
              /\ coord' = t <=> HoldsCoord(c, j)
              /\ \A u \in Threads : u # t => (coord' = u <=> coord = u)
         /\ HoldsCoord(call[t], job[t]) /\ coord' = NoThread /\ ~HoldsCoord(c, j) =>
              /\ coord' = t <=> HoldsCoord(c, j)
              /\ \A u \in Threads : u # t => (coord' = u <=> coord = u)
         /\ UNCHANGED pass /\ (HoldsPass(c, j) <=> HoldsPass(call[t], job[t])) =>
              /\ pass' = t <=> HoldsPass(c, j)
              /\ \A u \in Threads : u # t => (pass' = u <=> pass = u)
         /\ pass = NoThread /\ pass' = t /\ HoldsPass(c, j) =>
              /\ pass' = t <=> HoldsPass(c, j)
              /\ \A u \in Threads : u # t => (pass' = u <=> pass = u)
         /\ HoldsPass(call[t], job[t]) /\ pass' = NoThread /\ ~HoldsPass(c, j) =>
              /\ pass' = t <=> HoldsPass(c, j)
              /\ \A u \in Threads : u # t => (pass' = u <=> pass = u)
<1> USE Distinct
<1>1. (HoldsCoord(call[t], job[t]) <=> coord = t) /\ (HoldsPass(call[t], job[t]) <=> pass = t)
  BY DEF Held
<1> QED
  BY <1>1

\* No lock is touched.
LEMMA MoveAside ==
  ASSUME Held, NEW t \in Threads, NEW c \in Calls, NEW j \in Job,
         Becomes(t, c, j), CallOK(t, c, j), UNCHANGED locks,
         ~HoldsCoord(c, j), ~HoldsPass(c, j),
         ~HoldsCoord(call[t], job[t]), ~HoldsPass(call[t], job[t])
  PROVE  Moves(t, c, j)
  BY Locking DEF Moves, locks

\* The watcher.
LEMMA LoadSettingsMoves ==
  ASSUME Base, NEW e \in Edits, LoadSettings(e)
  PROVE  \E c, j : Moves(Watcher, c, j)
<1> DEFINE removed == config \ e.ids
           c == IF removed = {} THEN "publish" ELSE "forget"
           j == [NoJob EXCEPT !.app = removed, !.fetch = e.changed]
<1>1. /\ At(Watcher, "idle") /\ Becomes(Watcher, c, j) /\ UNCHANGED locks
  BY DEF LoadSettings
<1>2. removed \in SUBSET Apps /\ e.changed \in SUBSET Apps
  BY RolesAssumption DEF Base, HotTypeOK
<1>3. j \in Job
  BY <1>2, JobForms
<1>4. c \in Calls /\ CallOK(Watcher, c, j)
  BY Distinct DEF Calls, CallOK
<1>5. ~HoldsCoord(c, j) /\ ~HoldsPass(c, j)
  BY DEF HoldsCoord, HoldsPass
<1>6. ~HoldsCoord(call[Watcher], job[Watcher]) /\ ~HoldsPass(call[Watcher], job[Watcher])
  BY <1>1 DEF At, HoldsCoord, HoldsPass
<1> HIDE DEF c, j
<1> QED
  BY <1>1, <1>3, <1>4, <1>5, <1>6, Distinct, MoveAside DEF Base

LEMMA ForgetMoves ==
  ASSUME Base, NEW app \in Apps, Forget(app)
  PROVE  \E c, j : Moves(Watcher, c, j)
<1> DEFINE left == job[Watcher].app \ {app}
           c == IF left = {} THEN "publish" ELSE "forget"
           j == [job[Watcher] EXCEPT !.app = left]
<1>1. /\ At(Watcher, "forget") /\ Becomes(Watcher, c, j) /\ UNCHANGED locks
  BY DEF Forget
<1>2. job[Watcher] \in Job /\ left \in SUBSET Apps
  BY Distinct DEF Base, HotTypeOK, Job
<1>3. j \in Job
  BY <1>2, JobForms
<1>4. c \in Calls /\ CallOK(Watcher, c, j)
  BY Distinct DEF Calls, CallOK
<1>5. ~HoldsCoord(c, j) /\ ~HoldsPass(c, j)
  BY DEF HoldsCoord, HoldsPass
<1>6. ~HoldsCoord(call[Watcher], job[Watcher]) /\ ~HoldsPass(call[Watcher], job[Watcher])
  BY <1>1 DEF At, HoldsCoord, HoldsPass
<1> HIDE DEF c, j
<1> QED
  BY <1>1, <1>3, <1>4, <1>5, <1>6, Distinct, MoveAside DEF Base

LEMMA IdleOK ==
  ASSUME NEW t \in Threads
  PROVE  /\ CallOK(t, "idle", NoJob) /\ "idle" \in Calls /\ NoJob \in Job
         /\ \A j : ~HoldsCoord("idle", j) /\ ~HoldsPass("idle", j)
  BY Distinct, JobForms DEF CallOK, Calls, HoldsCoord, HoldsPass

\* The coordinator, publishing the members.
LEMMA PublishLockedMoves ==
  ASSUME Base, NEW t \in {Main, Watcher}, NEW changed \in SUBSET Apps,
         call[t] \in {"boot", "publish"}, coord = NoThread,
         PublishLocked(t, changed)
  PROVE  \E c, j : Moves(t, c, j)
<1> DEFINE fetch == IF t = Main THEN {}
                    ELSE (config \ managed) \cup (changed \cap config)
           j == MembersJob(config, ReadyOf(config), Announced(config), fetch)
<1>1. /\ ReadyOf(config) \in SUBSET Apps /\ Announced(config) \in SUBSET Apps
      /\ config \in SUBSET Apps /\ fetch \in SUBSET Apps
  BY DEF Base, HotTypeOK, ReadyOf, Announced
<1>2. j \in Job /\ j.kind = "members"
  BY <1>1, MembersForm
<1>3. t \in Threads /\ ~HoldsCoord(call[t], job[t]) /\ ~HoldsPass(call[t], job[t])
  BY Distinct DEF HoldsCoord, HoldsPass
<1>4. CASE coord' = t /\ Becomes(t, "submit", j) /\ UNCHANGED pass
  <2>1. "submit" \in Calls /\ CallOK(t, "submit", j)
    BY <1>2, Distinct DEF Calls, CallOK
  <2>2. HoldsCoord("submit", j) /\ ~HoldsPass("submit", j)
    BY <1>2 DEF HoldsCoord, HoldsPass
  <2> HIDE DEF j
  <2>3. Moves(t, "submit", j)
    BY <1>2, <1>3, <1>4, <2>1, <2>2, Locking DEF Moves, Base
  <2> QED
    BY <2>3
<1>5. CASE Becomes(t, "idle", NoJob) /\ UNCHANGED locks
  <2>1. Moves(t, "idle", NoJob)
    BY <1>3, <1>5, IdleOK, MoveAside DEF Base
  <2> QED
    BY <2>1
<1> QED
  BY <1>4, <1>5 DEF PublishLocked, MembersJob

LEMMA InitializeMoves ==
  ASSUME Base, Initialize
  PROVE  \E c, j : Moves(Main, c, j)
<1>1. /\ call[Main] = "boot" /\ coord = NoThread /\ PublishLocked(Main, {})
  BY DEF Initialize, At
<1> QED
  BY <1>1, PublishLockedMoves

LEMMA PublishMoves ==
  ASSUME Base, Publish
  PROVE  \E c, j : Moves(Watcher, c, j)
<1>1. call[Watcher] = "publish" /\ coord = NoThread
  BY DEF Publish, At
<1>2. job[Watcher].fetch \in SUBSET Apps
  BY Distinct DEF Base, HotTypeOK, Job
<1>3. CASE PublishLocked(Watcher, job[Watcher].fetch)
  BY <1>1, <1>2, <1>3, PublishLockedMoves
<1>4. CASE Becomes(Watcher, "idle", NoJob) /\ UNCHANGED locks
  <2>1. ~HoldsCoord(call[Watcher], job[Watcher]) /\ ~HoldsPass(call[Watcher], job[Watcher])
    BY <1>1 DEF HoldsCoord, HoldsPass
  <2>2. Moves(Watcher, "idle", NoJob)
    BY <1>4, <2>1, IdleOK, MoveAside, Distinct DEF Base
  <2> QED
    BY <2>2
<1> QED
  BY <1>3, <1>4 DEF Publish

LEMMA CommitMembersMoves ==
  ASSUME Base, NEW t \in Threads, CommitMembers(t)
  PROVE  Moves(t, "idle", NoJob)
<1>1. /\ call[t] = "submit" /\ job[t].kind = "members"
      /\ coord' = NoThread /\ UNCHANGED pass /\ Becomes(t, "idle", NoJob)
  BY DEF CommitMembers, At
<1>2. HoldsCoord(call[t], job[t]) /\ ~HoldsPass(call[t], job[t])
  BY <1>1 DEF HoldsCoord, HoldsPass
<1> QED
  BY <1>1, <1>2, IdleOK, Locking DEF Moves, Base

\* Where a publication for one app goes when it is over.
LEMMA AfterForms ==
  ASSUME Base, NEW t \in {Worker, Owner}, After(t), call[t] # "idle"
  PROVE  \E c \in Calls : \E j \in Job :
           /\ Becomes(t, c, j) /\ CallOK(t, c, j)
           /\ ~HoldsCoord(c, j) /\ ~HoldsPass(c, j)
<1>1. CASE t = Worker /\ job[t].kind = "base"
  <2> DEFINE j == [job[t] EXCEPT !.kind = "none"]
  <2>1. job[t] \in Job /\ \E app \in Apps : job[t].app = {app}
    BY <1>1, Distinct DEF Base, HotTypeOK, Stand, CallOK
  <2>2. j \in Job /\ j.app = job[t].app
    BY <2>1, JobForms
  <2>3. Becomes(t, "enrich", j)
    BY <1>1 DEF After
  <2>4. "enrich" \in Calls /\ CallOK(t, "enrich", j)
    BY <1>1, <2>1, <2>2, Distinct DEF Calls, CallOK
  <2>5. ~HoldsCoord("enrich", j) /\ ~HoldsPass("enrich", j)
    BY DEF HoldsCoord, HoldsPass
  <2> QED
    BY <2>2, <2>3, <2>4, <2>5
<1>2. CASE ~(t = Worker /\ job[t].kind = "base")
  <2>1. Becomes(t, "idle", NoJob) /\ t \in Threads
    BY <1>2, Distinct DEF After
  <2> QED
    BY <2>1, IdleOK
<1> QED
  BY <1>1, <1>2

LEMMA CoordinateMoves ==
  ASSUME Base, NEW t \in Threads, Coordinate(t)
  PROVE  t \in {Worker, Owner} /\ \E c, j : Moves(t, c, j)
<1>1. call[t] = "coordinate" /\ coord = NoThread
  BY DEF Coordinate
<1>2. t \in {Worker, Owner} /\ job[t] \in Job
  BY <1>1, WhoStands DEF Base, HotTypeOK
<1>3. ~HoldsCoord(call[t], job[t]) /\ ~HoldsPass(call[t], job[t])
  BY <1>1 DEF HoldsCoord, HoldsPass
<1>4. CASE After(t) /\ UNCHANGED locks
  <2>1. PICK c \in Calls, j \in Job :
          /\ Becomes(t, c, j) /\ CallOK(t, c, j)
          /\ ~HoldsCoord(c, j) /\ ~HoldsPass(c, j)
    BY <1>1, <1>2, <1>4, AfterForms
  <2> QED
    BY <1>2, <1>3, <1>4, <2>1, MoveAside DEF Base
<1>5. CASE coord' = t /\ Becomes(t, "validate", job[t]) /\ UNCHANGED pass
  <2>1. "validate" \in Calls /\ CallOK(t, "validate", job[t])
    BY <1>1, <1>2, Distinct DEF Calls, CallOK, Base, Stand
  <2>2. HoldsCoord("validate", job[t]) /\ ~HoldsPass("validate", job[t])
    BY DEF HoldsCoord, HoldsPass
  <2>3. Moves(t, "validate", job[t])
    BY <1>1, <1>2, <1>3, <1>5, <2>1, <2>2, Locking DEF Moves, Base
  <2> QED
    BY <1>2, <2>3
<1> QED
  BY <1>2, <1>4, <1>5 DEF Coordinate, Rejected, locks

LEMMA ValidateMoves ==
  ASSUME Base, NEW t \in Threads, Validate(t)
  PROVE  t \in {Worker, Owner} /\ \E c, j : Moves(t, c, j)
<1>1. call[t] = "validate" /\ pass = NoThread
  BY DEF Validate
<1>2. t \in {Worker, Owner} /\ job[t] \in Job
  BY <1>1, WhoStands DEF Base, HotTypeOK
<1>3. HoldsCoord(call[t], job[t]) /\ ~HoldsPass(call[t], job[t])
  BY <1>1 DEF HoldsCoord, HoldsPass
<1>4. CASE After(t) /\ coord' = NoThread /\ UNCHANGED pass
  <2>1. PICK c \in Calls, j \in Job :
          /\ Becomes(t, c, j) /\ CallOK(t, c, j)
          /\ ~HoldsCoord(c, j) /\ ~HoldsPass(c, j)
    BY <1>1, <1>2, <1>4, AfterForms
  <2>2. Moves(t, c, j)
    BY <1>2, <1>3, <1>4, <2>1, Locking DEF Moves, Base
  <2> QED
    BY <1>2, <2>2
<1>5. CASE ValidateAndSubmit(t)
  <2> DEFINE j == [job[t] EXCEPT !.ids = NextReady(t)]
  <2>1. NextReady(t) \in SUBSET Apps
    BY <1>2 DEF NextReady, Base, HotTypeOK, Job
  <2>2. t = Worker /\ Becomes(t, "submit", j) /\ pass' = t /\ UNCHANGED coord
    BY <1>2, <1>5, Distinct DEF ValidateAndSubmit
  <2>3. /\ job[t].kind \in {"base", "metadata"}
        /\ \E app \in Apps : job[t].app = {app}
    <3>1. CallOK(Worker, call[t], job[t])
      BY <2>2 DEF Base, Stand
    <3> QED
      BY <1>1, <3>1 DEF CallOK
  <2>4. j \in Job /\ j.kind \in {"base", "metadata"} /\ j.app = job[t].app
    <3>1. j \in Job /\ j.kind = job[t].kind /\ j.app = job[t].app
      BY <1>2, <2>1, JobForms
    <3> HIDE DEF j
    <3> QED
      BY <2>3, <3>1
  <2> HIDE DEF j
  <2>5. "submit" \in Calls /\ CallOK(t, "submit", j)
    BY <2>2, <2>3, <2>4, Distinct DEF Calls, CallOK
  <2>6. HoldsCoord("submit", j) /\ HoldsPass("submit", j)
    BY <2>4 DEF HoldsCoord, HoldsPass
  <2>7. Moves(t, "submit", j)
    BY <1>1, <1>2, <1>3, <2>2, <2>4, <2>5, <2>6, Locking DEF Moves, Base
  <2> QED
    BY <1>2, <2>7
<1>6. CASE ValidateAndRun(t)
  BY <1>4, <1>6 DEF ValidateAndRun
<1> QED
  BY <1>4, <1>5, <1>6 DEF Validate, Rejected

LEMMA CommitAppMoves ==
  ASSUME Base, NEW t \in Threads, CommitApp(t)
  PROVE  t = Worker /\ \E c, j : Moves(t, c, j)
<1>1. /\ call[t] = "submit" /\ job[t].kind \in {"base", "metadata"}
      /\ coord' = NoThread /\ pass' = NoThread /\ After(t)
  BY DEF CommitApp, At
<1>2. t = Worker
  BY <1>1, WhoStands DEF Base
<1>3. HoldsCoord(call[t], job[t]) /\ HoldsPass(call[t], job[t])
  BY <1>1 DEF HoldsCoord, HoldsPass
<1>4. PICK c \in Calls, j \in Job :
        /\ Becomes(t, c, j) /\ CallOK(t, c, j)
        /\ ~HoldsCoord(c, j) /\ ~HoldsPass(c, j)
  BY <1>1, <1>2, AfterForms
<1>5. Moves(t, c, j)
  BY <1>1, <1>2, <1>3, <1>4, Locking DEF Moves, Base
<1> QED
  BY <1>2, <1>5

LEMMA PrepareMoves ==
  ASSUME Base, NEW r \in requests, Prepare(r)
  PROVE  \E c, j : Moves(Worker, c, j)
<1> DEFINE c == IF r.app \in CompatApps THEN "handoff" ELSE "coordinate"
           j == AppJob({r.app}, r.gen)
<1>1. r.app \in Apps /\ r.gen \in Nat
  BY DEF Base, HotTypeOK, Request
<1>2. /\ At(Worker, "idle") /\ Becomes(Worker, c, j) /\ UNCHANGED locks
  BY DEF Prepare, AppJob
<1>3. j \in Job /\ j.kind = "base" /\ j.app = {r.app}
  BY <1>1, AppForm
<1> HIDE DEF j
<1>4. c \in Calls /\ CallOK(Worker, c, j)
  BY <1>1, <1>3, Distinct DEF Calls, CallOK
<1>5. ~HoldsCoord(c, j) /\ ~HoldsPass(c, j)
  BY DEF HoldsCoord, HoldsPass
<1>6. ~HoldsCoord(call[Worker], job[Worker]) /\ ~HoldsPass(call[Worker], job[Worker])
  BY <1>2 DEF At, HoldsCoord, HoldsPass
<1> HIDE DEF c
<1> QED
  BY <1>2, <1>3, <1>4, <1>5, <1>6, Distinct, MoveAside DEF Base

LEMMA HandOffMoves ==
  ASSUME Base, HandOff
  PROVE  \E c, j : Moves(Worker, c, j)
<1> DEFINE j == [job[Worker] EXCEPT !.kind = "none"]
<1>1. PICK c \in {"submit", "enrich"} : Becomes(Worker, c, j)
  BY DEF HandOff
<1>2. call[Worker] = "handoff" /\ UNCHANGED locks
  BY DEF HandOff, At
<1>3. job[Worker] \in Job /\ \E app \in Apps : job[Worker].app = {app}
  BY <1>2, Distinct DEF Base, HotTypeOK, Stand, CallOK
<1>4. j \in Job /\ j.kind = "none" /\ j.app = job[Worker].app
  BY <1>3, JobForms
<1> HIDE DEF j
<1>5. c \in Calls /\ CallOK(Worker, c, j)
  BY <1>1, <1>3, <1>4, Distinct DEF Calls, CallOK
<1>6. ~HoldsCoord(c, j) /\ ~HoldsPass(c, j)
  BY <1>1, <1>4 DEF HoldsCoord, HoldsPass
<1>7. ~HoldsCoord(call[Worker], job[Worker]) /\ ~HoldsPass(call[Worker], job[Worker])
  BY <1>2 DEF HoldsCoord, HoldsPass
<1> QED
  BY <1>1, <1>2, <1>4, <1>5, <1>6, <1>7, Distinct, MoveAside DEF Base

LEMMA HandedOffMoves ==
  ASSUME Base, HandedOff
  PROVE  Moves(Worker, "enrich", job[Worker])
<1>1. /\ call[Worker] = "submit" /\ job[Worker].kind = "none"
      /\ Becomes(Worker, "enrich", job[Worker]) /\ UNCHANGED locks
  BY DEF HandedOff, At
<1>2. job[Worker] \in Job /\ \E app \in Apps : job[Worker].app = {app}
  BY <1>1, Distinct DEF Base, HotTypeOK, Stand, CallOK
<1>3. "enrich" \in Calls /\ CallOK(Worker, "enrich", job[Worker])
  BY <1>2, Distinct DEF Calls, CallOK
<1>4. /\ ~HoldsCoord("enrich", job[Worker]) /\ ~HoldsPass("enrich", job[Worker])
      /\ ~HoldsCoord(call[Worker], job[Worker]) /\ ~HoldsPass(call[Worker], job[Worker])
  BY <1>1 DEF HoldsCoord, HoldsPass
<1> QED
  BY <1>1, <1>2, <1>3, <1>4, Distinct, MoveAside DEF Base

LEMMA EnrichMoves ==
  ASSUME Base, Enrich
  PROVE  \E c, j : Moves(Worker, c, j)
<1> DEFINE j == [job[Worker] EXCEPT !.kind = "metadata"]
<1>1. call[Worker] = "enrich" /\ UNCHANGED locks
  BY DEF Enrich, At
<1>2. ~HoldsCoord(call[Worker], job[Worker]) /\ ~HoldsPass(call[Worker], job[Worker])
  BY <1>1 DEF HoldsCoord, HoldsPass
<1>3. CASE Becomes(Worker, "coordinate", j)
  <2>1. job[Worker] \in Job /\ \E app \in Apps : job[Worker].app = {app}
    BY <1>1, Distinct DEF Base, HotTypeOK, Stand, CallOK
  <2>2. j \in Job /\ j.kind = "metadata" /\ j.app = job[Worker].app
    BY <2>1, JobForms
  <2> HIDE DEF j
  <2>3. "coordinate" \in Calls /\ CallOK(Worker, "coordinate", j)
    BY <2>1, <2>2, Distinct DEF Calls, CallOK
  <2>4. ~HoldsCoord("coordinate", j) /\ ~HoldsPass("coordinate", j)
    BY DEF HoldsCoord, HoldsPass
  <2> QED
    BY <1>1, <1>2, <1>3, <2>2, <2>3, <2>4, Distinct, MoveAside DEF Base
<1>4. CASE Becomes(Worker, "idle", NoJob)
  <2>1. Moves(Worker, "idle", NoJob)
    BY <1>1, <1>2, <1>4, IdleOK, MoveAside, Distinct DEF Base
  <2> QED
    BY <2>1
<1> QED
  BY <1>3, <1>4 DEF Enrich

LEMMA HotAddMoves ==
  ASSUME Base, HotAdd
  PROVE  \E j : Moves(Picser, "submit", j)
<1> DEFINE j == [NoJob EXCEPT !.kind = "hotadd"]
<1>1. /\ call[Picser] = "idle" /\ pass = NoThread /\ pass' = Picser
      /\ UNCHANGED coord /\ Becomes(Picser, "submit", j)
  BY DEF HotAdd, At
<1>2. j \in Job /\ j.kind = "hotadd"
  BY JobForms
<1> HIDE DEF j
<1>3. "submit" \in Calls /\ CallOK(Picser, "submit", j)
  BY <1>2, Distinct DEF Calls, CallOK
<1>4. ~HoldsCoord("submit", j) /\ HoldsPass("submit", j)
  BY <1>2 DEF HoldsCoord, HoldsPass
<1>5. ~HoldsCoord(call[Picser], job[Picser]) /\ ~HoldsPass(call[Picser], job[Picser])
  BY <1>1 DEF HoldsCoord, HoldsPass
<1>6. Moves(Picser, "submit", j)
  BY <1>1, <1>2, <1>3, <1>4, <1>5, Distinct, Locking DEF Moves, Base
<1> QED
  BY <1>6

LEMMA HotAddedMoves ==
  ASSUME Base, HotAdded
  PROVE  Moves(Picser, "idle", NoJob)
<1>1. /\ call[Picser] = "submit" /\ pass' = NoThread
      /\ UNCHANGED coord /\ Becomes(Picser, "idle", NoJob)
  BY DEF HotAdded, At
<1>2. job[Picser].kind = "hotadd"
  BY <1>1, Distinct DEF Base, Stand, CallOK
<1>3. ~HoldsCoord(call[Picser], job[Picser]) /\ HoldsPass(call[Picser], job[Picser])
  BY <1>1, <1>2 DEF HoldsCoord, HoldsPass
<1> QED
  BY <1>1, <1>3, Distinct, IdleOK, Locking DEF Moves, Base

\* The record that the owner runs.
LEMMA FrontTyped ==
  ASSUME TypeOK, NEW t \in Threads, batch[t] # <<>>
  PROVE  Head(batch[t]) \in Entry /\ Head(batch[t]).cmd \in Command
<1>1. batch[t] \in Seq(Entry)
  BY DEF TypeOK
<1>2. Head(batch[t]) \in Entry
  BY <1>1, HeadTailProperties
<1> QED
  BY <1>2 DEF Entry

LEMMA CompatSettlesMoves ==
  ASSUME Base, CompatSettles
  PROVE  \E j : Moves(Owner, "coordinate", j)
<1> DEFINE c == Head(batch[Owner]).cmd
           j == AppJob(c.ids, c.gen)
<1>1. /\ Running(Owner) /\ call[Owner] = "idle" /\ Becomes(Owner, "coordinate", j)
      /\ UNCHANGED locks
  BY DEF CompatSettles, AppJob
<1>2. c \in Command
  BY <1>1, Distinct, FrontTyped DEF Running, Base, Ordered, Inv
<1>3. c.ids \in SUBSET Apps /\ c.gen \in Nat
  BY <1>2 DEF Command
<1>4. j \in Job /\ j.kind = "base"
  BY <1>3, AppForm
<1> HIDE DEF j
<1>5. "coordinate" \in Calls /\ CallOK(Owner, "coordinate", j)
  BY <1>4, Distinct DEF Calls, CallOK
<1>6. ~HoldsCoord("coordinate", j) /\ ~HoldsPass("coordinate", j)
  BY DEF HoldsCoord, HoldsPass
<1>7. ~HoldsCoord(call[Owner], job[Owner]) /\ ~HoldsPass(call[Owner], job[Owner])
  BY <1>1 DEF HoldsCoord, HoldsPass
<1> QED
  BY <1>1, <1>4, <1>5, <1>6, <1>7, Distinct, MoveAside DEF Base

LEMMA ShutdownMoves ==
  ASSUME Base, CoordinatorShutdown \/ QueueShutdown
  PROVE  \E c : Moves(Main, c, NoJob)
<1>1. PICK c \in {"closing", "gone"} : Becomes(Main, c, NoJob)
  BY DEF CoordinatorShutdown, QueueShutdown
<1>2. call[Main] \in {"idle", "closing"} /\ UNCHANGED locks
  BY DEF CoordinatorShutdown, QueueShutdown, At
<1>3. c \in Calls /\ CallOK(Main, c, NoJob)
  BY <1>1, Distinct DEF Calls, CallOK
<1>4. /\ ~HoldsCoord(c, NoJob) /\ ~HoldsPass(c, NoJob)
      /\ ~HoldsCoord(call[Main], job[Main]) /\ ~HoldsPass(call[Main], job[Main])
  BY <1>1, <1>2 DEF HoldsCoord, HoldsPass
<1> QED
  BY <1>1, <1>2, <1>3, <1>4, Distinct, IdleOK, MoveAside DEF Base

-----------------------------------------------------------------------------
(***************************************************************************)
(* Types, stations and locks, step by step.                                *)
(***************************************************************************)

\* The steps that are the queue's alone.
QueueStep(t) ==
  \/ DrainFrame \/ Sweep(t) \/ PushToOwner(t) \/ RunInline(t) \/ TakeTurn(t)
  \/ PutBack(t) \/ Finish(t) \/ (t = Owner /\ CompatFails)

LEMMA QueueStepKeeps ==
  ASSUME NEW t \in Threads, QueueStep(t) \/ Stale
  PROVE  UNCHANGED hot
BY DEF QueueStep, DrainFrame, Sweep, PushToOwner, RunInline, TakeTurn, PutBack,
       Finish, CompatFails, Stale

\* Every step is the queue's alone, runs a command, or moves a call.
LEMMA HotCases ==
  ASSUME HotNext
  PROVE  \/ \E e \in Edits : LoadSettings(e)
         \/ \E app \in Apps : Forget(app)
         \/ Publish \/ Initialize
         \/ \E r \in requests : Prepare(r) \/ DropRequest(r)
         \/ HandOff \/ HandedOff \/ Enrich \/ HotAdd \/ HotAdded \/ Latch
         \/ CompatSettles \/ CoordinatorShutdown \/ QueueShutdown \/ Stale
         \/ \E t \in Threads : \/ Coordinate(t) \/ Validate(t)
                               \/ CommitMembers(t) \/ CommitApp(t)
                               \/ Execute(t) \/ QueueStep(t)
<1>1. CASE Begin
  BY <1>1, Distinct DEF Begin, QueueStep
<1>2. ASSUME NEW t \in Threads, Advance(t)
      PROVE  \/ \E app \in Apps : Forget(app)
             \/ Publish \/ Initialize \/ HandOff \/ HandedOff \/ Enrich \/ HotAdded
             \/ CompatSettles \/ QueueShutdown
             \/ Coordinate(t) \/ Validate(t)
             \/ CommitMembers(t) \/ CommitApp(t) \/ Execute(t) \/ QueueStep(t)
  BY <1>2 DEF Advance, QueueStep
<1> QED
  BY <1>1, <1>2 DEF HotNext

LEMMA StandStep ==
  ASSUME Base, HotNext
  PROVE  CallsOK' /\ Stand' /\ Held'
<1>0. CallsOK /\ Stand /\ Held
  BY DEF Base, HotTypeOK, CallsOK, Calls
<1>1. CASE UNCHANGED <<call, job, coord, pass>>
  BY <1>0, <1>1 DEF CallsOK, Stand, Held, CallOK, HoldsCoord, HoldsPass
<1>2. CASE \E t, c, j : Moves(t, c, j)
  BY <1>0, <1>2, MovesKeep
<1>3. ASSUME NEW e \in Edits, LoadSettings(e) PROVE \E t, c, j : Moves(t, c, j)
  BY <1>3, LoadSettingsMoves
<1>4. ASSUME NEW app \in Apps, Forget(app) PROVE \E t, c, j : Moves(t, c, j)
  BY <1>4, ForgetMoves
<1>5. CASE Publish \/ Initialize
  BY <1>2, <1>5, PublishMoves, InitializeMoves
<1>6. ASSUME NEW r \in requests, Prepare(r) PROVE \E t, c, j : Moves(t, c, j)
  BY <1>6, PrepareMoves
<1>7. CASE HandOff \/ HandedOff \/ Enrich
  BY <1>2, <1>7, HandOffMoves, HandedOffMoves, EnrichMoves
<1>8. CASE HotAdd \/ HotAdded
  BY <1>2, <1>8, HotAddMoves, HotAddedMoves
<1>9. CASE CompatSettles \/ CoordinatorShutdown \/ QueueShutdown
  BY <1>2, <1>9, CompatSettlesMoves, ShutdownMoves
<1>10. ASSUME NEW t \in Threads, Coordinate(t) \/ Validate(t)
       PROVE  \E u, c, j : Moves(u, c, j)
  BY <1>10, CoordinateMoves, ValidateMoves
<1>11. ASSUME NEW t \in Threads, CommitMembers(t) \/ CommitApp(t)
       PROVE  \E u, c, j : Moves(u, c, j)
  BY <1>11, CommitMembersMoves, CommitAppMoves
<1>12. ASSUME Latch \/ (\E r \in requests : DropRequest(r))
       PROVE  UNCHANGED <<call, job, coord, pass>>
  BY <1>12 DEF Latch, DropRequest, calls, locks
<1>13. ASSUME NEW t \in Threads, Execute(t) \/ QueueStep(t) \/ Stale
       PROVE  UNCHANGED <<call, job, coord, pass>>
  BY <1>13, QueueStepKeeps DEF Execute, calls, locks, hot
<1>14. CASE Stale
  BY <1>1, <1>13, <1>14, Distinct
<1> QED
  BY <1>1, <1>2, <1>3, <1>4, <1>5, <1>6, <1>7, <1>8, <1>9, <1>10, <1>11, <1>12,
     <1>13, <1>14, HotCases

-----------------------------------------------------------------------------
(***************************************************************************)
(* The threads are clients of the queue.                                   *)
(***************************************************************************)

\* The app of a publication.
LEMMA TheAppIs ==
  ASSUME NEW t \in Threads, NEW app \in Apps, job[t].app = {app}
  PROVE  TheApp(t) = app
BY DEF TheApp

\* Every step is a step of the queue's most general client.
LEMMA UsesNext ==
  ASSUME Unrestricted, Base, HotNext
  PROVE  [Next]_vars
<1>0. HotTypeOK
  BY DEF Base
<1>1. ASSUME NEW t \in {Main, Watcher}, NEW changed, PublishLocked(t, changed)
      PROVE  [Next]_vars
  <2> DEFINE b == <<syncPackage0(generation + 1, ReadyOf(config),
                                 Announced(config))>>
  <2>1. ReadyOf(config) \in SUBSET Apps /\ Announced(config) \in SUBSET Apps
    BY <1>0 DEF HotTypeOK, ReadyOf, Announced
  <2>2. b \in Batches
    BY <1>0, <2>1 DEF Unrestricted, HotTypeOK
  <2>3. Submit(t, b) \/ UNCHANGED vars
    BY <1>1 DEF PublishLocked
  <2> HIDE DEF b
  <2> QED
    BY <2>2, <2>3, Distinct DEF Next
<1>2. CASE Publish \/ Initialize
  BY <1>1, <1>2 DEF Publish, Initialize
<1>3. CASE HandOff
  <2> DEFINE b == <<ensureCompat(TheApp(Worker), job[Worker].gen, 0)>>
  <2>1. call[Worker] = "handoff"
    BY <1>3 DEF HandOff, At
  <2>2. \E app \in Apps : job[Worker].app = {app}
    BY <2>1, Distinct DEF Base, Stand, CallOK
  <2>3. TheApp(Worker) \in Apps /\ job[Worker].gen \in Nat
    BY <1>0, <2>2, TheAppIs, Distinct DEF HotTypeOK, Job
  <2>4. b \in Batches
    BY <2>3 DEF Unrestricted
  <2>5. Submit(Worker, b) \/ UNCHANGED vars
    BY <1>3 DEF HandOff
  <2> HIDE DEF b
  <2> QED
    BY <2>4, <2>5, Distinct DEF Next
<1>4. CASE HotAdd
  <2> DEFINE b == <<injectPackage0(config), reconcileLicenses>>
  <2>1. b \in Batches /\ Submit(Picser, b)
    BY <1>0, <1>4 DEF Unrestricted, HotTypeOK, HotAdd
  <2> HIDE DEF b
  <2> QED
    BY <2>1, Distinct DEF Next
<1>5. ASSUME NEW t \in Threads, RunCommand(t) PROVE Next
  BY <1>5 DEF Next, Proceed, Run
<1>6. ASSUME NEW t \in Threads, Coordinate(t) PROVE [Next]_vars
  <2>1. (t = Owner /\ RunCommand(t)) \/ UNCHANGED vars
    BY <1>6 DEF Coordinate, Rejected
  <2> QED
    BY <1>5, <2>1
<1>7. ASSUME NEW t \in Threads, Validate(t) PROVE [Next]_vars
  <2> DEFINE c == AppSnapshot(t)
  <2>1. /\ NextReady(t) \in SUBSET Apps /\ generation \in Nat
        /\ job[t].app \in SUBSET Apps
    BY <1>0 DEF HotTypeOK, NextReady, Job
  <2>2. <<c>> \in Batches /\ c \in NestedCommands
    BY <2>1 DEF AppSnapshot, Unrestricted
  <2>3. \/ RunCommand(t) \/ UNCHANGED vars
        \/ Submit(t, <<c>>) \/ RunPublishing(t, c)
    BY <1>7 DEF Validate, Rejected, ValidateAndSubmit, ValidateAndRun
  <2> HIDE DEF c
  <2>4. CASE RunPublishing(t, c)
    BY <2>2, <2>4 DEF Next, Proceed, Run
  <2> QED
    BY <1>5, <2>2, <2>3, <2>4 DEF Next
<1>8. ASSUME NEW t \in Threads, QueueStep(t) PROVE Next
  <2>1. CASE DrainFrame \/ Sweep(t)
    BY <2>1, Distinct DEF DrainFrame, Sweep, Next
  <2>2. CASE PushToOwner(t) \/ RunInline(t) \/ TakeTurn(t) \/ Finish(t)
    BY <2>2 DEF PushToOwner, RunInline, TakeTurn, Finish, Next, Proceed
  <2>3. CASE PutBack(t)
    BY <2>3 DEF PutBack, Next, Proceed, Run
  <2>4. CASE t = Owner /\ CompatFails
    BY <2>4 DEF CompatFails, Next, Proceed, Run
  <2> QED
    BY <1>8, <2>1, <2>2, <2>3, <2>4 DEF QueueStep
<1>9. ASSUME NEW t \in Threads, Execute(t) PROVE Next
  BY <1>5, <1>9 DEF Execute
<1>10. ASSUME NEW t \in Threads, CommitMembers(t) \/ CommitApp(t)
       PROVE  UNCHANGED vars
  BY <1>10 DEF CommitMembers, CommitApp
<1>11. CASE QueueShutdown \/ Stale
  BY <1>11 DEF QueueShutdown, Stale, Next
<1>12. ASSUME \/ \E e \in Edits : LoadSettings(e)
              \/ \E app \in Apps : Forget(app)
              \/ \E r \in requests : Prepare(r) \/ DropRequest(r)
              \/ HandedOff \/ Enrich \/ HotAdded \/ Latch
              \/ CompatSettles \/ CoordinatorShutdown
       PROVE  UNCHANGED vars
  BY <1>12 DEF LoadSettings, Forget, Prepare, DropRequest, HandedOff, Enrich,
               HotAdded, Latch, CompatSettles, CoordinatorShutdown
<1> QED
  BY <1>2, <1>3, <1>4, <1>6, <1>7, <1>8, <1>9, <1>10, <1>11, <1>12, HotCases

-----------------------------------------------------------------------------
(***************************************************************************)
(* Types.                                                                  *)
(***************************************************************************)

\* What HotTypeOK says besides the calls.
StateTyped ==
  /\ config \in SUBSET Apps
  /\ publication \in [Apps -> Nat]
  /\ requests \in SUBSET Request
  /\ prepared \in SUBSET Apps
  /\ coord \in Threads \cup {NoThread} /\ pass \in Threads \cup {NoThread}
  /\ initialized \in BOOLEAN /\ generation \in Nat
  /\ managed \in SUBSET Apps /\ ready \in SUBSET Apps
  /\ latched \in BOOLEAN
  /\ desired \in [gen : Nat, ids : SUBSET Apps]
  /\ owed \in SUBSET Apps
  /\ edits \in 0 .. MaxEdits

LEMMA TypedIs == HotTypeOK <=> StateTyped /\ CallsOK
BY DEF HotTypeOK, StateTyped, CallsOK, Calls

\* What a snapshot, or any other command, leaves desired and owed.
LEMMA DeliverTyped ==
  ASSUME StateTyped, NEW c \in Command, Deliver(c)
  PROVE  desired' \in [gen : Nat, ids : SUBSET Apps] /\ owed' \in SUBSET Apps
BY DEF StateTyped, Deliver, Command

\* The requests that a publication adds.
LEMMA RequestsTyped ==
  ASSUME StateTyped, NEW fetch \in SUBSET Apps
  PROVE  {r \in requests : r.app \notin fetch}
           \cup {[app |-> app, gen |-> publication[app]] : app \in fetch}
           \in SUBSET Request
BY DEF StateTyped, Request

LEMMA PublishLockedTyped ==
  ASSUME StateTyped, NEW t \in Threads, NEW changed, PublishLocked(t, changed),
         initialized' \in BOOLEAN, UNCHANGED <<generation, managed, ready, latched>>
  PROVE  StateTyped'
<1>1. /\ ReadyOf(config) \in SUBSET Apps /\ Announced(config) \in SUBSET Apps
      /\ owed \in SUBSET Apps /\ prepared \in SUBSET Apps /\ config \in SUBSET Apps
  BY DEF StateTyped, ReadyOf, Announced
<1>2. owed' \in SUBSET Apps /\ prepared' \in SUBSET Apps
  BY <1>1 DEF PublishLocked, package, provisioning
<1>3. coord' \in Threads \cup {NoThread}
  BY DEF PublishLocked, locks, StateTyped
<1>4. UNCHANGED <<pass, desired, config, publication, requests, edits>>
  BY DEF PublishLocked, locks, package, provisioning
<1> QED
  BY <1>2, <1>3, <1>4 DEF StateTyped

LEMMA ValidateTyped ==
  ASSUME Base, StateTyped, NEW t \in Threads, Validate(t)
  PROVE  StateTyped'
<1>1. /\ NextReady(t) \in SUBSET Apps /\ AppSnapshot(t) \in Command
      /\ AppSnapshot(t).added \in SUBSET Apps
  <2>1. job[t].app \in SUBSET Apps /\ generation + 1 \in Nat /\ NextReady(t) \in SUBSET Apps
    BY DEF Base, HotTypeOK, Job, NextReady
  <2>2. 0 \in 0 .. MaxAttempts - 1
    BY BoundsAssumption
  <2> QED
    BY <2>1, <2>2 DEF AppSnapshot, syncPackage0, command, Command, Kind
<1>2. CASE Rejected(t) /\ coord' = NoThread
  BY <1>2 DEF Rejected, StateTyped, provisioning, coordinator, package
<1>3. CASE ValidateAndSubmit(t)
  BY <1>1, <1>3 DEF ValidateAndSubmit, StateTyped, provisioning, coordinator
<1>4. CASE ValidateAndRun(t)
  <2>1. desired' \in [gen : Nat, ids : SUBSET Apps] /\ owed' \in SUBSET Apps
    BY <1>1, <1>4, DeliverTyped DEF ValidateAndRun
  <2> QED
    BY <1>1, <1>4, <2>1 DEF ValidateAndRun, StateTyped, provisioning
<1> QED
  BY <1>2, <1>3, <1>4 DEF Validate

LEMMA HotTypeStep ==
  ASSUME Base, HotNext
  PROVE  HotTypeOK'
<1> SUFFICES StateTyped'
  BY StandStep DEF HotTypeOK, StateTyped, CallsOK, Calls
<1>0. StateTyped /\ HotTypeOK /\ TypeOK
  BY TypedIs DEF Base, Ordered, Inv
<1>1. ASSUME NEW e \in Edits, LoadSettings(e) PROVE StateTyped'
  BY <1>0, <1>1, RolesAssumption DEF LoadSettings, StateTyped, locks, coordinator, package
<1>2. ASSUME NEW app \in Apps, Forget(app) PROVE StateTyped'
  BY <1>0, <1>2 DEF Forget, StateTyped, locks, coordinator, package
<1>3. CASE Publish
  <2>1. UNCHANGED <<generation, managed, ready, latched, initialized>>
    BY <1>3 DEF Publish, coordinator
  <2>2. ASSUME NEW changed, PublishLocked(Watcher, changed) PROVE StateTyped'
    BY <1>0, <2>1, <2>2, PublishLockedTyped, Distinct DEF StateTyped
  <2>3. ASSUME UNCHANGED <<locks, provisioning, package>> PROVE StateTyped'
    BY <1>0, <2>1, <2>3 DEF StateTyped, locks, provisioning, package
  <2> QED
    BY <1>3, <2>2, <2>3 DEF Publish
<1>4. CASE Initialize
  BY <1>0, <1>4, PublishLockedTyped, Distinct DEF Initialize
<1>5. ASSUME NEW r \in requests, Prepare(r) \/ DropRequest(r) PROVE StateTyped'
  BY <1>0, <1>5 DEF Prepare, DropRequest, StateTyped, locks, coordinator, package, Request
<1>6. CASE HandOff \/ HandedOff \/ Enrich \/ CompatSettles
  <2>1. UNCHANGED <<locks, provisioning, coordinator, package, latched>>
    BY <1>6 DEF HandOff, HandedOff, Enrich, CompatSettles
  <2> QED
    BY <1>0, <2>1 DEF StateTyped, locks, provisioning, coordinator, package
<1>7. CASE HotAdd \/ HotAdded \/ Latch
  <2>1. /\ UNCHANGED <<coord, provisioning, coordinator, package>>
        /\ pass' \in {pass, Picser, NoThread} /\ latched' \in {latched, TRUE}
    BY <1>7 DEF HotAdd, HotAdded, Latch, locks
  <2> QED
    BY <1>0, <2>1, Distinct DEF StateTyped, provisioning, coordinator, package
<1>8. CASE CoordinatorShutdown
  BY <1>0, <1>8 DEF CoordinatorShutdown, StateTyped, locks, provisioning, package
<1>9. CASE QueueShutdown
  <2>1. UNCHANGED <<locks, provisioning, coordinator, package, latched>>
    BY <1>9 DEF QueueShutdown
  <2> QED
    BY <1>0, <2>1 DEF StateTyped, locks, provisioning, coordinator, package
<1>17. ASSUME NEW t \in Threads, Coordinate(t) PROVE StateTyped'
  <2>1. /\ UNCHANGED <<pass, provisioning, coordinator, package, latched>>
        /\ coord' \in {coord, t}
    BY <1>17 DEF Coordinate, Rejected
  <2> QED
    BY <1>0, <2>1 DEF StateTyped, provisioning, coordinator, package
<1>10. ASSUME NEW t \in Threads, Validate(t) PROVE StateTyped'
  BY <1>0, <1>10, ValidateTyped
<1>11. ASSUME NEW t \in Threads, CommitMembers(t) PROVE StateTyped'
  <2>1. /\ job[t].members \in SUBSET Apps /\ job[t].ids \in SUBSET Apps
        /\ job[t].fetch \in SUBSET Apps
    BY <1>0 DEF HotTypeOK, Job
  <2>2. requests' \in SUBSET Request
    BY <1>0, <1>11, <2>1, RequestsTyped DEF CommitMembers
  <2> QED
    BY <1>0, <1>11, <2>1, <2>2 DEF CommitMembers, StateTyped, package
<1>12. ASSUME NEW t \in Threads, CommitApp(t) PROVE StateTyped'
  <2>1. job[t].ids \in SUBSET Apps
    BY <1>0 DEF HotTypeOK, Job
  <2> QED
    BY <1>0, <1>12, <2>1 DEF CommitApp, StateTyped, package, provisioning
<1>13. ASSUME NEW t \in Threads, Execute(t) PROVE StateTyped'
  <2>1. Head(batch[t]).cmd \in Command
    BY <1>0, <1>13, FrontTyped DEF Execute, Running
  <2>2. desired' \in [gen : Nat, ids : SUBSET Apps] /\ owed' \in SUBSET Apps
    BY <1>0, <1>13, <2>1, DeliverTyped DEF Execute
  <2> QED
    BY <1>0, <1>13, <2>2 DEF Execute, StateTyped, locks, provisioning, coordinator
<1>14. ASSUME UNCHANGED hot PROVE StateTyped'
  BY <1>0, <1>14 DEF hot, StateTyped, locks, provisioning, coordinator, package
<1>15. ASSUME NEW t \in Threads, QueueStep(t) \/ Stale PROVE StateTyped'
  BY <1>14, <1>15, QueueStepKeeps
<1>16. CASE Stale
  BY <1>15, <1>16, Distinct
<1> QED
  BY <1>1, <1>2, <1>3, <1>4, <1>5, <1>6, <1>7, <1>8, <1>9, <1>10, <1>11, <1>12,
     <1>13, <1>15, <1>16, <1>17, HotCases

-----------------------------------------------------------------------------
(***************************************************************************)
(* The base invariant, and what it gives at once.                          *)
(***************************************************************************)

LEMMA BaseInit == HotInit => Base
<1> SUFFICES ASSUME HotInit PROVE Base
  OBVIOUS
<1>1. Ordered
  BY InvInit, OwnershipInit, PlacesInit, OwnerClaimsInit DEF HotInit, Ordered
<1>2. /\ call = [t \in Threads |-> IF t = Main THEN "boot" ELSE "idle"]
      /\ job = [t \in Threads |-> NoJob]
      /\ coord = NoThread /\ pass = NoThread
  BY DEF HotInit
<1>3. CallsOK
  BY <1>2, JobForms DEF CallsOK, Calls
<1>4. StateTyped
  <2>1. config \in SUBSET Apps
    BY RolesAssumption DEF HotInit
  <2>2. publication \in [Apps -> Nat] /\ desired \in [gen : Nat, ids : SUBSET Apps]
    BY DEF HotInit
  <2>3. latched \in BOOLEAN /\ edits \in 0 .. MaxEdits
    BY RolesAssumption DEF HotInit
  <2> QED
    BY <2>1, <2>2, <2>3 DEF HotInit, StateTyped
<1>5. Stand
  BY <1>2, Distinct DEF Stand, CallOK
<1>6. Held
  BY <1>2, Distinct DEF Held, HoldsCoord, HoldsPass
<1> QED
  BY <1>1, <1>3, <1>4, <1>5, <1>6, TypedIs DEF Base

LEMMA BaseStep ==
  ASSUME Unrestricted
  PROVE  Base /\ [HotNext]_allVars => Base' /\ [Next]_vars
<1> SUFFICES ASSUME Base, [HotNext]_allVars PROVE Base' /\ [Next]_vars
  OBVIOUS
<1>1. CASE HotNext
  BY <1>1, UsesNext, HotTypeStep, StandStep, InvStep, OwnershipStep, PlacesStep,
     OwnerClaimsStep DEF Base, Ordered, Inv
<1>2. CASE UNCHANGED allVars
  <2>1. UNCHANGED vars
    BY <1>2 DEF allVars
  <2>2. Ordered'
    BY <2>1, InvStep, OwnershipStep, PlacesStep, OwnerClaimsStep DEF Base, Ordered, Inv
  <2>3. HotTypeOK'
    BY <1>2 DEF allVars, hot, locks, provisioning, coordinator, package, calls,
                Base, HotTypeOK
  <2>4. Stand' /\ Held'
    BY <1>2 DEF allVars, hot, locks, calls, Base, Stand, Held, CallOK, HoldsCoord,
                HoldsPass
  <2> QED
    BY <2>1, <2>2, <2>3, <2>4 DEF Base
<1> QED
  BY <1>1, <1>2

\* The watcher, the main thread, the workers and the owner are clients of the
\* queue (ownerwork.cpp, submitBatch): whatever they do, in whatever order, is a
\* behaviour of the queue under its most general client, so every theorem about
\* that client holds of live reconfiguration.
THEOREM UsesQueueAlways == Unrestricted => (HotSpec => UsesQueue)
<1> SUFFICES ASSUME Unrestricted PROVE HotSpec => UsesQueue
  OBVIOUS
<1>1. HotInit => Base /\ Init
  BY BaseInit DEF HotInit
<1>2. Base /\ [HotNext]_allVars => Base' /\ [Next]_vars
  BY BaseStep
<1> QED
  BY <1>1, <1>2, PTL DEF HotSpec, UsesQueue, Spec

\* Every variable of the coordinator, the worker, the locks and the package keeps
\* to its values (hotreload.cpp, appinfo_provision.cpp).
THEOREM HotTypesAlways == Unrestricted => (HotSpec => []HotTypeOK)
<1> SUFFICES ASSUME Unrestricted PROVE HotSpec => []HotTypeOK
  OBVIOUS
<1>1. Base /\ [HotNext]_allVars => Base'
  BY BaseStep
<1>2. Base => HotTypeOK
  BY DEF Base
<1> QED
  BY <1>1, <1>2, BaseInit, PTL DEF HotSpec

-----------------------------------------------------------------------------
(***************************************************************************)
(* Whose step a call takes, and which steps leave the queue open.          *)
(***************************************************************************)

\* The actions that move the call of a thread.
MoveOf(u) ==
  \/ u = Watcher /\ \/ \E e \in Edits : LoadSettings(e)
                    \/ \E app \in Apps : Forget(app)
                    \/ Publish
  \/ u = Main /\ (Initialize \/ CoordinatorShutdown \/ QueueShutdown)
  \/ u = Worker /\ ((\E r \in requests : Prepare(r)) \/ HandOff \/ HandedOff \/ Enrich)
  \/ u = Picser /\ (HotAdd \/ HotAdded)
  \/ u = Owner /\ CompatSettles
  \/ Coordinate(u) \/ Validate(u) \/ CommitMembers(u) \/ CommitApp(u)

Still(u) == call'[u] = call[u] /\ job'[u] = job[u]

LEMMA BecomesOne ==
  ASSUME CallsOK, NEW t \in Threads, NEW c, NEW j, Becomes(t, c, j)
  PROVE  /\ call'[t] = c /\ job'[t] = j
         /\ \A u \in Threads : u # t => Still(u)
BY DEF Becomes, CallsOK, Still

LEMMA AfterOne ==
  ASSUME CallsOK, NEW t \in Threads, After(t)
  PROVE  /\ t = Worker /\ job[t].kind = "base" =>
              call'[t] = "enrich" /\ job'[t] = [job[t] EXCEPT !.kind = "none"]
         /\ ~(t = Worker /\ job[t].kind = "base") =>
              call'[t] = "idle" /\ job'[t] = NoJob
         /\ \A u \in Threads : u # t => Still(u)
BY BecomesOne DEF After

\* A thread's call moves by an action of its own.
LEMMA MoverIs ==
  ASSUME Base, HotNext, NEW u \in Threads
  PROVE  Still(u) \/ MoveOf(u)
<1>0. CallsOK
  BY DEF Base, HotTypeOK, CallsOK, Calls
<1>1. ASSUME UNCHANGED calls PROVE Still(u)
  BY <1>1 DEF calls, Still
<1>2. ASSUME NEW t \in Threads, NEW c, NEW j, Becomes(t, c, j)
      PROVE  u = t \/ Still(u)
  BY <1>0, <1>2, BecomesOne
<1>3. ASSUME NEW t \in Threads, After(t) PROVE u = t \/ Still(u)
  BY <1>0, <1>3, AfterOne
<1>4. CASE \/ \E e \in Edits : LoadSettings(e)
           \/ \E app \in Apps : Forget(app)
           \/ Publish
  <2>1. u = Watcher \/ Still(u)
    BY <1>2, <1>4, Distinct DEF LoadSettings, Forget, Publish, PublishLocked
  <2> QED
    BY <1>4, <2>1 DEF MoveOf
<1>5. CASE Initialize \/ CoordinatorShutdown \/ QueueShutdown
  <2>1. u = Main \/ Still(u)
    BY <1>2, <1>5, Distinct
    DEF Initialize, PublishLocked, CoordinatorShutdown, QueueShutdown
  <2> QED
    BY <1>5, <2>1 DEF MoveOf
<1>6. CASE (\E r \in requests : Prepare(r)) \/ HandOff \/ HandedOff \/ Enrich
  <2>1. u = Worker \/ Still(u)
    BY <1>2, <1>6, Distinct DEF Prepare, HandOff, HandedOff, Enrich
  <2> QED
    BY <1>6, <2>1 DEF MoveOf
<1>7. CASE HotAdd \/ HotAdded
  <2>1. u = Picser \/ Still(u)
    BY <1>2, <1>7, Distinct DEF HotAdd, HotAdded
  <2> QED
    BY <1>7, <2>1 DEF MoveOf
<1>8. CASE CompatSettles
  <2>1. u = Owner \/ Still(u)
    BY <1>2, <1>8, Distinct DEF CompatSettles
  <2> QED
    BY <1>8, <2>1 DEF MoveOf
<1>9. ASSUME NEW t \in Threads,
             Coordinate(t) \/ Validate(t) \/ CommitMembers(t) \/ CommitApp(t)
      PROVE  Still(u) \/ MoveOf(u)
  <2>1. u = t \/ Still(u)
    BY <1>2, <1>3, <1>9 DEF Coordinate, Validate, CommitMembers, CommitApp, Rejected,
                            ValidateAndSubmit, ValidateAndRun
  <2> QED
    BY <1>9, <2>1 DEF MoveOf
<1>10. ASSUME Latch \/ (\E r \in requests : DropRequest(r)) PROVE UNCHANGED calls
  BY <1>10 DEF Latch, DropRequest
<1>11. ASSUME NEW t \in Threads, Execute(t) \/ QueueStep(t) \/ Stale
       PROVE  UNCHANGED calls
  BY <1>11, QueueStepKeeps DEF Execute, hot
<1>12. CASE Stale
  BY <1>1, <1>11, <1>12
<1> QED
  BY <1>1, <1>4, <1>5, <1>6, <1>7, <1>8, <1>9, <1>10, <1>11, <1>12, HotCases

\* What the queue's part of a step is.
LEMMA QueuePart ==
  ASSUME Base, HotNext
  PROVE  \/ UNCHANGED vars
         \/ \E t \in Threads : \E b : Submit(t, b) /\ call'[t] = "submit"
         \/ \E t \in Threads : \E c : RunPublishing(t, c) /\ call'[t] = "idle"
         \/ \E t \in Threads : /\ RunCommand(t)
                               /\ \/ call'[t] = "idle"
                                  \/ Head(batch[t]).cmd.kind # "EnsureCompat"
         \/ \E t \in Threads : QueueStep(t)
         \/ QueueShutdown \/ Stale

<1>0. CallsOK
  BY DEF Base, HotTypeOK, CallsOK, Calls
<1>1. ASSUME NEW t \in Threads, NEW b, NEW j, Submit(t, b), Becomes(t, "submit", j)
      PROVE  Submit(t, b) /\ call'[t] = "submit"
  BY <1>0, <1>1, BecomesOne
<1>2. ASSUME NEW t \in {Main, Watcher}, NEW changed, PublishLocked(t, changed)
      PROVE  UNCHANGED vars \/ \E b : Submit(t, b) /\ call'[t] = "submit"
  <2>1. t \in Threads
    BY Distinct
  <2> QED
    BY <1>1, <1>2, <2>1 DEF PublishLocked
<1>3. CASE Publish \/ Initialize
  BY <1>2, <1>3, Distinct DEF Publish, Initialize
<1>4. CASE HandOff
  BY <1>1, <1>4, Distinct DEF HandOff
<1>5. CASE HotAdd
  BY <1>1, <1>5, Distinct DEF HotAdd
<1>11. Owner # Worker /\ Owner \in Threads
  BY Distinct
<1>12. ASSUME NEW t \in Threads, Rejected(t)
       PROVE  (RunCommand(t) /\ call'[t] = "idle") \/ UNCHANGED vars
  <2>1. t = Owner => call'[t] = "idle"
    BY <1>0, <1>11, <1>12, AfterOne DEF Rejected
  <2> QED
    BY <1>12, <2>1 DEF Rejected
<1>6. ASSUME NEW t \in Threads, Coordinate(t)
      PROVE  (RunCommand(t) /\ call'[t] = "idle") \/ UNCHANGED vars
  BY <1>6, <1>12 DEF Coordinate
<1>7. ASSUME NEW t \in Threads, Validate(t)
      PROVE  \/ (RunCommand(t) /\ call'[t] = "idle") \/ UNCHANGED vars
             \/ \E b : Submit(t, b) /\ call'[t] = "submit"
             \/ \E c : RunPublishing(t, c) /\ call'[t] = "idle"
  <2>1. CASE Rejected(t)
    BY <1>12, <2>1
  <2>2. CASE ValidateAndSubmit(t)
    BY <1>1, <2>2 DEF ValidateAndSubmit
  <2>3. CASE ValidateAndRun(t)
    <3>1. call'[t] = "idle"
      BY <1>0, <1>11, <2>3, AfterOne DEF ValidateAndRun
    <3> QED
      BY <2>3, <3>1 DEF ValidateAndRun
  <2> QED
    BY <1>7, <2>1, <2>2, <2>3 DEF Validate
<1>8. ASSUME NEW t \in Threads, Execute(t)
      PROVE  RunCommand(t) /\ Head(batch[t]).cmd.kind # "EnsureCompat"
  BY <1>8 DEF Execute
<1>9. ASSUME NEW t \in Threads, CommitMembers(t) \/ CommitApp(t)
      PROVE  UNCHANGED vars
  BY <1>9 DEF CommitMembers, CommitApp
<1>10. ASSUME \/ \E e \in Edits : LoadSettings(e)
              \/ \E app \in Apps : Forget(app)
              \/ \E r \in requests : Prepare(r) \/ DropRequest(r)
              \/ HandedOff \/ Enrich \/ HotAdded \/ Latch
              \/ CompatSettles \/ CoordinatorShutdown
       PROVE  UNCHANGED vars
  BY <1>10 DEF LoadSettings, Forget, Prepare, DropRequest, HandedOff, Enrich,
               HotAdded, Latch, CompatSettles, CoordinatorShutdown
<1> QED
  BY <1>3, <1>4, <1>5, <1>6, <1>7, <1>8, <1>9, <1>10, HotCases

\* The steps of the queue on its own, by their names there.
LEMMA QueueStepIs ==
  ASSUME NEW t \in Threads, QueueStep(t)
  PROVE  \/ Drain(Owner)
         \/ (pc[t] = "out" => call[t] = "idle") /\ FlushStale(t)
         \/ QueueEnabled /\ latched /\ (PushAccepted(t) \/ PushRejected(t))
         \/ /\ ~QueueEnabled \/ ~latched \/ pc[t] = "refused"
            /\ ClaimInline(t) \/ JoinInline(t)
         \/ AcquireExec(t) \/ FinishBatch(t) \/ ReleaseExecuting(t)
         \/ (t = Owner => call[t] = "idle") /\ (RunCommand(t) \/ RunAgain(t))
BY DEF QueueStep, DrainFrame, Sweep, PushToOwner, RunInline, TakeTurn, PutBack,
       Finish, CompatFails

\* The queue closes in one step only.
LEMMA StaysOpen ==
  ASSUME Base, HotNext
  PROVE  UNCHANGED shuttingDown \/ QueueShutdown
<1>1. ASSUME NEW t, \/ \E b : Submit(t, b)
                    \/ \E c : RunPublishing(t, c)
                    \/ RunCommand(t)
      PROVE  UNCHANGED shuttingDown
  BY <1>1 DEF Submit, RunPublishing, RunCommand, shared
<1>2. ASSUME NEW t \in Threads, QueueStep(t)
      PROVE  UNCHANGED shuttingDown
  <2>1. CASE Drain(Owner) \/ FlushStale(t) \/ ClaimInline(t)
    BY <2>1 DEF Drain, FlushStale, ClaimInline
  <2>2. CASE PushAccepted(t) \/ PushRejected(t) \/ JoinInline(t)
    BY <2>2 DEF PushAccepted, PushRejected, JoinInline, shared
  <2>3. CASE AcquireExec(t) \/ FinishBatch(t) \/ ReleaseExecuting(t)
    BY <2>3 DEF AcquireExec, FinishBatch, ReleaseExecuting
  <2>4. CASE RunCommand(t) \/ RunAgain(t)
    BY <2>4 DEF RunCommand, RunAgain, shared
  <2> QED
    BY <1>2, <2>1, <2>2, <2>3, <2>4, QueueStepIs
<1>3. ASSUME UNCHANGED vars \/ Stale PROVE UNCHANGED shuttingDown
  BY <1>3 DEF vars, shared, Stale, Age
<1> QED
  BY <1>1, <1>2, <1>3, QueuePart

-----------------------------------------------------------------------------
(***************************************************************************)
(* The session: nothing is published outside it, and a thread that is in a *)
(* call of its own is outside the queue.                                   *)
(***************************************************************************)

Session ==
  /\ coord # NoThread => initialized
  /\ ~initialized => generation = 0
  /\ generation = 0 => managed = {} /\ ready = {}
  /\ call[Main] \in {"boot", "closing", "gone"} => ~initialized
  /\ shuttingDown => call[Main] = "gone"

Outside ==
  \A t \in Threads \ {Owner} : call[t] \notin {"idle", "submit"} => pc[t] = "out"

LEMMA SessionInit == HotInit => Session
BY DEF HotInit, Init, Session

LEMMA OutsideInit == HotInit => Outside
BY DEF HotInit, Init, Outside

LEMMA ClosedIsOver == Session /\ shuttingDown => ~initialized /\ coord = NoThread
BY DEF Session

LEMMA SessionStep ==
  ASSUME Base, Session, HotNext
  PROVE  Session'
<1>0. CallsOK /\ generation \in Nat /\ Main \in Threads
  BY Distinct DEF Base, HotTypeOK, CallsOK, Calls
<1>1. ASSUME UNCHANGED <<coordinator, shuttingDown>>, call'[Main] = call[Main],
             coord' = coord \/ coord' = NoThread \/ initialized
      PROVE  Session'
  BY <1>1 DEF Session, coordinator
<1>2. ASSUME NEW t \in Threads, t # Main, NEW c, NEW j, Becomes(t, c, j)
      PROVE  call'[Main] = call[Main]
  BY <1>0, <1>2, BecomesOne DEF Still
<1>3. ASSUME NEW t \in {Watcher, Worker, Picser, Owner}, NEW c, NEW j,
             Becomes(t, c, j)
      PROVE  call'[Main] = call[Main]
  BY <1>2, <1>3, Distinct
<1>4. ASSUME NEW t \in {Worker, Owner}, After(t) PROVE call'[Main] = call[Main]
  BY <1>3, <1>4 DEF After
<1>5. UNCHANGED shuttingDown \/ QueueShutdown
  BY StaysOpen
<1>6. CASE QueueShutdown
  <2>1. call[Main] = "closing" /\ call'[Main] = "gone"
    BY <1>0, <1>6, BecomesOne DEF QueueShutdown, At
  <2> QED
    BY <1>6, <2>1 DEF Session, QueueShutdown, coordinator, locks
<1>7. CASE CoordinatorShutdown
  <2>1. call[Main] = "idle" /\ call'[Main] = "closing"
    BY <1>0, <1>7, BecomesOne DEF CoordinatorShutdown, At
  <2> QED
    BY <1>7, <2>1 DEF Session, CoordinatorShutdown, locks, vars, shared
<1>8. CASE Initialize
  <2>1. call[Main] = "boot" /\ call'[Main] \in {"submit", "idle"}
    BY <1>0, <1>8, BecomesOne DEF Initialize, At, PublishLocked
  <2>2. UNCHANGED shuttingDown
    BY <1>8, <2>1 DEF Initialize, PublishLocked, Submit, vars, shared
  <2> QED
    BY <1>8, <2>1, <2>2 DEF Session, Initialize
<1>9. ASSUME \/ \E e \in Edits : LoadSettings(e)
             \/ \E app \in Apps : Forget(app)
             \/ Publish
      PROVE  Session'
  <2>1. call'[Main] = call[Main]
    BY <1>3, <1>9 DEF LoadSettings, Forget, Publish, PublishLocked
  <2>2. UNCHANGED shuttingDown
    BY <1>9 DEF LoadSettings, Forget, Publish, PublishLocked, Submit, vars, shared
  <2>3. /\ UNCHANGED coordinator
        /\ coord' = coord \/ initialized
    BY <1>9 DEF LoadSettings, Forget, Publish, PublishLocked, locks
  <2> QED
    BY <1>1, <2>1, <2>2, <2>3
<1>10. ASSUME \/ \E r \in requests : Prepare(r) \/ DropRequest(r)
              \/ HandOff \/ HandedOff \/ Enrich \/ HotAdd \/ HotAdded \/ Latch
              \/ CompatSettles
       PROVE  Session'
  <2>1. call'[Main] = call[Main]
    BY <1>3, <1>10 DEF Prepare, DropRequest, HandOff, HandedOff, Enrich, HotAdd,
                       HotAdded, Latch, CompatSettles, calls
  <2>2. ~QueueShutdown \/ call'[Main] # call[Main]
    BY <1>0, BecomesOne DEF QueueShutdown, At
  <2>3. UNCHANGED <<coordinator, coord>>
    BY <1>10 DEF Prepare, DropRequest, HandOff, HandedOff, Enrich, HotAdd,
                 HotAdded, Latch, CompatSettles, coordinator, locks
  <2> QED
    BY <1>1, <1>5, <2>1, <2>2, <2>3
<1>11. ASSUME NEW t \in Threads, Coordinate(t) \/ Validate(t)
       PROVE  Session'
  <2>0. t \in {Worker, Owner}
    BY <1>11, CoordinateMoves, ValidateMoves
  <2>1. call'[Main] = call[Main]
    BY <1>3, <1>4, <1>11, <2>0 DEF Coordinate, Validate, Rejected, ValidateAndSubmit,
                                   ValidateAndRun
  <2>2. UNCHANGED shuttingDown
    <3>1. ~QueueShutdown \/ call'[Main] # call[Main]
      BY <1>0, BecomesOne DEF QueueShutdown, At
    <3> QED
      BY <1>5, <2>1, <3>1
  <2>3. CASE Coordinate(t)
    <3>1. UNCHANGED coordinator /\ (coord' = coord \/ initialized)
      BY <2>3 DEF Coordinate, Rejected, Wanted
    <3> QED
      BY <1>1, <2>1, <2>2, <3>1
  <2>4. CASE Validate(t)
    <3>1. coord = t /\ initialized
      BY <2>0, <2>4, Distinct DEF Validate, Base, Held, HoldsCoord, Session
    <3>2. CASE Rejected(t) /\ coord' = NoThread
      BY <1>1, <2>1, <2>2, <3>2 DEF Rejected
    <3>3. CASE ValidateAndSubmit(t)
      BY <1>1, <2>1, <2>2, <3>3 DEF ValidateAndSubmit
    <3>4. CASE ValidateAndRun(t)
      <4>1. generation' # 0
        BY <1>0, <3>4 DEF ValidateAndRun
      <4> QED
        BY <2>1, <2>2, <3>1, <3>4, <4>1 DEF ValidateAndRun, Session
    <3> QED
      BY <2>4, <3>2, <3>3, <3>4 DEF Validate
  <2> QED
    BY <1>11, <2>3, <2>4
<1>12. ASSUME NEW t \in Threads, CommitMembers(t) \/ CommitApp(t)
       PROVE  Session'
  <2>1. coord = t /\ initialized
    BY <1>12, Distinct DEF CommitMembers, CommitApp, At, Base, Held, HoldsCoord, Session
  <2>2. generation' # 0 /\ coord' = NoThread /\ UNCHANGED <<initialized, shuttingDown>>
    BY <1>0, <1>12 DEF CommitMembers, CommitApp, vars, shared
  <2>3. call[Main] = "gone" => call'[Main] = "gone"
    BY <1>0, <1>12, BecomesOne, AfterOne DEF CommitMembers, CommitApp, At, Still
  <2>4. call'[Main] = call[Main] \/ call'[Main] \in {"idle", "enrich"}
    BY <1>0, <1>12, BecomesOne, AfterOne DEF CommitMembers, CommitApp, Still
  <2> QED
    BY <2>1, <2>2, <2>3, <2>4 DEF Session
<1>13. ASSUME NEW t \in Threads, Execute(t) \/ QueueStep(t) \/ Stale
       PROVE  Session'
  <2>1. UNCHANGED <<coordinator, coord, call>>
    BY <1>13, QueueStepKeeps DEF Execute, hot, locks, calls
  <2>2. ~QueueShutdown \/ call'[Main] # call[Main]
    BY <1>0, BecomesOne DEF QueueShutdown, At
  <2> QED
    BY <1>1, <1>5, <2>1, <2>2
<1>14. CASE Stale
  BY <1>0, <1>13, <1>14
<1> QED
  BY <1>6, <1>7, <1>8, <1>9, <1>10, <1>11, <1>12, <1>13, <1>14, HotCases

\* A thread outside the queue stays there, submits, or sweeps between calls.
LEMMA PlaceKept ==
  ASSUME Base, HotNext, NEW u \in Threads \ {Owner}, pc[u] = "out"
  PROVE  pc'[u] = "out" \/ call'[u] = "submit" \/ (call[u] = "idle" /\ Still(u))
<1>0. pc \in [Threads -> PC]
  BY DEF Base, Ordered, Ownership
<1>1. ASSUME UNCHANGED pc PROVE pc'[u] = "out"
  BY <1>1
<1>2. ASSUME NEW t \in Threads, NEW b, Submit(t, b), call'[t] = "submit"
      PROVE  pc'[u] = "out" \/ call'[u] = "submit"
  BY <1>0, <1>2 DEF Submit
<1>3. ASSUME NEW t, (\E c : RunPublishing(t, c)) \/ RunCommand(t)
      PROVE  UNCHANGED pc
  BY <1>3 DEF RunPublishing, RunCommand
<1>4. ASSUME NEW t \in Threads, QueueStep(t)
      PROVE  pc'[u] = "out" \/ (call[u] = "idle" /\ Still(u))
  <2>1. CASE Drain(Owner)
    BY <1>0, <2>1 DEF Drain, Claim, Take
  <2>2. CASE (pc[t] = "out" => call[t] = "idle") /\ FlushStale(t)
    <3>1. u = t => call[u] = "idle" /\ Still(u)
      BY <1>4, <2>2, QueueStepKeeps DEF hot, calls, Still
    <3>2. u # t => pc'[u] = pc[u]
      BY <1>0, <2>2 DEF FlushStale, Claim, Take
    <3> QED
      BY <3>1, <3>2
  <2>3. CASE PushAccepted(t) \/ PushRejected(t)
    BY <1>0, <2>3 DEF PushAccepted, PushRejected
  <2>4. CASE ClaimInline(t) \/ JoinInline(t)
    BY <1>0, <2>4 DEF ClaimInline, JoinInline, Claim, Take
  <2>5. CASE AcquireExec(t) \/ FinishBatch(t) \/ ReleaseExecuting(t)
    BY <1>0, <2>5 DEF AcquireExec, FinishBatch, ReleaseExecuting, Return
  <2>6. CASE RunCommand(t) \/ RunAgain(t)
    BY <2>6 DEF RunCommand, RunAgain
  <2> QED
    BY <1>4, <2>1, <2>2, <2>3, <2>4, <2>5, <2>6, QueueStepIs
<1>5. ASSUME UNCHANGED vars \/ QueueShutdown \/ Stale
      PROVE  UNCHANGED pc
  BY <1>5 DEF vars, threads, QueueShutdown, Shutdown, Stale, Age
<1> QED
  BY <1>1, <1>2, <1>3, <1>4, <1>5, QueuePart

LEMMA OutsideStep ==
  ASSUME Base, Outside, HotNext
  PROVE  Outside'
<1> SUFFICES ASSUME NEW u \in Threads \ {Owner}, call'[u] \notin {"idle", "submit"}
             PROVE  pc'[u] = "out"
  BY DEF Outside
<1>1. CASE Still(u)
  <2>1. pc[u] = "out" /\ call[u] # "idle"
    BY <1>1 DEF Still, Outside
  <2> QED
    BY <2>1, PlaceKept
<1>2. CASE MoveOf(u) /\ ~Still(u)
  <2>1. pc[u] = "out"
    BY <1>2 DEF MoveOf, Outside, LoadSettings, Forget, Publish, Initialize,
                CoordinatorShutdown, QueueShutdown, Prepare, HandOff, HandedOff,
                Enrich, HotAdd, HotAdded, Coordinate, Validate, CommitMembers,
                CommitApp, At
  <2> QED
    BY <1>2, <2>1, PlaceKept
<1> QED
  BY <1>1, <1>2, MoverIs

\* The owner publishes for the compatibility step at the front of its batch.
Busy ==
  call[Owner] # "idle" =>
    /\ Running(Owner)
    /\ Head(batch[Owner]).cmd.kind = "EnsureCompat"
    /\ job[Owner].app = Head(batch[Owner]).cmd.ids
    /\ job[Owner].gen = Head(batch[Owner]).cmd.gen

LEMMA BusyInit == HotInit => Busy
BY Distinct DEF HotInit, Busy

\* The front of the owner's batch stays while the owner is in a call.
LEMMA FrontKept ==
  ASSUME Base, HotNext, Running(Owner), call[Owner] # "idle", call'[Owner] # "idle",
         Head(batch[Owner]).cmd.kind = "EnsureCompat"
  PROVE  pc'[Owner] = "run" /\ batch'[Owner] = batch[Owner]
<1>0. /\ pc \in [Threads -> PC] /\ batch \in [Threads -> Seq(Entry)]
      /\ pc[Owner] = "run" /\ batch[Owner] # <<>> /\ Owner \in Threads
  BY Distinct DEF Base, Ordered, Ownership, Inv, TypeOK, Running
<1>1. ASSUME UNCHANGED <<pc, batch>>
      PROVE  pc'[Owner] = "run" /\ batch'[Owner] = batch[Owner]
  BY <1>0, <1>1
<1>2. ASSUME NEW t \in Threads, NEW b, Submit(t, b)
      PROVE  pc'[Owner] = "run" /\ batch'[Owner] = batch[Owner]
  BY <1>0, <1>2 DEF Submit
<1>3. ASSUME NEW t \in Threads, t # Owner,
             (\E c : RunPublishing(t, c)) \/ RunCommand(t) \/ RunAgain(t)
      PROVE  pc'[Owner] = "run" /\ batch'[Owner] = batch[Owner]
  BY <1>0, <1>3 DEF RunPublishing, RunCommand, RunAgain, Step
<1>4. ASSUME NEW t \in Threads, QueueStep(t)
      PROVE  pc'[Owner] = "run" /\ batch'[Owner] = batch[Owner]
  <2>1. CASE Drain(Owner)
    BY <1>0, <2>1 DEF Drain
  <2>2. CASE FlushStale(t) \/ ClaimInline(t) \/ JoinInline(t)
    BY <1>0, <2>2 DEF FlushStale, ClaimInline, JoinInline, Claim, Take
  <2>3. CASE PushAccepted(t) \/ PushRejected(t)
    BY <1>0, <2>3 DEF PushAccepted, PushRejected
  <2>4. CASE AcquireExec(t) \/ FinishBatch(t) \/ ReleaseExecuting(t)
    BY <1>0, <2>4 DEF AcquireExec, FinishBatch, ReleaseExecuting, Return
  <2>5. CASE t # Owner /\ (RunCommand(t) \/ RunAgain(t))
    BY <1>3, <2>5
  <2> QED
    BY <1>4, <2>1, <2>2, <2>3, <2>4, <2>5, QueueStepIs
<1>5. ASSUME UNCHANGED vars \/ QueueShutdown \/ Stale
      PROVE  UNCHANGED <<pc, batch>>
  BY <1>5 DEF vars, threads, QueueShutdown, Shutdown, Stale, Age
<1> QED
  BY <1>1, <1>2, <1>3, <1>4, <1>5, QueuePart

LEMMA BusyStep ==
  ASSUME Base, Busy, HotNext
  PROVE  Busy'
<1> SUFFICES ASSUME call'[Owner] # "idle"
             PROVE  /\ Running(Owner)'
                    /\ (Head(batch[Owner]).cmd.kind = "EnsureCompat")'
                    /\ (job[Owner].app = Head(batch[Owner]).cmd.ids)'
                    /\ (job[Owner].gen = Head(batch[Owner]).cmd.gen)'
  BY DEF Busy
<1>0. CallsOK /\ Owner \in Threads /\ Owner \notin {Main, Watcher, Worker, Picser}
  BY Distinct DEF Base, HotTypeOK, CallsOK, Calls
<1>1. CASE Still(Owner)
  <2>1. call[Owner] # "idle" /\ job'[Owner] = job[Owner]
    BY <1>1 DEF Still
  <2>2. pc'[Owner] = "run" /\ batch'[Owner] = batch[Owner]
    BY <2>1, FrontKept DEF Busy
  <2> QED
    BY <2>1, <2>2 DEF Busy, Running
<1>2. CASE CompatSettles
  <2> DEFINE c == Head(batch[Owner]).cmd
  <2>1. /\ Running(Owner) /\ c.kind = "EnsureCompat" /\ UNCHANGED vars
        /\ job'[Owner] = AppJob(c.ids, c.gen)
    BY <1>0, <1>2, BecomesOne DEF CompatSettles, AppJob
  <2>2. c.ids \in SUBSET Apps /\ c.gen \in Nat
    BY <1>0, <2>1, FrontTyped DEF Running, Base, Ordered, Inv, Command
  <2>3. AppJob(c.ids, c.gen).app = c.ids /\ AppJob(c.ids, c.gen).gen = c.gen
    BY <2>2, AppForm
  <2> HIDE DEF c
  <2>4. UNCHANGED <<pc, batch>>
    BY <2>1 DEF vars, threads
  <2> QED
    BY <2>1, <2>3, <2>4 DEF Running, c
<1>3. CASE Coordinate(Owner) \/ Validate(Owner)
  <2>1. ~Rejected(Owner)
    BY <1>0, AfterOne DEF Rejected
  <2>2. ~Validate(Owner)
    BY <1>0, <2>1, AfterOne DEF Validate, ValidateAndSubmit, ValidateAndRun
  <2>3. call[Owner] = "coordinate" /\ job'[Owner] = job[Owner] /\ UNCHANGED vars
    BY <1>0, <1>3, <2>1, <2>2, BecomesOne DEF Coordinate
  <2>4. UNCHANGED <<pc, batch>>
    BY <2>3 DEF vars, threads
  <2> QED
    BY <2>3, <2>4 DEF Busy, Running
<1>4. ~CommitMembers(Owner) /\ ~CommitApp(Owner)
  BY <1>0, WhoStands DEF CommitMembers, CommitApp, At, Base
<1> QED
  BY <1>0, <1>1, <1>2, <1>3, <1>4, MoverIs DEF MoveOf

-----------------------------------------------------------------------------
(***************************************************************************)
(* No circle of waiting threads.  While no submission is refused for want  *)
(* of room, only a thread with the claim runs commands until the queue     *)
(* closes, so nobody waits behind an owner that waits for the coordinator; *)
(* and when it closes the coordinator has given up its mutex for good.     *)
(***************************************************************************)

\* The queue has room for whatever is being submitted.
Roomy ==
  \A t \in Threads :
    pc[t] \in {"hand", "swept"} => shuttingDown \/ CanPushBatch(pending, hand[t])

Refused(t) == pc[t] = "refused" \/ (pc[t] \in {"exec", "run"} /\ ~claimed[t])

Claimants == latched /\ \A t \in Threads : Refused(t) => shuttingDown

LEMMA ClaimantsStep ==
  ASSUME QueueEnabled, Base, Session, Roomy, Claimants, HotNext
  PROVE  Claimants'
<1>0. pc \in [Threads -> PC] /\ claimed \in [Threads -> BOOLEAN] /\ latched
  BY DEF Base, Ordered, Ownership, Claimants
<1>1. latched'
  <2>1. ASSUME \/ \E e \in Edits : LoadSettings(e)
               \/ \E app \in Apps : Forget(app)
               \/ Publish \/ Initialize \/ CoordinatorShutdown \/ QueueShutdown
        PROVE  UNCHANGED latched
    BY <2>1 DEF LoadSettings, Forget, Publish, Initialize, CoordinatorShutdown,
                QueueShutdown
  <2>2. ASSUME \/ \E r \in requests : Prepare(r) \/ DropRequest(r)
               \/ HandOff \/ HandedOff \/ Enrich \/ HotAdd \/ HotAdded
               \/ CompatSettles
        PROVE  UNCHANGED latched
    BY <2>2 DEF Prepare, DropRequest, HandOff, HandedOff, Enrich, HotAdd, HotAdded,
                CompatSettles
  <2>3. ASSUME NEW t \in Threads,
               Coordinate(t) \/ Validate(t) \/ CommitMembers(t) \/ CommitApp(t)
        PROVE  UNCHANGED latched
    BY <2>3 DEF Coordinate, Validate, Rejected, ValidateAndSubmit, ValidateAndRun,
                CommitMembers, CommitApp
  <2>4. ASSUME NEW t \in Threads, Execute(t) \/ QueueStep(t) \/ Stale
        PROVE  UNCHANGED latched
    BY <2>4, QueueStepKeeps DEF Execute, hot
  <2>5. CASE Stale
    BY <1>0, <2>4, <2>5, Distinct
  <2>6. CASE Latch
    BY <2>6 DEF Latch
  <2> QED
    BY <1>0, <2>1, <2>2, <2>3, <2>4, <2>5, <2>6, HotCases
<1>2. shuttingDown => shuttingDown'
  BY StaysOpen DEF QueueShutdown, Shutdown
<1>3. ASSUME NEW u \in Threads, Refused(u)' PROVE Refused(u) \/ shuttingDown
  <2>1. ASSUME UNCHANGED <<pc, claimed>> PROVE Refused(u)
    BY <1>3, <2>1 DEF Refused
  <2>2. ASSUME NEW t \in Threads, NEW b, Submit(t, b)
        PROVE  Refused(u)
    BY <1>0, <1>3, <2>2 DEF Submit, Refused
  <2>3. ASSUME NEW t, (\E c : RunPublishing(t, c)) \/ RunCommand(t)
        PROVE  UNCHANGED <<pc, claimed>>
    BY <2>3 DEF RunPublishing, RunCommand
  <2>4. ASSUME NEW t \in Threads, QueueStep(t)
        PROVE  Refused(u) \/ shuttingDown
    <3>1. CASE Drain(Owner)
      BY <1>0, <1>3, <3>1, Distinct DEF Drain, Claim, Take, Refused
    <3>2. CASE FlushStale(t)
      BY <1>0, <1>3, <3>2 DEF FlushStale, Claim, Take, Refused
    <3>3. CASE PushAccepted(t)
      BY <1>0, <1>3, <3>3 DEF PushAccepted, Refused
    <3>4. CASE PushRejected(t)
      BY <1>0, <1>3, <3>4 DEF PushRejected, Refused, Roomy
    <3>5. CASE ClaimInline(t)
      BY <1>0, <1>3, <3>5 DEF ClaimInline, Claim, Take, Refused
    <3>6. CASE pc[t] = "refused" /\ JoinInline(t)
      BY <1>0, <1>3, <3>6 DEF JoinInline, Refused, Claimants
    <3>7. CASE AcquireExec(t)
      BY <1>0, <1>3, <3>7 DEF AcquireExec, Refused
    <3>8. CASE FinishBatch(t) \/ ReleaseExecuting(t)
      BY <1>0, <1>3, <3>8 DEF FinishBatch, ReleaseExecuting, Return, Refused
    <3>9. CASE RunCommand(t) \/ RunAgain(t)
      BY <2>1, <3>9 DEF RunCommand, RunAgain
    <3> QED
      BY <1>0, <2>4, <3>1, <3>2, <3>3, <3>4, <3>5, <3>6, <3>7, <3>8, <3>9, QueueStepIs
  <2>5. ASSUME UNCHANGED vars \/ QueueShutdown \/ Stale
        PROVE  UNCHANGED <<pc, claimed>>
    BY <2>5 DEF vars, threads, QueueShutdown, Shutdown, Stale, Age
  <2> QED
    BY <2>1, <2>2, <2>3, <2>4, <2>5, QueuePart
<1> QED
  BY <1>1, <1>2, <1>3 DEF Claimants

\* The lock a thread waits for, and what its holder may wait for.
LEMMA WaitsForIs ==
  ASSUME NEW t \in Threads, WaitsFor(t) # NoThread
  PROVE  \/ pc[t] = "exec"
         \/ WaitsFor(t) = coord /\ call[t] \in {"boot", "publish", "coordinate"}
         \/ /\ WaitsFor(t) = pass
            /\ \/ call[t] \in {"forget", "validate"}
               \/ call[t] = "submit" /\ job[t].kind = "members"
BY DEF WaitsFor, At

LEMMA NobodyWaitsInACircle ==
  ASSUME Base, Session, Outside, Busy, Claimants
  PROVE  NoDeadlock
<1> SUFFICES ASSUME NEW S \in SUBSET Threads, S # {},
                    \A t \in S : WaitsFor(t) \in S
             PROVE  FALSE
  BY DEF NoDeadlock
<1>0. \A t \in S : t \in Threads /\ WaitsFor(t) # NoThread
  BY Distinct
<1>1. Ownership /\ OwnerClaims
  BY DEF Base, Ordered
\* A thread that holds m_exec while another waits for it.
<1>2. ASSUME NEW t \in S, pc[t] = "exec" PROVE FALSE
  <2>0. call[t] \in {"idle", "submit"}
    BY <1>0, <1>2 DEF Outside, Busy, Running
  <2>1. exec \in S /\ WaitsFor(t) = exec
    <3>1. WaitsFor(t) = exec
      BY <1>2, <2>0 DEF WaitsFor, At
    <3> QED
      BY <1>2, <3>1
  <2>2. exec \in Threads /\ pc[exec] = "run" /\ exec # t
    BY <1>0, <1>1, <1>2, <2>1 DEF Ownership
  <2>3. shuttingDown
    BY <1>0, <1>1, <1>2, <2>2 DEF Ownership, Claimants, Refused
  <2>4. coord = NoThread /\ call[exec] # "validate"
    <3>1. coord = NoThread /\ coord # exec
      BY <2>2, <2>3, ClosedIsOver, Distinct
    <3> QED
      BY <2>2, <3>1 DEF Base, Held, HoldsCoord
  <2>5. exec # Owner => call[exec] \in {"idle", "submit"}
    BY <2>2 DEF Outside
  <2>6. call[Owner] \in {"idle", "coordinate", "validate"}
    BY Distinct DEF Base, Stand, CallOK
  <2>7. WaitsFor(exec) = NoThread
    BY <2>2, <2>4, <2>5, <2>6 DEF WaitsFor, At
  <2> QED
    BY <1>0, <2>1, <2>7
\* A thread that holds the pass mutex waits for m_exec at most.
<1>3. ASSUME NEW t \in S, WaitsFor(t) = pass PROVE FALSE
  <2>1. pass \in S /\ pass \in Threads
    BY <1>0, <1>3
  <2>2. call[pass] = "submit" /\ job[pass].kind # "members"
    BY <2>1 DEF Base, Held, HoldsPass
  <2>3. WaitsFor(pass) # NoThread
    BY <1>0, <2>1
  <2>4. pc[pass] = "exec"
    BY <2>1, <2>2, <2>3, WaitsForIs
  <2> QED
    BY <1>2, <2>1, <2>4
\* A thread that holds the coordinator's mutex waits for the pass mutex or m_exec.
<1>4. ASSUME NEW t \in S, WaitsFor(t) = coord PROVE FALSE
  <2>1. coord \in S /\ coord \in Threads
    BY <1>0, <1>4
  <2>2. call[coord] \in {"validate", "submit"}
    BY <2>1 DEF Base, Held, HoldsCoord
  <2>3. WaitsFor(coord) # NoThread
    BY <1>0, <2>1
  <2>4. pc[coord] = "exec" \/ WaitsFor(coord) = pass
    BY <2>1, <2>2, <2>3, WaitsForIs
  <2> QED
    BY <1>2, <1>3, <2>1, <2>4
<1> QED
  BY <1>0, <1>2, <1>3, <1>4, WaitsForIs

\* With the owner latched before the session and the queue switched on, no
\* circle of threads ever waits for each other's locks, as long as no submission
\* is refused for want of room (hotreload.cpp, publishLocked and
\* publishPreparedBase; ownerwork.cpp, submitBatch).
THEOREM NoDeadlockAlways ==
  Unrestricted /\ QueueEnabled /\ LatchedFirst => (HotSpec /\ []Roomy => []NoDeadlock)
<1> SUFFICES ASSUME Unrestricted, QueueEnabled, LatchedFirst
             PROVE  HotSpec /\ []Roomy => []NoDeadlock
  OBVIOUS
<1> DEFINE I == Base /\ Session /\ Outside /\ Busy /\ Claimants
<1>1. HotInit => I
  <2> SUFFICES ASSUME HotInit PROVE Claimants
    BY BaseInit, SessionInit, OutsideInit, BusyInit
  <2> QED
    BY DEF HotInit, Init, Claimants, Refused
<1>2. I /\ Roomy /\ [HotNext]_allVars => I'
  <2> SUFFICES ASSUME I, Roomy, [HotNext]_allVars PROVE I'
    OBVIOUS
  <2>1. Base'
    BY BaseStep
  <2>2. CASE HotNext
    BY <2>1, <2>2, SessionStep, OutsideStep, BusyStep, ClaimantsStep
  <2>3. CASE UNCHANGED allVars
    <3>1. UNCHANGED <<shuttingDown, pc, claimed, batch, coord, initialized, generation,
                      managed, ready, latched, call, job>>
      BY <2>3 DEF allVars, vars, shared, threads, hot, locks, coordinator, calls
    <3> QED
      BY <2>1, <3>1 DEF Session, Outside, Busy, Running, Claimants, Refused
  <2> QED
    BY <2>2, <2>3
<1>3. I => NoDeadlock
  BY NobodyWaitsInACircle
<1> QED
  BY <1>1, <1>2, <1>3, PTL DEF HotSpec

-----------------------------------------------------------------------------
(***************************************************************************)
(* The tickets a step may add: those of the command it submits.            *)
(***************************************************************************)

Known == Live \cup done

\* Where the tickets of a step come from, in terms of the places.
LEMMA KnownWhere ==
  ASSUME NEW N,
         \A tk \in TicketsOf(pending') \cup done' :
           \/ tk \in N \/ tk \in TicketsOf(pending) \/ tk \in done
           \/ \E u \in Threads : tk \in TicketsOf(hand[u]) \cup TicketsOf(batch[u]),
         \A t \in Threads : \A tk \in TicketsOf(hand'[t]) \cup TicketsOf(batch'[t]) :
           \/ tk \in N \/ tk \in TicketsOf(pending) \/ tk \in done
           \/ \E u \in Threads : tk \in TicketsOf(hand[u]) \cup TicketsOf(batch[u])
  PROVE  Known' \subseteq Known \cup N
<1> SUFFICES ASSUME NEW tk, tk \in Live' \cup done' PROVE tk \in Live \cup done \cup N
  BY DEF Known
<1>1. \/ tk \in N \/ tk \in TicketsOf(pending) \/ tk \in done
      \/ \E u \in Threads : tk \in TicketsOf(hand[u]) \cup TicketsOf(batch[u])
  <2>1. CASE tk \in Live'
    BY <2>1, LiveInNext
  <2>2. CASE tk \in done'
    BY <2>2
  <2> QED
    BY <2>1, <2>2
<1> QED
  BY <1>1, LiveIn

LEMMA SubmitKnown ==
  ASSUME TypeOK, Places, NEW t \in Threads, NEW b \in Batches, Submit(t, b)
  PROVE  /\ Known' \subseteq Known \cup {NewTicket(t, b[i]) : i \in DOMAIN b}
         /\ \A i \in DOMAIN b : NewTicket(t, b[i]) \in Known'
<1> DEFINE h == [i \in DOMAIN b |-> NewEntry(t, b[i])]
           N == {NewTicket(t, b[i]) : i \in DOMAIN b}
<1>1. /\ hand' = [hand EXCEPT ![t] = h]
      /\ UNCHANGED <<pending, batch, done>>
  BY DEF Submit, shared, history
<1>2. TicketsOf(h) = N
  BY DEF TicketsOf, NewEntry
<1> HIDE DEF h, N
<1>3. hand'[t] = h /\ \A u \in Threads \ {t} : hand'[u] = hand[u]
  BY <1>1 DEF TypeOK
<1>4. Known' \subseteq Known \cup N
  BY <1>1, <1>2, <1>3, KnownWhere
<1>5. N \subseteq Live'
  BY <1>2, <1>3, LiveInNext
<1> QED
  BY <1>4, <1>5 DEF N, Known

LEMMA PublishingKnown ==
  ASSUME TypeOK, Places, NEW t \in Threads, NEW c, RunPublishing(t, c)
  PROVE  /\ Known' \subseteq Known \cup {NewTicket(t, c)}
         /\ ~shuttingDown => NewTicket(t, c) \in Known'
<1>1. /\ Running(t) /\ UNCHANGED <<pending, hand>> /\ Step(t)
      /\ done' = done \cup Head(batch[t]).tickets
                      \cup (IF shuttingDown THEN {} ELSE {NewTicket(t, c)})
  BY DEF RunPublishing, shared
<1>2. /\ batch[t] \in Seq(Entry) /\ batch[t] # <<>>
      /\ batch'[t] = Tail(batch[t])
      /\ \A u \in Threads \ {t} : batch'[u] = batch[u]
  BY <1>1 DEF Running, Step, TypeOK
<1>3. TicketsOf(batch[t]) = Head(batch[t]).tickets \cup TicketsOf(batch'[t])
  BY <1>2, TailTickets
<1>4. Known' \subseteq Known \cup {NewTicket(t, c)}
  BY <1>1, <1>2, <1>3, KnownWhere
<1> QED
  BY <1>1, <1>4 DEF Known

LEMMA ClaimKnown ==
  ASSUME TypeOK, Places, NEW t \in Threads, NEW extra \in Seq(Entry), Claim(t, extra),
         \/ extra = <<>> /\ hand' = hand
         \/ extra = hand[t] /\ hand' = [hand EXCEPT ![t] = <<>>],
         UNCHANGED done
  PROVE  Known' \subseteq Known
<1>1. /\ pending' = <<>> /\ batch' = [batch EXCEPT ![t] = pending \o extra]
  BY DEF Claim, Take
<1>2. TicketsOf(pending \o extra) = TicketsOf(pending) \cup TicketsOf(extra)
  BY ConcatTickets DEF TypeOK
<1>3. /\ batch'[t] = pending \o extra
      /\ \A u \in Threads \ {t} : batch'[u] = batch[u]
      /\ TicketsOf(pending') = {}
  BY <1>1, NoTickets DEF TypeOK
<1>4. \A u \in Threads : \/ hand'[u] = hand[u]
                         \/ hand'[u] = <<>>
  BY DEF TypeOK
<1>5. TicketsOf(extra) = {} \/ TicketsOf(extra) = TicketsOf(hand[t])
  BY NoTickets
<1>6. /\ \A tk \in TicketsOf(pending') \cup done' :
           tk \in {} \/ tk \in TicketsOf(pending) \/ tk \in done
      /\ \A u \in Threads : \A tk \in TicketsOf(hand'[u]) \cup TicketsOf(batch'[u]) :
           \/ tk \in {} \/ tk \in TicketsOf(pending)
           \/ \E v \in Threads : tk \in TicketsOf(hand[v]) \cup TicketsOf(batch[v])
  BY <1>2, <1>3, <1>4, <1>5, NoTickets
<1>7. Known' \subseteq Known \cup {}
  BY <1>6, KnownWhere
<1> QED
  BY <1>7

\* The front record is run, or pushed again.
LEMMA RunKnown ==
  ASSUME TypeOK, Places, NEW t \in Threads, RunCommand(t) \/ RunAgain(t)
  PROVE  Known' \subseteq Known
<1> DEFINE T == Head(batch[t]).tickets
<1>1. Running(t) /\ Step(t) /\ UNCHANGED hand
  BY DEF RunCommand, RunAgain
<1>2. /\ batch[t] \in Seq(Entry) /\ batch[t] # <<>>
      /\ batch'[t] = Tail(batch[t])
      /\ \A u \in Threads \ {t} : batch'[u] = batch[u]
  BY <1>1 DEF Running, Step, TypeOK
<1>3. TicketsOf(batch[t]) = T \cup TicketsOf(batch'[t])
  BY <1>2, TailTickets
<1>4. done' \subseteq done \cup T
  BY DEF RunCommand, RunAgain
<1>5. TicketsOf(pending') \subseteq TicketsOf(pending) \cup T
  <2>1. CASE UNCHANGED pending
    BY <2>1
  <2>2. CASE RunAgain(t) /\ pending' # pending
    <3> DEFINE e     == Head(batch[t])
               cmd   == [e.cmd EXCEPT !.attempt = IF t = Owner THEN @ + 1 ELSE @]
               again == [cmd |-> cmd, tickets |-> T, stale |-> FALSE]
    <3>1. /\ t = Owner => cmd.attempt < MaxAttempts
          /\ pending' = Push(pending, again)
      BY <2>2 DEF RunAgain
    <3>2. e \in Entry
      BY <1>2, HeadTailProperties
    <3>3. e.cmd \in Command /\ T \in SUBSET Ticket
      BY <3>2 DEF Entry
    <3> HIDE DEF e, T
    <3>4. cmd \in Command
      BY <3>1, <3>3, BoundsAssumption DEF Command
    <3> HIDE DEF cmd
    <3>5. again \in Entry /\ again.tickets = T
      BY <3>3, <3>4 DEF Entry
    <3> HIDE DEF again
    <3> QED
      BY <3>1, <3>5, PushTickets DEF TypeOK, Places, Records
  <2> QED
    BY <2>1, <2>2 DEF RunCommand, shared
<1> HIDE DEF T
<1>6. Known' \subseteq Known \cup {}
  BY <1>1, <1>2, <1>3, <1>4, <1>5, KnownWhere
<1> QED
  BY <1>6

\* A step that submits nothing adds no ticket.
LEMMA NothingKnown ==
  ASSUME Base, \/ UNCHANGED vars \/ QueueShutdown \/ Stale
               \/ \E t \in Threads : RunCommand(t) \/ QueueStep(t)
  PROVE  Known' \subseteq Known
<1>0. TypeOK /\ Hands /\ Places
  BY DEF Base, Ordered, Inv
<1>1. ASSUME UNCHANGED <<pending, hand, batch, done>> PROVE Known' \subseteq Known
  BY <1>1 DEF Known, Live, Queues
<1>2. CASE UNCHANGED vars
  BY <1>1, <1>2 DEF vars, shared, threads, history
<1>3. CASE QueueShutdown
  <2>1. pending' = <<>> /\ UNCHANGED <<hand, batch, done>>
    BY <1>3 DEF QueueShutdown, Shutdown, threads
  <2>2. Known' \subseteq Known \cup {}
    BY <2>1, NoTickets, KnownWhere
  <2> QED
    BY <2>2
<1>4. CASE Stale
  <2>1. TicketsOf(pending') = TicketsOf(pending) /\ UNCHANGED <<hand, batch, done>>
    BY <1>0, <1>4, AgeTickets DEF Stale, Age, threads, history, TypeOK
  <2>2. Known' \subseteq Known \cup {}
    BY <2>1, KnownWhere
  <2> QED
    BY <2>2
<1>5. ASSUME NEW t \in Threads, QueueStep(t) PROVE Known' \subseteq Known
  <2>1. CASE Drain(Owner)
    <3>1. Claim(Owner, <<>>) /\ UNCHANGED <<hand, done>>
      BY <2>1 DEF Drain, history
    <3> QED
      BY <1>0, <3>1, ClaimKnown, EmptySeq, Distinct
  <2>2. CASE FlushStale(t)
    <3>1. Claim(t, <<>>) /\ UNCHANGED <<hand, done>>
      BY <2>2 DEF FlushStale, history
    <3> QED
      BY <1>0, <3>1, ClaimKnown, EmptySeq
  <2>3. CASE PushAccepted(t)
    <3>1. /\ pending' = PushBatch(pending, hand[t])
          /\ hand' = [hand EXCEPT ![t] = <<>>]
          /\ pc[t] \in {"hand", "swept"}
          /\ UNCHANGED <<batch, done>>
      BY <2>3 DEF PushAccepted, history
    <3>2. TicketsOf(pending') = TicketsOf(pending) \cup TicketsOf(hand[t])
      BY <1>0, <3>1, HandLength, PushBatchTickets DEF TypeOK
    <3>3. \A u \in Threads : hand'[u] = hand[u] \/ TicketsOf(hand'[u]) = {}
      BY <1>0, <3>1, NoTickets DEF TypeOK
    <3>4. Known' \subseteq Known \cup {}
      BY <3>1, <3>2, <3>3, KnownWhere
    <3> QED
      BY <3>4
  <2>4. CASE ClaimInline(t)
    <3>1. /\ Claim(t, hand[t]) /\ hand' = [hand EXCEPT ![t] = <<>>]
          /\ UNCHANGED done /\ hand[t] \in Seq(Entry)
      BY <1>0, <2>4 DEF ClaimInline, history, TypeOK
    <3> QED
      BY <1>0, <3>1, ClaimKnown
  <2>5. CASE JoinInline(t)
    <3>1. /\ batch' = [batch EXCEPT ![t] = hand[t]]
          /\ hand' = [hand EXCEPT ![t] = <<>>]
          /\ UNCHANGED <<pending, done>>
      BY <2>5 DEF JoinInline, shared, history
    <3>2. \A u \in Threads : /\ hand'[u] = hand[u] \/ TicketsOf(hand'[u]) = {}
                             /\ batch'[u] = batch[u] \/ batch'[u] = hand[t]
      BY <1>0, <3>1, NoTickets DEF TypeOK
    <3>3. Known' \subseteq Known \cup {}
      BY <3>1, <3>2, KnownWhere
    <3> QED
      BY <3>3
  <2>6. CASE PushRejected(t) \/ AcquireExec(t) \/ FinishBatch(t) \/ ReleaseExecuting(t)
    <3>1. UNCHANGED <<pending, hand, batch, done>>
      BY <2>6 DEF PushRejected, AcquireExec, FinishBatch, ReleaseExecuting, shared,
                  history
    <3> QED
      BY <1>1, <3>1
  <2>7. CASE RunCommand(t) \/ RunAgain(t)
    BY <1>0, <2>7, RunKnown
  <2> QED
    BY <1>5, <2>1, <2>2, <2>3, <2>4, <2>5, <2>6, <2>7, QueueStepIs
<1> QED
  BY <1>0, <1>2, <1>3, <1>4, <1>5, RunKnown

-----------------------------------------------------------------------------
(***************************************************************************)
(* Submitting a snapshot and committing it, under the coordinator's mutex. *)
(***************************************************************************)

Sync == {tk \in Known : tk.cmd.kind = "SyncPackage0"}

\* The calls between the submission of a snapshot and its commit.
OwnsIn(c, j) == c = "submit" /\ j.kind \in {"members", "base", "metadata"}
Owned(t) == OwnsIn(call[t], job[t])

NobodyOwns == \A t \in Threads : ~Owned(t)

\* One more snapshot: the next generation, with these ids.
Adds(ids) == \E tk \in Sync' : /\ tk.cmd.gen = generation + 1 /\ tk.cmd.ids = ids
                               /\ Sync' \subseteq Sync \cup {tk}

SameOwners == \A t \in Threads : /\ Owned(t)' <=> Owned(t)
                                 /\ Owned(t) => Still(t)

\* No snapshot is submitted or committed.
Aside == Sync' \subseteq Sync /\ UNCHANGED coordinator /\ SameOwners

\* The bases that a thread chooses to publish.
Choice(t) == IF t \in {Main, Watcher} THEN ReadyOf(config) ELSE NextReady(t)

\* A thread submits one; the coordinator's state is the one it was made from.
Begins(t) ==
  /\ NobodyOwns /\ ~shuttingDown
  /\ t = Main => call[t] = "boot"
  /\ t # Main => initialized
  /\ initialized' /\ UNCHANGED <<generation, managed, ready, shuttingDown, config>>
  /\ Owned(t)' /\ Adds(job'[t].ids)
  /\ \A u \in Threads : u # t => ~Owned(u)' /\ Still(u)
  /\ job'[t].ids = Choice(t) /\ Valid(Choice(t))
  /\ IF t \in {Main, Watcher}
     THEN /\ job'[t].kind = "members" /\ job'[t].members = config
          /\ generation = 0 => config \subseteq prepared'
     ELSE /\ call[t] = "validate" /\ Current(t)
          /\ job'[t].kind # "members"

\* The thread commits it.
Commits(t) ==
  /\ Owned(t) /\ NobodyOwns' /\ Sync' \subseteq Sync
  /\ \A u \in Threads : u # t => Still(u)
  /\ generation' = generation + 1 /\ ready' = job[t].ids
  /\ managed' = IF job[t].kind = "members" THEN job[t].members ELSE managed
  /\ UNCHANGED <<initialized, config>>
  /\ call'[t] \in {"idle", "enrich"}

\* The owner does both in one step.
BeginsAndCommits ==
  /\ NobodyOwns /\ NobodyOwns' /\ ~shuttingDown /\ initialized
  /\ Adds(ready') /\ generation' = generation + 1
  /\ call[Owner] = "validate" /\ Current(Owner) /\ ready' = NextReady(Owner)
  /\ UNCHANGED <<initialized, managed, config, shuttingDown>>
  /\ \A u \in Threads : u # Owner => Still(u)

LEMMA KnownTyped ==
  ASSUME TypeOK
  PROVE  Known \subseteq Ticket
<1>1. Live \subseteq Ticket
  BY LiveIn, TicketsTyped DEF TypeOK
<1> QED
  BY <1>1 DEF Known, TypeOK

LEMMA SyncTyped ==
  ASSUME TypeOK, NEW tk \in Sync
  PROVE  tk \in Ticket /\ tk.cmd.gen \in Nat /\ tk.cmd.ids \in SUBSET Apps
<1>1. tk \in Ticket
  BY KnownTyped DEF Sync
<1>2. tk.cmd \in Command
  BY <1>1 DEF Ticket
<1> QED
  BY <1>1, <1>2 DEF Command

\* The mutex tells who submits.
LEMMA OwnedHolds ==
  ASSUME Held, NEW t \in Threads, Owned(t)
  PROVE  coord = t
BY DEF Held, HoldsCoord, Owned, OwnsIn

LEMMA NobodyElse ==
  ASSUME Held
  PROVE  /\ coord = NoThread => NobodyOwns
         /\ \A t \in Threads : call[t] = "validate" => NobodyOwns
         /\ \A t, u \in Threads : Owned(t) /\ u # t => ~Owned(u)
<1>1. coord = NoThread => NobodyOwns
  BY OwnedHolds, Distinct DEF NobodyOwns
<1>2. ASSUME NEW t \in Threads, call[t] = "validate" PROVE NobodyOwns
  <2>1. coord = t /\ ~Owned(t)
    BY <1>2 DEF Held, HoldsCoord, Owned, OwnsIn
  <2> QED
    BY <2>1, OwnedHolds DEF NobodyOwns
<1> QED
  BY <1>1, <1>2, OwnedHolds

\* A call that neither submits a snapshot nor has submitted one.
LEMMA OwnersElsewhere ==
  ASSUME CallsOK, NEW t \in Threads, NEW c, NEW j, Becomes(t, c, j),
         ~Owned(t), ~OwnsIn(c, j)
  PROVE  SameOwners
<1>1. /\ call'[t] = c /\ job'[t] = j
      /\ \A u \in Threads : u # t => Still(u)
  BY BecomesOne
<1>2. ASSUME NEW u \in Threads PROVE (Owned(u)' <=> Owned(u)) /\ (Owned(u) => Still(u))
  <2>1. CASE u = t
    BY <1>1, <2>1 DEF Owned, OwnsIn
  <2>2. CASE u # t
    BY <1>1, <2>2 DEF Owned, OwnsIn, Still
  <2> QED
    BY <2>1, <2>2
<1> QED
  BY <1>2 DEF SameOwners

LEMMA OwnersStill ==
  ASSUME UNCHANGED calls
  PROVE  SameOwners
BY DEF calls, SameOwners, Owned, OwnsIn, Still

LEMMA SyncStays ==
  ASSUME Known' \subseteq Known
  PROVE  Sync' \subseteq Sync
BY DEF Sync

\* A batch that holds no snapshot.
LEMMA SubmitOther ==
  ASSUME Base, NEW t \in Threads, NEW b \in Batches, Submit(t, b),
         \A i \in DOMAIN b : b[i].kind # "SyncPackage0"
  PROVE  Sync' \subseteq Sync
<1>1. Known' \subseteq Known \cup {NewTicket(t, b[i]) : i \in DOMAIN b}
  BY SubmitKnown DEF Base, Ordered, Inv
<1> QED
  BY <1>1 DEF Sync, NewTicket

\* A snapshot of the next generation, submitted or run on the spot.
LEMMA SubmitAdds ==
  ASSUME Base, NEW t \in Threads, NEW ids \in SUBSET Apps, NEW added \in SUBSET Apps,
         LET c == syncPackage0(generation + 1, ids, added) IN
         \/ <<c>> \in Batches /\ Submit(t, <<c>>)
         \/ ~shuttingDown /\ RunPublishing(t, c)
  PROVE  Adds(ids)
<1> DEFINE c == syncPackage0(generation + 1, ids, added)
           tk == NewTicket(t, c)
<1>0. TypeOK /\ Places
  BY DEF Base, Ordered, Inv
<1>1. tk.cmd = c /\ c.kind = "SyncPackage0" /\ c.gen = generation + 1 /\ c.ids = ids
  BY DEF NewTicket, syncPackage0, command
<1>2. Known' \subseteq Known \cup {tk} /\ tk \in Known'
  <2>1. CASE <<c>> \in Batches /\ Submit(t, <<c>>)
    <3> DEFINE b == <<c>>
    <3>1. DOMAIN b = {1} /\ b[1] = c
      OBVIOUS
    <3>2. b \in Batches /\ Submit(t, b)
      BY <2>1
    <3> HIDE DEF b, c
    <3>3. /\ Known' \subseteq Known \cup {NewTicket(t, b[i]) : i \in DOMAIN b}
          /\ \A i \in DOMAIN b : NewTicket(t, b[i]) \in Known'
      BY <1>0, <3>2, SubmitKnown
    <3> QED
      BY <3>1, <3>3
  <2>2. CASE ~shuttingDown /\ RunPublishing(t, c)
    <3> HIDE DEF c
    <3> QED
      BY <1>0, <2>2, PublishingKnown
  <2> QED
    BY <2>1, <2>2
<1> HIDE DEF c, tk
<1> QED
  BY <1>1, <1>2 DEF Adds, Sync

\* The coordinator submits the members, or finds nothing to publish.
LEMMA PublishLockedBegins ==
  ASSUME Unrestricted, Base, NEW t \in {Main, Watcher}, NEW changed \in SUBSET Apps,
         call[t] = IF t = Main THEN "boot" ELSE "publish",
         coord = NoThread, PublishLocked(t, changed),
         t # Main => initialized,
         initialized', UNCHANGED <<generation, managed, ready>>
  PROVE  \/ Begins(t)
         \/ /\ ~Publishable(config, changed) /\ NobodyOwns /\ SameOwners
            /\ Sync' \subseteq Sync /\ UNCHANGED vars
            /\ call'[t] = "idle" /\ job'[t] = NoJob
<1> DEFINE fetch == IF t = Main THEN {}
                    ELSE (config \ managed) \cup (changed \cap config)
           j == MembersJob(config, ReadyOf(config), Announced(config), fetch)
<1>0. CallsOK /\ t \in Threads /\ NobodyOwns
  BY Distinct, NobodyElse DEF Base, HotTypeOK, CallsOK, Calls
<1>1. /\ ReadyOf(config) \in SUBSET Apps /\ Announced(config) \in SUBSET Apps
      /\ config \in SUBSET Apps /\ fetch \in SUBSET Apps /\ generation \in Nat
  BY DEF Base, HotTypeOK, ReadyOf, Announced
<1>2. j.kind = "members" /\ j.members = config /\ j.ids = ReadyOf(config)
  BY <1>1, MembersForm
<1>3. CASE /\ Publishable(config, changed) /\ Becomes(t, "submit", j)
           /\ UNCHANGED config /\ (generation = 0 => config \subseteq prepared')
           /\ Submit(t, <<syncPackage0(generation + 1, ReadyOf(config),
                                       Announced(config))>>)
  <2> HIDE DEF j
  <2>1. /\ call'[t] = "submit" /\ job'[t] = j
        /\ \A u \in Threads : u # t => Still(u)
    BY <1>0, <1>3, BecomesOne
  <2>2. Adds(ReadyOf(config))
    <3>1. <<syncPackage0(generation + 1, ReadyOf(config), Announced(config))>> \in Batches
      BY <1>1 DEF Unrestricted
    <3> QED
      BY <1>0, <1>1, <1>3, <3>1, SubmitAdds
  <2>3. Owned(t)' /\ \A u \in Threads : u # t => ~Owned(u)'
    BY <1>0, <1>2, <2>1 DEF NobodyOwns, Owned, OwnsIn, Still
  <2>4. ~shuttingDown /\ UNCHANGED shuttingDown /\ Valid(ReadyOf(config))
    BY <1>3 DEF Publishable, Submit, shared
  <2> QED
    BY <1>0, <1>2, <1>3, <2>1, <2>2, <2>3, <2>4 DEF Begins, Choice
<1>4. CASE /\ ~Publishable(config, changed) /\ Becomes(t, "idle", NoJob)
           /\ UNCHANGED vars
  <2>1. ~Owned(t) /\ ~OwnsIn("idle", NoJob)
    BY <1>0 DEF NobodyOwns, OwnsIn
  <2>2. SameOwners
    BY <1>0, <1>4, <2>1, OwnersElsewhere
  <2> QED
    BY <1>0, <1>4, <2>2, NothingKnown, SyncStays, BecomesOne
<1> QED
  BY <1>3, <1>4 DEF PublishLocked, MembersJob, provisioning

\* A publication for one app is rejected, begun, or begun and committed.
LEMMA ValidateBegins ==
  ASSUME Unrestricted, Base, Session, NEW t \in Threads, Validate(t)
  PROVE  Aside \/ Begins(t) \/ BeginsAndCommits
<1>0. CallsOK /\ NobodyOwns /\ call[t] = "validate" /\ initialized /\ t \in {Worker, Owner} /\ job[t] \in Job
  <2>1. call[t] = "validate" /\ coord = t
    BY DEF Validate, Base, Held, HoldsCoord
  <2> QED
    BY <2>1, NobodyElse, WhoStands, Distinct
    DEF Session, Base, HotTypeOK, CallsOK, Calls
<1>1. /\ NextReady(t) \in SUBSET Apps /\ generation \in Nat
      /\ job[t].app \in SUBSET Apps
  BY <1>0 DEF Base, HotTypeOK, NextReady, Job
<1>2. CASE Rejected(t)
  <2>1. After(t) /\ UNCHANGED coordinator /\ (RunCommand(t) \/ UNCHANGED vars)
    BY <1>2 DEF Rejected
  <2>2. SameOwners
    <3>1. ~OwnsIn("enrich", [job[t] EXCEPT !.kind = "none"]) /\ ~OwnsIn("idle", NoJob)
      BY DEF OwnsIn
    <3> QED
      BY <1>0, <2>1, <3>1, OwnersElsewhere DEF After, NobodyOwns
  <2> QED
    BY <2>1, <2>2, NothingKnown, SyncStays DEF Aside
<1>3. CASE Current(t) /\ ~shuttingDown /\ ValidateAndSubmit(t)
  <2> DEFINE added == IF job[t].kind = "base" THEN job[t].app ELSE {}
             c == syncPackage0(generation + 1, NextReady(t), added)
             j == [job[t] EXCEPT !.ids = NextReady(t)]
  <2>1. Becomes(t, "submit", j) /\ Submit(t, <<c>>) /\ t = Worker
    BY <1>0, <1>3 DEF ValidateAndSubmit, AppSnapshot
  <2>2. <<c>> \in Batches /\ added \in SUBSET Apps
    BY <1>1 DEF Unrestricted
  <2>3. Adds(NextReady(t))
    <3> HIDE DEF added
    <3> QED
      BY <1>0, <1>1, <2>1, <2>2, SubmitAdds
  <2>4. j.ids = NextReady(t) /\ j.kind = job[t].kind
    BY <1>0, <1>1, JobForms
  <2>5. job[t].kind \in {"base", "metadata"}
    BY <1>3, <2>1, Distinct DEF Validate, Base, Stand, CallOK
  <2> HIDE DEF j, c
  <2>6. /\ call'[t] = "submit" /\ job'[t] = j
        /\ \A u \in Threads : u # t => Still(u)
    BY <1>0, <2>1, BecomesOne
  <2>7. Owned(t)' /\ \A u \in Threads : u # t => ~Owned(u)'
    BY <1>0, <2>4, <2>5, <2>6 DEF NobodyOwns, Owned, OwnsIn, Still
  <2>8. UNCHANGED <<initialized, generation, managed, ready, shuttingDown, config>>
    BY <1>3, <2>1 DEF ValidateAndSubmit, coordinator, provisioning, Submit, shared
  <2> QED
    BY <1>0, <1>3, <2>1, <2>3, <2>4, <2>5, <2>6, <2>7, <2>8, Distinct
    DEF Begins, Choice, Current
<1>4. CASE Current(t) /\ ~shuttingDown /\ ValidateAndRun(t)
  <2> DEFINE added == IF job[t].kind = "base" THEN job[t].app ELSE {}
             c == syncPackage0(generation + 1, NextReady(t), added)
  <2>1. After(t) /\ RunPublishing(t, c) /\ t = Owner
    BY <1>4 DEF ValidateAndRun, AppSnapshot
  <2>2. added \in SUBSET Apps
    BY <1>1
  <2>3. Adds(NextReady(t))
    <3> HIDE DEF added
    <3> QED
      BY <1>0, <1>1, <1>4, <2>1, <2>2, SubmitAdds
  <2>4. call'[t] = "idle" /\ \A u \in Threads : u # t => Still(u)
    BY <1>0, <2>1, AfterOne, Distinct
  <2>5. NobodyOwns'
    BY <1>0, <2>4 DEF NobodyOwns, Owned, OwnsIn, Still
  <2>6. UNCHANGED <<initialized, managed, config, shuttingDown>>
    BY <1>4 DEF ValidateAndRun, provisioning, RunPublishing, shared
  <2>7. ready' = NextReady(t) /\ generation' = generation + 1
    BY <1>4 DEF ValidateAndRun
  <2> QED
    BY <1>0, <1>4, <2>1, <2>3, <2>4, <2>5, <2>6, <2>7 DEF BeginsAndCommits
<1> QED
  BY <1>2, <1>3, <1>4 DEF Validate

LEMMA CommitCommits ==
  ASSUME Base, NEW t \in Threads, CommitMembers(t) \/ CommitApp(t)
  PROVE  Commits(t)
<1>0. CallsOK /\ Owned(t)
  BY DEF Base, HotTypeOK, CallsOK, Calls, CommitMembers, CommitApp, At, Owned, OwnsIn
<1>1. /\ call'[t] \in {"idle", "enrich"}
      /\ \A u \in Threads : u # t => Still(u)
  BY <1>0, BecomesOne, AfterOne DEF CommitMembers, CommitApp
<1>2. NobodyOwns'
  <2>1. \A u \in Threads : u # t => ~Owned(u)
    BY <1>0, NobodyElse DEF Base
  <2> QED
    BY <1>1, <2>1 DEF NobodyOwns, Owned, OwnsIn, Still
<1>3. Sync' \subseteq Sync
  <2>1. UNCHANGED vars
    BY DEF CommitMembers, CommitApp
  <2> QED
    BY <2>1, NothingKnown, SyncStays
<1>4. CASE CommitMembers(t)
  BY <1>0, <1>1, <1>2, <1>3, <1>4 DEF Commits, CommitMembers
<1>5. CASE CommitApp(t)
  BY <1>0, <1>1, <1>2, <1>3, <1>5 DEF Commits, CommitApp, provisioning
<1> QED
  BY <1>4, <1>5

\* What every step is to the coordinator's snapshots.
LEMMA SnapshotCases ==
  ASSUME Unrestricted, Base, Session, HotNext
  PROVE  \/ Aside
         \/ /\ Initialize /\ ~Publishable(config, {}) /\ NobodyOwns /\ SameOwners
            /\ Sync' \subseteq Sync /\ UNCHANGED vars /\ call'[Main] = "idle"
         \/ CoordinatorShutdown /\ SameOwners /\ Sync' \subseteq Sync
         \/ \E t \in Threads : Begins(t) \/ Commits(t)
         \/ BeginsAndCommits
<1>0. CallsOK
  BY DEF Base, HotTypeOK, CallsOK, Calls
<1>1. ASSUME NEW t \in Threads, NEW c, NEW j, Becomes(t, c, j),
             ~Owned(t), ~OwnsIn(c, j), Known' \subseteq Known, UNCHANGED coordinator
      PROVE  Aside
  BY <1>0, <1>1, OwnersElsewhere, SyncStays DEF Aside
<1>2. UNCHANGED vars => Known' \subseteq Known
  BY NothingKnown
<1>3. ASSUME NEW e \in Edits, LoadSettings(e) PROVE Aside
  <2> DEFINE removed == config \ e.ids
  <2>1. /\ call[Watcher] = "idle" /\ UNCHANGED <<vars, coordinator>>
        /\ Becomes(Watcher, IF removed = {} THEN "publish" ELSE "forget",
                   [NoJob EXCEPT !.app = removed, !.fetch = e.changed])
    BY <1>3 DEF LoadSettings, At
  <2> HIDE DEF removed
  <2> QED
    BY <1>1, <1>2, <2>1, Distinct DEF Owned, OwnsIn
<1>4. ASSUME NEW app \in Apps, Forget(app) PROVE Aside
  <2> DEFINE left == job[Watcher].app \ {app}
  <2>1. /\ call[Watcher] = "forget" /\ UNCHANGED <<vars, coordinator>>
        /\ Becomes(Watcher, IF left = {} THEN "publish" ELSE "forget",
                   [job[Watcher] EXCEPT !.app = left])
    BY <1>4 DEF Forget, At
  <2> HIDE DEF left
  <2> QED
    BY <1>1, <1>2, <2>1, Distinct DEF Owned, OwnsIn
<1>5. CASE Publish
  <2>1. call[Watcher] = "publish" /\ coord = NoThread /\ UNCHANGED coordinator
    BY <1>5 DEF Publish, At
  <2>2. CASE initialized /\ PublishLocked(Watcher, job[Watcher].fetch)
    <3>1. job[Watcher].fetch \in SUBSET Apps
      BY Distinct DEF Base, HotTypeOK, Job
    <3> QED
      BY <2>1, <2>2, <3>1, PublishLockedBegins, Distinct DEF coordinator, Aside
  <2>3. CASE Becomes(Watcher, "idle", NoJob) /\ UNCHANGED vars
    BY <1>1, <1>2, <2>1, <2>3, Distinct DEF Owned, OwnsIn
  <2> QED
    BY <1>5, <2>2, <2>3 DEF Publish
<1>6. CASE Initialize
  <2>1. /\ call[Main] = "boot" /\ coord = NoThread /\ initialized'
        /\ PublishLocked(Main, {}) /\ UNCHANGED <<generation, managed, ready>>
    BY <1>6 DEF Initialize, At
  <2> QED
    BY <1>6, <2>1, PublishLockedBegins, Distinct
<1>7. ASSUME NEW r \in requests, Prepare(r) PROVE Aside
  <2>1. /\ call[Worker] = "idle" /\ UNCHANGED <<vars, coordinator>>
        /\ Becomes(Worker, IF r.app \in CompatApps THEN "handoff" ELSE "coordinate",
                   AppJob({r.app}, r.gen))
    BY <1>7 DEF Prepare, At, AppJob
  <2> QED
    BY <1>1, <1>2, <2>1, Distinct DEF Owned, OwnsIn
<1>8. CASE HandOff
  <2> DEFINE b == <<ensureCompat(TheApp(Worker), job[Worker].gen, 0)>>
             j == [job[Worker] EXCEPT !.kind = "none"]
  <2>1. call[Worker] = "handoff" /\ UNCHANGED coordinator
    BY <1>8 DEF HandOff, At
  <2>2. job[Worker] \in Job /\ \E app \in Apps : job[Worker].app = {app}
    BY <2>1, Distinct DEF Base, HotTypeOK, Stand, CallOK
  <2>3. TheApp(Worker) \in Apps /\ job[Worker].gen \in Nat
    BY <2>2, TheAppIs, Distinct DEF Job
  <2>4. b \in Batches /\ \A i \in DOMAIN b : b[i].kind # "SyncPackage0"
    BY <2>3 DEF Unrestricted, ensureCompat, command
  <2>5. j.kind = "none"
    BY <2>2, JobForms
  <2>6. \/ Submit(Worker, b) /\ Becomes(Worker, "submit", j)
        \/ UNCHANGED vars /\ Becomes(Worker, "enrich", j)
    BY <1>8 DEF HandOff
  <2> HIDE DEF b, j
  <2>7. SameOwners
    BY <1>0, <2>1, <2>5, <2>6, OwnersElsewhere, Distinct DEF Owned, OwnsIn
  <2>8. Sync' \subseteq Sync
    BY <1>2, <2>4, <2>6, SubmitOther, SyncStays, Distinct
  <2> QED
    BY <2>1, <2>7, <2>8 DEF Aside
<1>9. CASE HandedOff
  <2>1. /\ job[Worker].kind = "none" /\ UNCHANGED <<vars, coordinator>>
        /\ Becomes(Worker, "enrich", job[Worker])
    BY <1>9 DEF HandedOff
  <2> QED
    BY <1>1, <1>2, <2>1, Distinct DEF Owned, OwnsIn
<1>10. CASE Enrich
  <2>1. /\ call[Worker] = "enrich" /\ UNCHANGED <<vars, coordinator>>
        /\ \/ Becomes(Worker, "coordinate", [job[Worker] EXCEPT !.kind = "metadata"])
           \/ Becomes(Worker, "idle", NoJob)
    BY <1>10 DEF Enrich, At
  <2> QED
    BY <1>1, <1>2, <2>1, Distinct DEF Owned, OwnsIn
<1>11. CASE HotAdd
  <2> DEFINE b == <<injectPackage0(config), reconcileLicenses>>
             j == [NoJob EXCEPT !.kind = "hotadd"]
  <2>1. /\ call[Picser] = "idle" /\ UNCHANGED coordinator
        /\ Submit(Picser, b) /\ Becomes(Picser, "submit", j)
    BY <1>11 DEF HotAdd, At
  <2>2. b \in Batches /\ \A i \in DOMAIN b : b[i].kind # "SyncPackage0"
    BY DEF Unrestricted, injectPackage0, reconcileLicenses, command, Base, HotTypeOK
  <2>3. j.kind = "hotadd"
    BY JobForms
  <2> HIDE DEF b, j
  <2>4. SameOwners
    BY <1>0, <2>1, <2>3, OwnersElsewhere, Distinct DEF Owned, OwnsIn
  <2>5. Sync' \subseteq Sync
    BY <2>1, <2>2, SubmitOther, Distinct
  <2> QED
    BY <2>1, <2>4, <2>5 DEF Aside
<1>12. CASE HotAdded
  <2>1. /\ call[Picser] = "submit" /\ UNCHANGED <<vars, coordinator>>
        /\ Becomes(Picser, "idle", NoJob)
    BY <1>12 DEF HotAdded, At
  <2>2. job[Picser].kind = "hotadd"
    BY <2>1, Distinct DEF Base, Stand, CallOK
  <2> QED
    BY <1>1, <1>2, <2>1, <2>2, Distinct DEF Owned, OwnsIn
<1>13. CASE CompatSettles
  <2>1. /\ call[Owner] = "idle" /\ UNCHANGED <<vars, coordinator>>
        /\ \E j : Becomes(Owner, "coordinate", j)
    BY <1>13 DEF CompatSettles
  <2> QED
    BY <1>1, <1>2, <2>1, Distinct DEF Owned, OwnsIn
<1>14. CASE CoordinatorShutdown
  <2>1. call[Main] = "idle" /\ UNCHANGED vars /\ Becomes(Main, "closing", NoJob)
    BY <1>14 DEF CoordinatorShutdown, At
  <2>2. SameOwners
    BY <1>0, <2>1, OwnersElsewhere, Distinct DEF Owned, OwnsIn
  <2> QED
    BY <1>2, <1>14, <2>1, <2>2, SyncStays
<1>15. CASE QueueShutdown
  <2>1. call[Main] = "closing" /\ UNCHANGED coordinator /\ Becomes(Main, "gone", NoJob)
    BY <1>15 DEF QueueShutdown, At
  <2> QED
    BY <1>1, <1>15, <2>1, NothingKnown, Distinct DEF Owned, OwnsIn
<1>16. CASE Latch \/ (\E r \in requests : DropRequest(r))
  <2>1. UNCHANGED <<vars, calls, coordinator>>
    BY <1>16 DEF Latch, DropRequest
  <2> QED
    BY <1>2, <2>1, OwnersStill, SyncStays DEF Aside
<1>17. ASSUME NEW t \in Threads, Coordinate(t) PROVE Aside
  <2>1. /\ call[t] = "coordinate" /\ UNCHANGED coordinator
        /\ After(t) \/ Becomes(t, "validate", job[t])
        /\ RunCommand(t) \/ UNCHANGED vars
    BY <1>17 DEF Coordinate, Rejected
  <2>2. ~Owned(t) /\ Known' \subseteq Known
    BY <2>1, NothingKnown DEF Owned, OwnsIn
  <2>3. ~OwnsIn("enrich", [job[t] EXCEPT !.kind = "none"]) /\ ~OwnsIn("idle", NoJob)
        /\ ~OwnsIn("validate", job[t])
    BY DEF OwnsIn
  <2> QED
    BY <1>1, <2>1, <2>2, <2>3 DEF After
<1>18. ASSUME NEW t \in Threads, Execute(t) PROVE Aside
  <2>1. UNCHANGED <<calls, coordinator>> /\ RunCommand(t)
    BY <1>18 DEF Execute
  <2> QED
    BY <2>1, NothingKnown, OwnersStill, SyncStays DEF Aside
<1>19. ASSUME NEW t \in Threads, QueueStep(t) \/ Stale PROVE Aside
  <2>1. UNCHANGED <<calls, coordinator>>
    BY <1>19, QueueStepKeeps DEF hot
  <2> QED
    BY <1>19, <2>1, NothingKnown, OwnersStill, SyncStays DEF Aside
<1>20. CASE Stale
  BY <1>19, <1>20, Distinct
<1> QED
  BY <1>3, <1>4, <1>5, <1>6, <1>7, <1>8, <1>9, <1>10, <1>11, <1>12, <1>13, <1>14,
     <1>15, <1>16, <1>17, <1>18, <1>19, <1>20, ValidateBegins, CommitCommits, HotCases

-----------------------------------------------------------------------------
(***************************************************************************)
(* A generation names one snapshot.                                        *)
(***************************************************************************)

\* Nothing is numbered beyond the generation being published, and within a
\* session numbers are not used again.
Numbering ==
  /\ \A tk, uk \in Sync : tk.cmd.gen = uk.cmd.gen => tk = uk
  /\ initialized => \A tk \in Sync : \/ tk.cmd.gen <= generation
                                     \/ tk.cmd.gen = generation + 1 /\ ~NobodyOwns
  /\ call[Main] = "boot" => Sync = {}

LEMMA KnownInit == HotInit => Known = {}
<1> SUFFICES ASSUME HotInit PROVE Known = {}
  OBVIOUS
<1>1. done = {} /\ pending = <<>> /\ \A t \in Threads : hand[t] = <<>> /\ batch[t] = <<>>
  BY DEF HotInit, Init
<1>2. Live = {}
  BY <1>1, LiveIn, NoTickets
<1> QED
  BY <1>1, <1>2 DEF Known

LEMMA NumberingInit == HotInit => Numbering
BY KnownInit DEF Numbering, Sync

LEMMA BootLeft ==
  ASSUME Base, HotNext, call'[Main] = "boot"
  PROVE  call[Main] = "boot"
<1>0. CallsOK /\ Main \in Threads
  BY Distinct DEF Base, HotTypeOK, CallsOK, Calls
<1>1. ASSUME NEW c, NEW j, Becomes(Main, c, j), c # "boot" PROVE FALSE
  BY <1>0, <1>1, BecomesOne
<1>2. CASE MoveOf(Main)
  <2>1. ~CommitApp(Main) /\ ~Coordinate(Main) /\ ~Validate(Main)
    BY <1>0, WhoStands, Distinct DEF Base, CommitApp, Coordinate, Validate, At
  <2> QED
    BY <1>1, <1>2, <2>1, Distinct
    DEF MoveOf, Initialize, PublishLocked, CoordinatorShutdown, QueueShutdown,
        CommitMembers
<1> QED
  BY <1>0, <1>2, MoverIs DEF Still

LEMMA NumberingStep ==
  ASSUME Unrestricted, Base, Session, Numbering, HotNext
  PROVE  Numbering'
<1>0. /\ generation \in Nat /\ Main \in Threads
      /\ call[Main] = "boot" => ~initialized /\ generation = 0
  BY Distinct DEF Base, HotTypeOK, Session
<1>1. \A tk \in Sync : tk.cmd.gen \in Nat
  BY SyncTyped DEF Base, Ordered, Inv
\* The mover of the main thread's call out of boot does not come back.
<1>2. call'[Main] = "boot" => call[Main] = "boot"
  BY <1>0, BootLeft
<1>3. CASE Aside
  <2>1. NobodyOwns' => NobodyOwns
    BY <1>3 DEF Aside, SameOwners, NobodyOwns
  <2> QED
    BY <1>2, <1>3, <2>1 DEF Numbering, Aside, coordinator
<1>4. CASE \/ Initialize /\ Sync' \subseteq Sync
           \/ CoordinatorShutdown /\ Sync' \subseteq Sync
  <2>1. Initialize => Sync = {}
    BY DEF Initialize, At, Numbering
  <2>2. CoordinatorShutdown => ~initialized'
    BY DEF CoordinatorShutdown
  <2> QED
    BY <1>2, <1>4, <2>1, <2>2 DEF Numbering
\* The generation of the new snapshot is that of no other.
<1>5. ASSUME NobodyOwns, NEW ids, Adds(ids), initialized \/ call[Main] = "boot"
      PROVE  /\ \A tk, uk \in Sync' : tk.cmd.gen = uk.cmd.gen => tk = uk
             /\ \A tk \in Sync' : /\ tk.cmd.gen \in Nat
                                  /\ tk.cmd.gen <= generation \/ tk.cmd.gen = generation + 1
  <2>1. \A tk \in Sync : tk.cmd.gen <= generation
    BY <1>5 DEF Numbering
  <2>2. PICK new : new.cmd.gen = generation + 1 /\ Sync' \subseteq Sync \cup {new}
    BY <1>5 DEF Adds
  <2>3. \A tk \in Sync : tk.cmd.gen # new.cmd.gen
    BY <1>0, <1>1, <2>1, <2>2
  <2> QED
    BY <1>0, <1>1, <2>1, <2>2, <2>3 DEF Numbering
<1>6. ASSUME NEW t \in Threads, Begins(t) PROVE Numbering'
  <2>1. initialized \/ call[Main] = "boot"
    BY <1>6 DEF Begins
  <2>2. call'[Main] # "boot"
    BY <1>0, <1>6, <2>1 DEF Begins, Owned, OwnsIn, Still
  <2>3. ~NobodyOwns'
    BY <1>6 DEF Begins, NobodyOwns
  <2>4. generation' = generation
    BY <1>6 DEF Begins
  <2>5. Adds(job'[t].ids) /\ NobodyOwns
    BY <1>6 DEF Begins
  <2> QED
    BY <1>5, <2>1, <2>2, <2>3, <2>4, <2>5 DEF Numbering
<1>7. ASSUME NEW t \in Threads, Commits(t) PROVE Numbering'
  BY <1>0, <1>1, <1>2, <1>7 DEF Commits, Numbering
<1>8. CASE BeginsAndCommits
  <2>1. Adds(ready') /\ NobodyOwns /\ initialized /\ generation' = generation + 1
    BY <1>8 DEF BeginsAndCommits
  <2>2. call'[Main] # "boot"
    BY <1>0, <1>2, <2>1
  <2>3. /\ \A tk, uk \in Sync' : tk.cmd.gen = uk.cmd.gen => tk = uk
        /\ \A tk \in Sync' : /\ tk.cmd.gen \in Nat
                             /\ tk.cmd.gen <= generation \/ tk.cmd.gen = generation + 1
    BY <1>5, <2>1
  <2>4. \A tk \in Sync' : tk.cmd.gen <= generation'
    BY <1>0, <2>1, <2>3
  <2> QED
    BY <2>2, <2>3, <2>4 DEF Numbering
<1> QED
  BY <1>3, <1>4, <1>6, <1>7, <1>8, SnapshotCases

LEMMA SyncStutters ==
  ASSUME UNCHANGED allVars
  PROVE  Sync' = Sync
<1>1. UNCHANGED <<pending, hand, batch, done>>
  BY DEF allVars, vars, shared, threads, history
<1> QED
  BY <1>1 DEF Sync, Known, Live, Queues

LEMMA SessionStutters ==
  ASSUME Session, UNCHANGED allVars
  PROVE  Session'
<1>1. UNCHANGED <<shuttingDown, coord, initialized, generation, managed, ready, call>>
  BY DEF allVars, vars, shared, hot, locks, coordinator, calls
<1> QED
  BY <1>1 DEF Session

LEMMA NumberingStutters ==
  ASSUME Numbering, UNCHANGED allVars
  PROVE  Numbering'
<1>1. UNCHANGED <<initialized, generation, call, job>>
  BY DEF allVars, hot, coordinator, calls
<1> QED
  BY <1>1, SyncStutters DEF Numbering, NobodyOwns, Owned, OwnsIn

\* Two submitted snapshots of one generation are one submission: the
\* coordinator's mutex is held from the choice of a generation until it is
\* committed, and no generation is used twice (hotreload.cpp, publishLocked,
\* publishPreparedBase and publishMetadataCompletion).
THEOREM GenerationNamesSnapshotAlways ==
  Unrestricted => (HotSpec => []GenerationNamesSnapshot)
<1> SUFFICES ASSUME Unrestricted PROVE HotSpec => []GenerationNamesSnapshot
  OBVIOUS
<1> DEFINE I == Base /\ Session /\ Numbering
<1>1. HotInit => I
  BY BaseInit, SessionInit, NumberingInit
<1>2. I /\ [HotNext]_allVars => I'
  <2> SUFFICES ASSUME I, [HotNext]_allVars PROVE I'
    OBVIOUS
  <2>1. Base'
    BY BaseStep
  <2>2. CASE HotNext
    BY <2>1, <2>2, SessionStep, NumberingStep
  <2>3. CASE UNCHANGED allVars
    BY <2>1, <2>3, SessionStutters, NumberingStutters
  <2> QED
    BY <2>2, <2>3
<1>3. I => GenerationNamesSnapshot
  BY DEF Numbering, GenerationNamesSnapshot, Sync, Known
<1> QED
  BY <1>1, <1>2, <1>3, PTL DEF HotSpec

-----------------------------------------------------------------------------
(***************************************************************************)
(* Tokens: a request, a compatibility step and a publication for an app    *)
(* all carry the publication generation the app was asked for with.        *)
(***************************************************************************)

\* What is asked for with this generation is not ahead of the app's; with the
\* app's own generation, the app was prepared since it was last forgotten.
Token(app, gen) ==
  /\ gen <= publication[app]
  /\ gen = publication[app] => app \in prepared

\* The publications for an app that are under way.
Carried(t) == \/ call[t] = "handoff"
              \/ call[t] \in {"coordinate", "validate"} /\ job[t].kind = "base"

Asked == {tk \in Known : tk.cmd.kind = "EnsureCompat"}

Tokens ==
  /\ \A r \in requests : r.gen <= publication[r.app]
  /\ \A t \in Threads : Carried(t) =>
       \E app \in Apps : job[t].app = {app} /\ Token(app, job[t].gen)
  /\ \A tk \in Asked : \E app \in Apps : tk.cmd.ids = {app} /\ Token(app, tk.cmd.gen)

\* What a step does to the configured and the prepared apps.
LEMMA ConfigCases ==
  ASSUME Base, HotNext
  PROVE  \/ \E e \in Edits : LoadSettings(e)
         \/ \E app \in Apps : Forget(app)
         \/ UNCHANGED <<config, publication, edits>> /\ prepared \subseteq prepared'
<1>1. ASSUME UNCHANGED provisioning
      PROVE  UNCHANGED <<config, publication, edits>> /\ prepared \subseteq prepared'
  BY <1>1 DEF provisioning
<1>2. ASSUME NEW t, NEW changed, PublishLocked(t, changed)
      PROVE  UNCHANGED <<config, publication, edits>> /\ prepared \subseteq prepared'
  BY <1>2 DEF PublishLocked, provisioning
<1>3. CASE Publish \/ Initialize
  BY <1>1, <1>2, <1>3 DEF Publish, Initialize
<1>4. ASSUME \/ \E r \in requests : Prepare(r) \/ DropRequest(r)
             \/ \E t \in Threads : CommitMembers(t)
      PROVE  UNCHANGED <<config, publication, edits>> /\ prepared \subseteq prepared'
  BY <1>4 DEF Prepare, DropRequest, CommitMembers
<1>5. ASSUME \/ HandOff \/ HandedOff \/ Enrich \/ HotAdd \/ HotAdded \/ Latch
             \/ CompatSettles \/ CoordinatorShutdown \/ QueueShutdown
      PROVE  UNCHANGED provisioning
  BY <1>5 DEF HandOff, HandedOff, Enrich, HotAdd, HotAdded, Latch, CompatSettles,
              CoordinatorShutdown, QueueShutdown
<1>6. ASSUME NEW t \in Threads,
             Coordinate(t) \/ Validate(t) \/ CommitApp(t) \/ Execute(t)
      PROVE  UNCHANGED provisioning
  BY <1>6 DEF Coordinate, Validate, Rejected, ValidateAndSubmit, ValidateAndRun,
              CommitApp, Execute
<1>7. ASSUME NEW t \in Threads, QueueStep(t) \/ Stale PROVE UNCHANGED provisioning
  BY <1>7, QueueStepKeeps DEF hot
<1>8. CASE Stale
  BY <1>1, <1>7, <1>8, Distinct
<1> QED
  BY <1>1, <1>3, <1>4, <1>5, <1>6, <1>7, <1>8, HotCases

LEMMA TokenKept ==
  ASSUME Base, HotNext, NEW app \in Apps, NEW gen \in Nat, gen <= publication[app]
  PROVE  gen <= publication'[app] /\ (Token(app, gen) => Token(app, gen)')
<1>0. publication \in [Apps -> Nat]
  BY DEF Base, HotTypeOK
<1>1. CASE publication' = publication /\ prepared \subseteq prepared'
  BY <1>1 DEF Token
<1>2. ASSUME NEW e \in Edits, LoadSettings(e)
      PROVE  publication' = publication /\ prepared \subseteq prepared'
  BY <1>2 DEF LoadSettings
<1>3. ASSUME NEW gone \in Apps, Forget(gone)
      PROVE  gen <= publication'[app] /\ (Token(app, gen) => Token(app, gen)')
  <2>1. /\ publication' = [publication EXCEPT ![gone] = @ + 1]
        /\ prepared' = prepared \ {gone}
    BY <1>3 DEF Forget
  <2>2. CASE app = gone
    <3>1. publication'[app] = publication[app] + 1
      BY <1>0, <2>1, <2>2
    <3>2. gen <= publication'[app] /\ gen # publication'[app]
      BY <1>0, <3>1
    <3> QED
      BY <3>2 DEF Token
  <2>3. CASE app # gone
    BY <1>0, <2>1, <2>3 DEF Token
  <2> QED
    BY <2>2, <2>3
<1> QED
  BY <1>1, <1>2, <1>3, ConfigCases

\* A batch that holds no compatibility step.
LEMMA SubmitAsksNothing ==
  ASSUME Base, NEW t \in Threads, NEW b \in Batches, Submit(t, b),
         \A i \in DOMAIN b : b[i].kind # "EnsureCompat"
  PROVE  Asked' \subseteq Asked
<1>1. Known' \subseteq Known \cup {NewTicket(t, b[i]) : i \in DOMAIN b}
  BY SubmitKnown DEF Base, Ordered, Inv
<1> QED
  BY <1>1 DEF Asked, NewTicket

\* Only the worker asks for a compatibility step, for the app it has prepared.
LEMMA AskedCases ==
  ASSUME Unrestricted, Base, HotNext, NEW tk \in Asked'
  PROVE  \/ tk \in Asked
         \/ /\ call[Worker] = "handoff"
            /\ tk.cmd.ids = job[Worker].app /\ tk.cmd.gen = job[Worker].gen
<1>0. /\ generation \in Nat /\ config \in SUBSET Apps
      /\ ReadyOf(config) \in SUBSET Apps /\ Announced(config) \in SUBSET Apps
  BY DEF Base, HotTypeOK, ReadyOf, Announced
<1>1. Known' \subseteq Known => tk \in Asked
  BY DEF Asked
<1>2. \A gen \in Nat : \A ids, added \in SUBSET Apps :
        LET b == <<syncPackage0(gen, ids, added)>> IN
        /\ b \in Batches /\ \A i \in DOMAIN b : b[i].kind # "EnsureCompat"
  <2> SUFFICES ASSUME NEW gen \in Nat, NEW ids \in SUBSET Apps, NEW added \in SUBSET Apps
               PROVE  LET b == <<syncPackage0(gen, ids, added)>> IN
                      b \in Batches /\ \A i \in DOMAIN b : b[i].kind # "EnsureCompat"
    OBVIOUS
  <2> DEFINE c == syncPackage0(gen, ids, added)
  <2>1. <<c>> \in Batches
    BY DEF Unrestricted
  <2>2. c.kind # "EnsureCompat"
    BY DEF syncPackage0, command
  <2> HIDE DEF c
  <2>3. \A i \in DOMAIN <<c>> : <<c>>[i].kind # "EnsureCompat"
    BY <2>2
  <2> QED
    BY <2>1, <2>3 DEF c
<1>3. ASSUME NEW t \in {Main, Watcher}, NEW changed, PublishLocked(t, changed)
      PROVE  tk \in Asked
  <2> DEFINE b == <<syncPackage0(generation + 1, ReadyOf(config), Announced(config))>>
  <2>1. b \in Batches /\ \A i \in DOMAIN b : b[i].kind # "EnsureCompat"
    BY <1>0, <1>2
  <2>2. Submit(t, b) \/ UNCHANGED vars
    BY <1>3 DEF PublishLocked
  <2> HIDE DEF b
  <2> QED
    BY <1>1, <2>1, <2>2, SubmitAsksNothing, NothingKnown, Distinct
<1>4. CASE Publish \/ Initialize
  <2>1. UNCHANGED vars => Known' \subseteq Known
    BY NothingKnown
  <2> QED
    BY <1>1, <1>3, <1>4, <2>1 DEF Publish, Initialize
<1>5. CASE HandOff
  <2> DEFINE c == ensureCompat(TheApp(Worker), job[Worker].gen, 0)
             b == <<c>>
  <2>1. call[Worker] = "handoff"
    BY <1>5 DEF HandOff, At
  <2>2. job[Worker] \in Job
    BY Distinct DEF Base, HotTypeOK
  <2>3. PICK app \in Apps : job[Worker].app = {app}
    BY <2>1, Distinct DEF Base, Stand, CallOK
  <2>4. TheApp(Worker) = app /\ job[Worker].gen \in Nat
    BY <2>2, <2>3, TheAppIs, Distinct DEF Job
  <2>5. c.ids = job[Worker].app /\ c.gen = job[Worker].gen
    BY <2>3, <2>4 DEF ensureCompat, command
  <2>6. b \in Batches /\ DOMAIN b = {1} /\ b[1] = c
    BY <2>4 DEF Unrestricted
  <2>7. Submit(Worker, b) \/ UNCHANGED vars
    BY <1>5 DEF HandOff
  <2> HIDE DEF b, c
  <2>8. CASE Submit(Worker, b)
    <3>1. Known' \subseteq Known \cup {NewTicket(Worker, b[i]) : i \in DOMAIN b}
      BY <2>6, <2>8, SubmitKnown, Distinct DEF Base, Ordered, Inv
    <3> QED
      BY <2>1, <2>5, <2>6, <3>1 DEF Asked, NewTicket
  <2> QED
    BY <1>1, <2>7, <2>8, NothingKnown
<1>6. CASE HotAdd
  <2> DEFINE b == <<injectPackage0(config), reconcileLicenses>>
  <2>1. b \in Batches /\ Submit(Picser, b)
    BY <1>0, <1>6 DEF Unrestricted, HotAdd
  <2>2. \A i \in DOMAIN b : b[i].kind # "EnsureCompat"
    BY DEF injectPackage0, reconcileLicenses, command
  <2> HIDE DEF b
  <2> QED
    BY <2>1, <2>2, SubmitAsksNothing, Distinct
<1>7. ASSUME NEW t \in Threads, Coordinate(t) PROVE Known' \subseteq Known
  <2>1. RunCommand(t) \/ UNCHANGED vars
    BY <1>7 DEF Coordinate, Rejected
  <2> QED
    BY <2>1, NothingKnown
<1>8. ASSUME NEW t \in Threads, Validate(t) PROVE tk \in Asked
  <2> DEFINE added == IF job[t].kind = "base" THEN job[t].app ELSE {}
             c == syncPackage0(generation + 1, NextReady(t), added)
             b == <<c>>
  <2>1. NextReady(t) \in SUBSET Apps /\ added \in SUBSET Apps
    BY DEF Base, HotTypeOK, NextReady, Job
  <2>2. b \in Batches /\ \A i \in DOMAIN b : b[i].kind # "EnsureCompat"
    <3> HIDE DEF added
    <3> QED
      BY <1>0, <1>2, <2>1
  <2>3. c.kind = "SyncPackage0"
    BY DEF syncPackage0, command
  <2>4. RunCommand(t) \/ UNCHANGED vars \/ Submit(t, b) \/ RunPublishing(t, c)
    BY <1>8 DEF Validate, Rejected, ValidateAndSubmit, ValidateAndRun, AppSnapshot
  <2> HIDE DEF b, c
  <2>5. CASE RunPublishing(t, c)
    <3>1. Known' \subseteq Known \cup {NewTicket(t, c)}
      BY <2>5, PublishingKnown DEF Base, Ordered, Inv
    <3> QED
      BY <2>3, <3>1 DEF Asked, NewTicket
  <2> QED
    BY <1>1, <2>2, <2>4, <2>5, SubmitAsksNothing, NothingKnown
<1>9. ASSUME NEW t \in Threads,
             CommitMembers(t) \/ CommitApp(t) \/ Execute(t) \/ QueueStep(t)
      PROVE  Known' \subseteq Known
  <2>1. UNCHANGED vars \/ RunCommand(t) \/ QueueStep(t)
    BY <1>9 DEF CommitMembers, CommitApp, Execute
  <2> QED
    BY <2>1, NothingKnown
<1>10. CASE QueueShutdown \/ Stale
  BY <1>1, <1>10, NothingKnown
<1>11. ASSUME \/ \E e \in Edits : LoadSettings(e)
              \/ \E app \in Apps : Forget(app)
              \/ \E r \in requests : Prepare(r) \/ DropRequest(r)
              \/ HandedOff \/ Enrich \/ HotAdded \/ Latch
              \/ CompatSettles \/ CoordinatorShutdown
       PROVE  Known' \subseteq Known
  <2>1. UNCHANGED vars
    BY <1>11 DEF LoadSettings, Forget, Prepare, DropRequest, HandedOff, Enrich,
                 HotAdded, Latch, CompatSettles, CoordinatorShutdown
  <2> QED
    BY <2>1, NothingKnown
<1> QED
  BY <1>1, <1>4, <1>5, <1>6, <1>7, <1>8, <1>9, <1>10, <1>11, HotCases

LEMMA RequestCases ==
  ASSUME Base, HotNext, NEW r \in requests'
  PROVE  r \in requests \/ (r.gen = publication[r.app] /\ UNCHANGED publication)
<1>1. ASSUME UNCHANGED provisioning PROVE r \in requests
  BY <1>1 DEF provisioning
<1>2. ASSUME NEW t, NEW changed, PublishLocked(t, changed) PROVE r \in requests
  BY <1>2 DEF PublishLocked, provisioning
<1>3. CASE Publish \/ Initialize
  BY <1>1, <1>2, <1>3 DEF Publish, Initialize
<1>4. ASSUME \/ \E e \in Edits : LoadSettings(e)
             \/ \E app \in Apps : Forget(app)
             \/ \E q \in requests : Prepare(q) \/ DropRequest(q)
      PROVE  r \in requests
  BY <1>4 DEF LoadSettings, Forget, Prepare, DropRequest
<1>5. ASSUME NEW t \in Threads, CommitMembers(t)
      PROVE  r \in requests \/ (r.gen = publication[r.app] /\ UNCHANGED publication)
  <2>1. /\ requests' = {q \in requests : q.app \notin job[t].fetch}
             \cup {[app |-> app, gen |-> publication[app]] : app \in job[t].fetch}
        /\ UNCHANGED publication
    BY <1>5 DEF CommitMembers
  <2> QED
    BY <2>1
<1>6. ASSUME \/ HandOff \/ HandedOff \/ Enrich \/ HotAdd \/ HotAdded \/ Latch
             \/ CompatSettles \/ CoordinatorShutdown \/ QueueShutdown
      PROVE  UNCHANGED provisioning
  BY <1>6 DEF HandOff, HandedOff, Enrich, HotAdd, HotAdded, Latch, CompatSettles,
              CoordinatorShutdown, QueueShutdown
<1>7. ASSUME NEW t \in Threads,
             Coordinate(t) \/ Validate(t) \/ CommitApp(t) \/ Execute(t)
      PROVE  UNCHANGED provisioning
  BY <1>7 DEF Coordinate, Validate, Rejected, ValidateAndSubmit, ValidateAndRun,
              CommitApp, Execute
<1>8. ASSUME NEW t \in Threads, QueueStep(t) \/ Stale PROVE UNCHANGED provisioning
  BY <1>8, QueueStepKeeps DEF hot
<1>9. CASE Stale
  BY <1>1, <1>8, <1>9, Distinct
<1> QED
  BY <1>1, <1>3, <1>4, <1>5, <1>6, <1>7, <1>8, <1>9, HotCases

\* A call comes to carry a token from a request or from a compatibility step.
LEMMA CarriedCases ==
  ASSUME Base, HotNext, NEW u \in Threads, Carried(u)'
  PROVE  \/ Carried(u) /\ job'[u] = job[u]
         \/ \E r \in requests : Prepare(r) /\ job'[u] = AppJob({r.app}, r.gen)
         \/ CompatSettles /\ LET c == Head(batch[Owner]).cmd IN
                             job'[u] = AppJob(c.ids, c.gen)
<1>0. CallsOK
  BY DEF Base, HotTypeOK, CallsOK, Calls
<1>1. CASE Still(u)
  BY <1>1 DEF Still, Carried
<1>2. ASSUME NEW c, NEW j, Becomes(u, c, j) PROVE call'[u] = c /\ job'[u] = j
  BY <1>0, <1>2, BecomesOne
<1>3. \A c : Carried(u)' => call'[u] \notin {"idle", "submit", "publish", "forget",
                                              "closing", "gone", "enrich"}
  BY DEF Carried
<1>4. ASSUME u = Watcher, \/ \E e \in Edits : LoadSettings(e)
                          \/ \E app \in Apps : Forget(app)
                          \/ Publish
      PROVE  FALSE
  <2>1. call'[u] \in {"idle", "submit", "publish", "forget"}
    BY <1>2, <1>4 DEF LoadSettings, Forget, Publish, PublishLocked
  <2> QED
    BY <1>3, <2>1
<1>5. ASSUME u = Main, Initialize \/ CoordinatorShutdown \/ QueueShutdown PROVE FALSE
  <2>1. call'[u] \in {"idle", "submit", "closing", "gone"}
    BY <1>2, <1>5 DEF Initialize, PublishLocked, CoordinatorShutdown, QueueShutdown
  <2> QED
    BY <1>3, <2>1
<1>6. ASSUME u = Picser, HotAdd \/ HotAdded PROVE FALSE
  <2>1. call'[u] \in {"idle", "submit"}
    BY <1>2, <1>6 DEF HotAdd, HotAdded
  <2> QED
    BY <1>3, <2>1
<1>7. ASSUME CommitMembers(u) \/ CommitApp(u) \/ Validate(u) PROVE FALSE
  <2>1. ASSUME After(u) PROVE call'[u] \in {"idle", "enrich"}
    BY <1>0, <2>1, AfterOne
  <2>2. call'[u] \in {"idle", "submit", "enrich"}
    BY <1>2, <1>7, <2>1 DEF CommitMembers, CommitApp, Validate, Rejected,
                            ValidateAndSubmit, ValidateAndRun
  <2> QED
    BY <1>3, <2>2
<1>8. ASSUME u = Worker, HandOff \/ HandedOff PROVE FALSE
  <2>1. call'[u] \in {"submit", "enrich"}
    BY <1>2, <1>8 DEF HandOff, HandedOff
  <2> QED
    BY <1>3, <2>1
<1>9. ASSUME u = Worker, Enrich PROVE FALSE
  <2>1. job[u] \in Job /\ [job[u] EXCEPT !.kind = "metadata"].kind = "metadata"
    BY JobForms DEF Base, HotTypeOK
  <2>2. call'[u] = "idle" \/ (call'[u] = "coordinate" /\ job'[u].kind = "metadata")
    BY <1>2, <1>9, <2>1 DEF Enrich
  <2> QED
    BY <2>2 DEF Carried
<1>10. ASSUME u = Worker, NEW r \in requests, Prepare(r)
       PROVE  job'[u] = AppJob({r.app}, r.gen)
  BY <1>2, <1>10 DEF Prepare, AppJob
<1>11. ASSUME u = Owner, CompatSettles
       PROVE  LET c == Head(batch[Owner]).cmd IN job'[u] = AppJob(c.ids, c.gen)
  BY <1>2, <1>11 DEF CompatSettles, AppJob
<1>12. ASSUME Coordinate(u) PROVE Carried(u) /\ job'[u] = job[u]
  <2>1. ASSUME After(u) PROVE FALSE
    BY <1>0, <1>3, <2>1, AfterOne
  <2>2. call[u] = "coordinate" /\ Becomes(u, "validate", job[u])
    BY <1>12, <2>1 DEF Coordinate, Rejected
  <2> QED
    BY <1>2, <2>2 DEF Carried
<1> QED
  BY <1>1, <1>4, <1>5, <1>6, <1>7, <1>8, <1>9, <1>10, <1>11, <1>12, MoverIs DEF MoveOf

LEMMA TokensInit == HotInit => Tokens
BY KnownInit DEF HotInit, Tokens, Asked, Carried

LEMMA TokensStep ==
  ASSUME Unrestricted, Base, Work, Tokens, HotNext
  PROVE  Tokens'
<1>0. /\ TypeOK /\ publication \in [Apps -> Nat] /\ requests \in SUBSET Request
      /\ job \in [Threads -> Job]
  BY DEF Base, Ordered, Inv, HotTypeOK
<1>1. ASSUME NEW r \in requests' PROVE r.gen <= publication'[r.app]
  <2>1. CASE r \in requests
    <3>1. r.app \in Apps /\ r.gen \in Nat /\ r.gen <= publication[r.app]
      BY <1>0, <2>1 DEF Request, Tokens
    <3> QED
      BY <3>1, TokenKept
  <2>2. CASE r.gen = publication[r.app] /\ UNCHANGED publication
    <3>1. r.app \in Apps
      <4>1. HotTypeOK'
        BY HotTypeStep
      <4> QED
        BY <4>1 DEF HotTypeOK, Request
    <3> QED
      BY <1>0, <2>2, <3>1
  <2> QED
    BY <2>1, <2>2, RequestCases
<1>2. ASSUME NEW tk \in Asked
      PROVE  \E app \in Apps : tk.cmd.ids = {app} /\ Token(app, tk.cmd.gen)
                                                  /\ Token(app, tk.cmd.gen)'
  <2>1. tk \in Ticket
    BY <1>0, KnownTyped DEF Asked
  <2>2. tk.cmd.gen \in Nat
    BY <2>1 DEF Ticket, Command
  <2>3. PICK app \in Apps : tk.cmd.ids = {app} /\ Token(app, tk.cmd.gen)
    BY DEF Tokens
  <2> QED
    BY <2>2, <2>3, TokenKept DEF Token
<1>3. ASSUME NEW u \in Threads, Carried(u)'
      PROVE  \E app \in Apps : job'[u].app = {app} /\ Token(app, job[u].gen)'
  <2>1. CASE Carried(u) /\ job'[u] = job[u]
    <3>1. PICK app \in Apps : job[u].app = {app} /\ Token(app, job[u].gen)
      BY <2>1 DEF Tokens
    <3>2. job[u].gen \in Nat
      BY <1>0 DEF Job
    <3>3. Token(app, job[u].gen)'
      <4> DEFINE g == job[u].gen
      <4>1. g \in Nat /\ g <= publication[app] /\ Token(app, g)
        BY <3>1, <3>2 DEF Token
      <4> HIDE DEF g
      <4>2. g <= publication'[app] /\ (g = publication'[app] => app \in prepared')
        BY <4>1, TokenKept DEF Token
      <4> QED
        BY <2>1, <4>2 DEF Token, g
    <3> QED
      BY <2>1, <3>1, <3>3
  <2>2. ASSUME NEW r \in requests, Prepare(r), job'[u] = AppJob({r.app}, r.gen)
        PROVE  \E app \in Apps : job'[u].app = {app} /\ Token(app, job[u].gen)'
    <3>1. r.app \in Apps /\ r.gen \in Nat
      BY <1>0 DEF Request
    <3>2. job'[u].app = {r.app} /\ job'[u].gen = r.gen
      BY <2>2, <3>1, AppForm
    <3>3. publication'[r.app] = r.gen /\ r.app \in prepared'
      BY <2>2 DEF Prepare, StillAsked
    <3> QED
      BY <3>1, <3>2, <3>3 DEF Token
  <2>3. CASE CompatSettles /\ LET c == Head(batch[Owner]).cmd IN
                              job'[u] = AppJob(c.ids, c.gen)
    <3> DEFINE e == Head(batch[Owner])
    <3>1. /\ batch[Owner] \in Seq(Entry) /\ batch[Owner] # <<>>
          /\ e.cmd.kind = "EnsureCompat" /\ UNCHANGED <<publication, prepared>>
      BY <1>0, <2>3, Distinct DEF CompatSettles, Running, TypeOK, provisioning
    <3>2. e \in Entry /\ EntryCovers(e)
      BY <3>1, TailCovers, HeadTailProperties, Distinct DEF Work
    <3>3. PICK tk \in e.tickets : Covers(e.cmd, tk.cmd)
      BY <3>2 DEF EntryCovers
    <3>4. tk.cmd.kind = "EnsureCompat" /\ tk.cmd.ids = e.cmd.ids /\ tk.cmd.gen = e.cmd.gen
      BY <3>1, <3>3 DEF Covers
    <3>5. tk \in TicketsOf(batch[Owner])
      BY <3>1, <3>3, TailTickets
    <3>6. tk \in Asked
      BY <3>4, <3>5, LiveIn, Distinct DEF Asked, Known
    <3>7. e.cmd.ids \in SUBSET Apps /\ e.cmd.gen \in Nat
      BY <3>2 DEF Entry, Command
    <3>8. job'[u].app = e.cmd.ids /\ job'[u].gen = e.cmd.gen
      BY <2>3, <3>7, AppForm
    <3>9. PICK app \in Apps : tk.cmd.ids = {app} /\ Token(app, tk.cmd.gen)
      BY <3>6 DEF Tokens
    <3> HIDE DEF e
    <3> QED
      BY <3>1, <3>4, <3>8, <3>9 DEF Token
  <2> QED
    BY <1>3, <2>1, <2>2, <2>3, CarriedCases
<1>4. ASSUME NEW tk \in Asked'
      PROVE  \E app \in Apps : tk.cmd.ids = {app} /\ Token(app, tk.cmd.gen)'
  <2>1. CASE call[Worker] = "handoff" /\ tk.cmd.ids = job[Worker].app
             /\ tk.cmd.gen = job[Worker].gen
    <3>1. PICK app \in Apps : job[Worker].app = {app} /\ Token(app, job[Worker].gen)
      BY <2>1, Distinct DEF Tokens, Carried
    <3>2. tk.cmd.gen \in Nat /\ Token(app, tk.cmd.gen)
      BY <1>0, <2>1, <3>1, Distinct DEF Job
    <3> QED
      BY <2>1, <3>1, <3>2, TokenKept DEF Token
  <2> QED
    BY <1>2, <2>1, AskedCases
<1> QED
  BY <1>1, <1>3, <1>4 DEF Tokens

-----------------------------------------------------------------------------
(***************************************************************************)
(* What is ready, and what is about to be.                                 *)
(***************************************************************************)

\* What a snapshot in the making is made of fits, and is managed.
Topology ==
  /\ ready \subseteq managed /\ Valid(ready)
  /\ \A t \in Threads : call[t] = "validate" => job[t].app \subseteq managed
  /\ \A t \in Threads : Owned(t) =>
       /\ Valid(job[t].ids)
       /\ job[t].ids \subseteq IF job[t].kind = "members" THEN job[t].members ELSE managed

LEMMA NothingFits == Valid({})
BY FS_EmptySet, RolesAssumption DEF Valid

LEMMA FewerFit ==
  ASSUME NEW S \in SUBSET Apps, NEW T \in SUBSET S, Valid(S)
  PROVE  Valid(T)
<1>1. IsFiniteSet(S) /\ IsFiniteSet(T)
  BY BoundsAssumption, FS_Subset
<1>2. /\ Cardinality(T) <= Cardinality(S)
      /\ Cardinality(S) \in Nat /\ Cardinality(T) \in Nat
  BY <1>1, FS_Subset, FS_CardinalityType
<1> QED
  BY <1>2, RolesAssumption DEF Valid

LEMMA TopologyInit == HotInit => Topology
BY NothingFits DEF HotInit, Topology, Owned, OwnsIn

\* A publication for an app was wanted when the coordinator's mutex was taken.
LEMMA ValidateCases ==
  ASSUME Base, HotNext, NEW u \in Threads, call'[u] = "validate"
  PROVE  \/ Still(u)
         \/ job[u].app \subseteq managed /\ job'[u] = job[u] /\ UNCHANGED managed
<1>0. CallsOK
  BY DEF Base, HotTypeOK, CallsOK, Calls
<1>1. ASSUME NEW c, NEW j, Becomes(u, c, j) PROVE c = "validate" /\ job'[u] = j
  BY <1>0, <1>1, BecomesOne
<1>2. ~After(u)
  BY <1>0, AfterOne
<1>3. CASE Coordinate(u)
  <2>1. Wanted(u) /\ Becomes(u, "validate", job[u]) /\ UNCHANGED coordinator
    BY <1>2, <1>3 DEF Coordinate, Rejected
  <2> QED
    BY <1>1, <2>1 DEF Wanted, coordinator
<1>4. ASSUME NEW c, NEW j, Becomes(u, c, j) PROVE call'[u] = c
  BY <1>0, <1>4, BecomesOne
<1>5. ~MoveOf(u) \/ Coordinate(u)
  <2>1. ~Validate(u) /\ ~CommitMembers(u) /\ ~CommitApp(u)
    BY <1>1, <1>2 DEF Validate, CommitMembers, CommitApp, Rejected, ValidateAndSubmit,
                      ValidateAndRun
  <2>2. ASSUME u = Watcher, \/ \E e \in Edits : LoadSettings(e)
                            \/ \E app \in Apps : Forget(app)
                            \/ Publish
        PROVE  FALSE
    <3>1. call'[u] \in {"idle", "submit", "publish", "forget"}
      BY <1>4, <2>2 DEF LoadSettings, Forget, Publish, PublishLocked
    <3> QED
      BY <3>1
  <2>3. ASSUME u = Main, Initialize \/ CoordinatorShutdown \/ QueueShutdown
        PROVE  FALSE
    BY <1>1, <2>3 DEF Initialize, PublishLocked, CoordinatorShutdown, QueueShutdown
  <2>4. ASSUME u = Worker,
               (\E r \in requests : Prepare(r)) \/ HandOff \/ HandedOff \/ Enrich
        PROVE  FALSE
    <3>1. call'[u] \in {"idle", "handoff", "coordinate", "submit", "enrich"}
      BY <1>4, <2>4 DEF Prepare, HandOff, HandedOff, Enrich
    <3> QED
      BY <3>1
  <2>5. ASSUME (u = Picser /\ (HotAdd \/ HotAdded)) \/ (u = Owner /\ CompatSettles)
        PROVE  FALSE
    BY <1>1, <2>5 DEF HotAdd, HotAdded, CompatSettles
  <2> QED
    BY <2>1, <2>2, <2>3, <2>4, <2>5 DEF MoveOf
<1> QED
  BY <1>3, <1>5, MoverIs

LEMMA TopologyStep ==
  ASSUME Unrestricted, Base, Session, Topology, HotNext
  PROVE  Topology'
<1>0. /\ config \in SUBSET Apps /\ ready \in SUBSET Apps
      /\ ReadyOf(config) \subseteq config
  BY DEF Base, HotTypeOK, ReadyOf
<1>1. ASSUME NEW t \in Threads, call[t] = "validate" PROVE NextReady(t) \subseteq managed
  BY <1>1 DEF Topology, NextReady
<1>2. ASSUME NEW u \in Threads, call'[u] = "validate"
      PROVE  job'[u].app \subseteq managed'
  <2>1. CASE Still(u)
    <3>1. /\ call[u] = "validate" /\ job'[u] = job[u] /\ job[u].app \subseteq managed
          /\ coord = u /\ NobodyOwns
      BY <1>2, <2>1, NobodyElse DEF Still, Topology, Base, Held, HoldsCoord
    <3>2. ~CoordinatorShutdown
      BY <3>1, Distinct DEF CoordinatorShutdown
    <3>3. managed' = managed
      BY <3>1, <3>2, SnapshotCases
      DEF Aside, coordinator, Initialize, Begins, Commits, BeginsAndCommits, NobodyOwns
    <3> QED
      BY <3>1, <3>3
  <2> QED
    BY <1>2, <2>1, ValidateCases
<1>3. ASSUME SameOwners, NobodyOwns \/ managed' = managed,
             ready' \subseteq managed' /\ Valid(ready')
      PROVE  Topology'
  <2>1. ASSUME NEW t \in Threads, Owned(t)'
        PROVE  /\ Owned(t) /\ job'[t] = job[t] /\ managed' = managed
    BY <1>3, <2>1 DEF SameOwners, NobodyOwns, Still
  <2> QED
    BY <1>2, <1>3, <2>1 DEF Topology
<1>4. CASE Aside
  BY <1>3, <1>4 DEF Aside, coordinator, Topology
<1>5. CASE Initialize /\ NobodyOwns /\ SameOwners
  BY <1>3, <1>5 DEF Initialize, Topology
<1>6. CASE CoordinatorShutdown /\ SameOwners
  <2>1. NobodyOwns /\ ready' = {} /\ managed' = {}
    BY <1>6, NobodyElse DEF CoordinatorShutdown, Base
  <2> QED
    BY <1>3, <1>6, <2>1, NothingFits
<1>7. ASSUME NEW t \in Threads, Begins(t) PROVE Topology'
  <2>1. /\ ready' = ready /\ managed' = managed
        /\ \A u \in Threads : Owned(u)' => u = t
        /\ job'[t].ids = Choice(t) /\ Valid(Choice(t))
    BY <1>7 DEF Begins
  <2>2. Choice(t) \subseteq
          IF job'[t].kind = "members" THEN job'[t].members ELSE managed
    BY <1>0, <1>1, <1>7 DEF Begins, Choice
  <2> QED
    BY <1>2, <2>1, <2>2 DEF Topology
<1>8. ASSUME NEW t \in Threads, Commits(t) PROVE Topology'
  BY <1>2, <1>8 DEF Commits, NobodyOwns, Topology
<1>9. CASE BeginsAndCommits
  BY <1>1, <1>2, <1>9, Distinct DEF BeginsAndCommits, NobodyOwns, Current, Topology
<1> QED
  BY <1>4, <1>5, <1>6, <1>7, <1>8, <1>9, SnapshotCases

\* What is published of the configured apps is prepared; between config
\* changes, all of it is.
Published(ids) ==
  /\ ids \cap config \subseteq prepared
  /\ call[Watcher] = "idle" => ids \subseteq prepared

Preparation ==
  /\ call[Watcher] = "forget" => job[Watcher].app \cap config = {}
  /\ Published(ready)
  /\ \A t \in Threads : Owned(t) => Published(job[t].ids)
  /\ Owned(Watcher) => job[Watcher].ids \subseteq prepared

LEMMA PreparationInit == HotInit => Preparation
BY Distinct DEF HotInit, Preparation, Published, Owned, OwnsIn

\* With nothing to publish, what is ready is for the configured apps.
LEMMA UnpublishedReady ==
  ASSUME Base, Session, Topology, Preparation, NEW changed,
         ~Publishable(config, changed) \/ ~initialized
  PROVE  ready \subseteq prepared
<1>1. CASE ~initialized \/ generation = 0 \/ shuttingDown
  BY <1>1 DEF Session
<1>2. CASE generation # 0 /\ managed = config
  BY <1>2 DEF Topology, Preparation, Published
<1>3. CASE generation # 0 /\ ~Valid(ReadyOf(config))
  BY <1>3, FewerFit DEF ReadyOf, Topology, Base, HotTypeOK
<1> QED
  BY <1>1, <1>2, <1>3 DEF Publishable

\* The watcher's call is over when its snapshot is committed, or when there was
\* none to submit.
LEMMA WatcherCases ==
  ASSUME Unrestricted, Base, Session, Topology, Preparation, HotNext,
         call'[Watcher] \in {"idle", "forget"}
  PROVE  \/ Still(Watcher)
         \/ \E e \in Edits : LoadSettings(e)
         \/ \E app \in Apps : Forget(app)
         \/ call'[Watcher] = "idle" /\ CommitMembers(Watcher)
         \/ call'[Watcher] = "idle" /\ NobodyOwns /\ ready \subseteq prepared
<1>0. CallsOK /\ Watcher \in Threads
  BY Distinct DEF Base, HotTypeOK, CallsOK, Calls
<1>1. ASSUME NEW c, NEW j, Becomes(Watcher, c, j) PROVE call'[Watcher] = c
  BY <1>0, <1>1, BecomesOne
<1>2. CASE Publish
  <2>1. call[Watcher] = "publish" /\ coord = NoThread
        /\ UNCHANGED <<initialized, generation, managed, ready>>
    BY <1>2 DEF Publish, At, coordinator
  <2>2. NobodyOwns
    BY <2>1, NobodyElse DEF Base
  <2>3. CASE initialized /\ PublishLocked(Watcher, job[Watcher].fetch)
    <3>1. job[Watcher].fetch \in SUBSET Apps
      BY <1>0 DEF Base, HotTypeOK, Job
    <3>2. ~Begins(Watcher)
      BY DEF Begins, Owned, OwnsIn
    <3> QED
      BY <2>1, <2>2, <2>3, <3>1, <3>2, PublishLockedBegins, UnpublishedReady, Distinct
  <2>4. CASE ~initialized /\ Becomes(Watcher, "idle", NoJob)
    BY <1>1, <2>2, <2>4, UnpublishedReady
  <2> QED
    BY <1>2, <2>3, <2>4 DEF Publish
<1>3. CASE CommitMembers(Watcher)
  BY <1>1, <1>3 DEF CommitMembers
<1>4. ~CommitApp(Watcher) /\ ~Coordinate(Watcher) /\ ~Validate(Watcher)
  BY <1>0, WhoStands, Distinct DEF Base, CommitApp, Coordinate, Validate, At
<1> QED
  BY <1>0, <1>2, <1>3, <1>4, MoverIs, Distinct DEF MoveOf

\* A publication that is current is for a prepared app.
LEMMA NextReadyPublished ==
  ASSUME Tokens, Published(ready), Stand, NEW t \in Threads, call[t] = "validate",
         Current(t)
  PROVE  Published(NextReady(t))
<1>1. CASE job[t].kind = "base"
  <2>1. PICK app \in Apps : job[t].app = {app} /\ Token(app, job[t].gen)
    BY <1>1 DEF Tokens, Carried
  <2>2. app \in prepared
    BY <2>1, TheAppIs DEF Current, Token
  <2> QED
    BY <1>1, <2>1, <2>2 DEF NextReady, Published
<1>2. CASE job[t].kind # "base"
  BY <1>2 DEF NextReady
<1> QED
  BY <1>1, <1>2

LEMMA LoadSettingsPrepares ==
  ASSUME Base, Preparation, NEW e \in Edits, LoadSettings(e)
  PROVE  Preparation'
<1> DEFINE removed == config \ e.ids
           c == IF removed = {} THEN "publish" ELSE "forget"
           j == [NoJob EXCEPT !.app = removed, !.fetch = e.changed]
<1>1. /\ call[Watcher] = "idle" /\ Becomes(Watcher, c, j)
      /\ config' = e.ids /\ UNCHANGED <<prepared, ready>>
  BY DEF LoadSettings, At, coordinator
<1>2. j.app = removed
  BY DEF NoJob
<1>3. c \in {"publish", "forget"}
  OBVIOUS
<1>4. CallsOK
  BY DEF Base, HotTypeOK, CallsOK, Calls
<1>5. removed \cap config' = {}
  BY <1>1
<1> HIDE DEF c, j, removed
<1>6. /\ call'[Watcher] = c /\ job'[Watcher] = j
      /\ \A u \in Threads : u # Watcher => Still(u)
  BY <1>1, <1>4, BecomesOne, Distinct
<1>7. ready' \subseteq prepared'
  BY <1>1 DEF Preparation, Published
<1>8. ASSUME NEW t \in Threads, Owned(t)'
      PROVE  job'[t].ids \subseteq prepared' /\ t # Watcher
  <2>1. t # Watcher
    BY <1>3, <1>6, <1>8 DEF Owned, OwnsIn
  <2>2. Owned(t) /\ job'[t] = job[t]
    BY <1>6, <1>8, <2>1 DEF Still, Owned, OwnsIn
  <2> QED
    BY <1>1, <2>1, <2>2 DEF Preparation, Published
<1>9. call'[Watcher] = "forget" => job'[Watcher].app \cap config' = {}
  BY <1>2, <1>5, <1>6
<1> QED
  BY <1>7, <1>8, <1>9, Distinct DEF Preparation, Published

LEMMA ForgetPrepares ==
  ASSUME Base, Preparation, NEW app \in Apps, Forget(app)
  PROVE  Preparation'
<1> DEFINE left == job[Watcher].app \ {app}
           c == IF left = {} THEN "publish" ELSE "forget"
           j == [job[Watcher] EXCEPT !.app = left]
<1>1. /\ call[Watcher] = "forget" /\ Becomes(Watcher, c, j) /\ app \in job[Watcher].app
      /\ prepared' = prepared \ {app} /\ UNCHANGED <<config, ready>>
  BY DEF Forget, At, coordinator
<1>2. job[Watcher] \in Job
  BY Distinct DEF Base, HotTypeOK
<1>3. j.app = left /\ c \in {"publish", "forget"}
  BY <1>2 DEF Job
<1>4. CallsOK
  BY DEF Base, HotTypeOK, CallsOK, Calls
<1>5. left \cap config' = {} /\ app \notin config
  BY <1>1 DEF Preparation
<1> HIDE DEF c, j, left
<1>6. /\ call'[Watcher] = c /\ job'[Watcher] = j
      /\ \A u \in Threads : u # Watcher => Still(u)
  BY <1>1, <1>4, BecomesOne, Distinct
<1>7. call'[Watcher] # "idle"
  BY <1>3, <1>6
<1>8. \A ids : Published(ids) => ids \cap config' \subseteq prepared'
  BY <1>1, <1>5 DEF Published
<1>9. ASSUME NEW t \in Threads, Owned(t)'
      PROVE  job'[t].ids \cap config' \subseteq prepared' /\ t # Watcher
  <2>1. t # Watcher
    BY <1>3, <1>6, <1>9 DEF Owned, OwnsIn
  <2>2. Owned(t) /\ job'[t] = job[t]
    BY <1>6, <1>9, <2>1 DEF Still, Owned, OwnsIn
  <2> QED
    BY <1>8, <2>1, <2>2 DEF Preparation
<1>10. ready' \cap config' \subseteq prepared'
  BY <1>1, <1>8 DEF Preparation
<1>11. call'[Watcher] = "forget" => job'[Watcher].app \cap config' = {}
  BY <1>3, <1>5, <1>6
<1> QED
  BY <1>7, <1>9, <1>10, <1>11, Distinct DEF Preparation, Published

LEMMA PreparationStep ==
  ASSUME Unrestricted, Base, Session, Topology, Tokens, Preparation, HotNext
  PROVE  Preparation'
<1>0. /\ generation \in Nat /\ Watcher \in Threads /\ Main \in Threads
      /\ Owner \in Threads /\ Owner # Watcher /\ Main # Watcher
  BY Distinct DEF Base, HotTypeOK
<1>1. CASE \E e \in Edits : LoadSettings(e)
  BY <1>1, LoadSettingsPrepares
<1>2. CASE \E app \in Apps : Forget(app)
  BY <1>2, ForgetPrepares
<1>3. CASE /\ ~\E e \in Edits : LoadSettings(e)
           /\ ~\E app \in Apps : Forget(app)
           /\ config' = config /\ prepared \subseteq prepared'
  <2> DEFINE Later(ids) == /\ ids \cap config' \subseteq prepared'
                           /\ call'[Watcher] = "idle" => ids \subseteq prepared'
  <2>1. ASSUME NEW ids, Published(ids),
               call'[Watcher] = "idle" => call[Watcher] = "idle" \/ ids \subseteq prepared
        PROVE  Later(ids)
    BY <1>3, <2>1 DEF Published
  <2>2. ASSUME NEW ids, ids \subseteq prepared' PROVE Later(ids)
    BY <2>2
  <2>3. call'[Watcher] = "forget" => job'[Watcher].app \cap config' = {}
    BY <1>3, WatcherCases DEF Still, Preparation
  <2>4. ASSUME Later(ready'), \A t \in Threads : Owned(t)' => Later(job'[t].ids),
               Owned(Watcher)' => job'[Watcher].ids \subseteq prepared'
        PROVE  Preparation'
    BY <2>3, <2>4 DEF Preparation, Published
  <2> HIDE DEF Later
  <2>5. CASE Aside
    <3>1. ready' = ready /\ generation' = generation
      BY <2>5 DEF Aside, coordinator
    <3>2. ~CommitMembers(Watcher)
      BY <1>0, <3>1, CommitCommits DEF Commits
    <3>3. call'[Watcher] = "idle" =>
            call[Watcher] = "idle" \/ (NobodyOwns /\ ready \subseteq prepared)
      BY <1>3, <3>2, WatcherCases DEF Still
    <3>4. Later(ready')
      BY <2>1, <3>1, <3>3 DEF Preparation
    <3>5. ASSUME NEW t \in Threads, Owned(t)'
          PROVE  Owned(t) /\ job'[t] = job[t] /\ Later(job[t].ids)
      <4>1. Owned(t) /\ Still(t)
        BY <2>5, <3>5 DEF Aside, SameOwners
      <4>2. Published(job[t].ids) /\ ~NobodyOwns
        BY <4>1 DEF Preparation, NobodyOwns
      <4> QED
        BY <2>1, <3>3, <4>1, <4>2 DEF Still
    <3>6. Owned(Watcher)' => job'[Watcher].ids \subseteq prepared'
      BY <1>0, <1>3, <3>5 DEF Preparation
    <3> QED
      BY <2>4, <3>4, <3>5, <3>6
  <2>6. CASE \/ Initialize /\ NobodyOwns /\ SameOwners
             \/ CoordinatorShutdown /\ SameOwners
    <3>1. ready' = {}
      BY <2>6 DEF Initialize, At, Session, CoordinatorShutdown
    <3>2. NobodyOwns
      BY <2>6, NobodyElse DEF CoordinatorShutdown, Base
    <3>3. \A t \in Threads : ~Owned(t)'
      BY <2>6, <3>2 DEF SameOwners, NobodyOwns
    <3> QED
      BY <1>0, <2>2, <2>4, <3>1, <3>3
  <2>7. ASSUME NEW t \in Threads, Begins(t) PROVE Preparation'
    <3>1. /\ ready' = ready /\ job'[t].ids = Choice(t) /\ Owned(t)'
          /\ \A u \in Threads : u # t => ~Owned(u)' /\ Still(u)
      BY <2>7 DEF Begins
    <3>2. call'[Watcher] = "idle" => t # Watcher /\ call[Watcher] = "idle"
      BY <1>0, <3>1 DEF Owned, OwnsIn, Still
    <3>3. CASE t \in {Main, Watcher}
      <4>1. Choice(t) \subseteq prepared'
        BY <1>3, <2>7, <3>3 DEF Begins, Choice, ReadyOf, Preparation, Published
      <4> QED
        BY <1>0, <2>1, <2>2, <2>4, <3>1, <3>2, <4>1 DEF Preparation
    <3>4. CASE t \notin {Main, Watcher}
      <4>1. Choice(t) = NextReady(t) /\ call[t] = "validate" /\ Current(t)
        BY <2>7, <3>4 DEF Begins, Choice
      <4>2. Published(NextReady(t))
        BY <4>1, NextReadyPublished DEF Preparation, Base
      <4> QED
        BY <1>0, <2>1, <2>4, <3>1, <3>2, <3>4, <4>1, <4>2 DEF Preparation
    <3> QED
      BY <3>3, <3>4
  <2>8. ASSUME NEW t \in Threads, Commits(t) PROVE Preparation'
    <3>1. /\ ready' = job[t].ids /\ Owned(t)
          /\ \A u \in Threads : u # t => Still(u)
          /\ \A u \in Threads : ~Owned(u)'
      BY <2>8 DEF Commits, NobodyOwns
    <3>2. CASE t = Watcher
      <4>1. ready' \subseteq prepared'
        BY <1>3, <3>1, <3>2 DEF Preparation
      <4> QED
        BY <1>0, <2>2, <2>4, <3>1, <4>1
    <3>3. CASE t # Watcher
      <4>1. Published(ready') /\ Still(Watcher)
        BY <1>0, <3>1, <3>3 DEF Preparation, Published
      <4> QED
        BY <1>0, <2>1, <2>4, <3>1, <4>1 DEF Still
    <3> QED
      BY <3>2, <3>3
  <2>9. CASE BeginsAndCommits
    <3>1. /\ call[Owner] = "validate" /\ Current(Owner) /\ ready' = NextReady(Owner)
          /\ Still(Watcher) /\ \A u \in Threads : ~Owned(u)'
      BY <1>0, <2>9 DEF BeginsAndCommits, NobodyOwns
    <3>2. Published(NextReady(Owner))
      BY <1>0, <3>1, NextReadyPublished DEF Preparation, Base
    <3>3. Later(NextReady(Owner))
      BY <2>1, <3>1, <3>2 DEF Still
    <3> QED
      BY <1>0, <2>4, <3>1, <3>3
  <2> QED
    BY <2>5, <2>6, <2>7, <2>8, <2>9, SnapshotCases
<1> QED
  BY <1>1, <1>2, <1>3, ConfigCases

LEMMA PreparationStutters ==
  ASSUME Tokens, Topology, Preparation, UNCHANGED allVars
  PROVE  Tokens' /\ Topology' /\ Preparation'
<1>1. /\ UNCHANGED <<config, publication, requests, prepared, generation, managed,
                     ready, call, job>>
      /\ UNCHANGED <<pending, hand, batch, done>>
  BY DEF allVars, vars, shared, threads, history, hot, provisioning, coordinator, calls
<1>2. Asked' = Asked
  BY <1>1 DEF Asked, Known, Live, Queues
<1>3. Tokens'
  BY <1>1, <1>2 DEF Tokens, Token, Carried
<1>4. Topology'
  BY <1>1 DEF Topology, Valid, Owned, OwnsIn
<1> QED
  BY <1>1, <1>3, <1>4 DEF Preparation, Published, Owned, OwnsIn

\* Whatever removals, additions and preparations overlap, only prepared apps
\* enter package ownership: a preparation's result carries the publication
\* generation of its request, and is published only while it is the app's
\* (appinfo_provision.cpp, forgetApp and provisionRequestedApps; hotreload.cpp,
\* publishPreparedBase).
THEOREM ReadyIsPreparedAlways == Unrestricted => (HotSpec => []ReadyIsPrepared)
<1> SUFFICES ASSUME Unrestricted PROVE HotSpec => []ReadyIsPrepared
  OBVIOUS
<1> DEFINE I == Base /\ Session /\ Work /\ Tokens /\ Topology /\ Preparation
<1>1. HotInit => I
  <2>1. HotInit => Init
    BY DEF HotInit
  <2> QED
    BY <2>1, BaseInit, SessionInit, WorkInit, TokensInit, TopologyInit, PreparationInit
<1>2. I /\ [HotNext]_allVars => I'
  <2> SUFFICES ASSUME I, [HotNext]_allVars PROVE I'
    OBVIOUS
  <2>1. Base' /\ [Next]_vars
    BY BaseStep
  <2>2. Work'
    BY <2>1, WorkStep DEF Base, Ordered
  <2>3. CASE HotNext
    BY <2>1, <2>2, <2>3, SessionStep, TokensStep, TopologyStep, PreparationStep
  <2>4. CASE UNCHANGED allVars
    BY <2>1, <2>2, <2>4, SessionStutters, PreparationStutters
  <2> QED
    BY <2>3, <2>4
<1>3. I => ReadyIsPrepared
  BY DEF Preparation, Published, ReadyIsPrepared
<1> QED
  BY <1>1, <1>2, <1>3, PTL DEF HotSpec

-----------------------------------------------------------------------------
(***************************************************************************)
(* What the package has been given: the newest snapshot that was run.      *)
(***************************************************************************)

Processed == {tk \in done : tk.cmd.kind = "SyncPackage0"}

Delivered ==
  /\ \A tk \in Processed : tk.cmd.gen <= desired.gen
  /\ \/ desired.gen = 0
     \/ \E tk \in Processed : tk.cmd.gen = desired.gen /\ tk.cmd.ids = desired.ids

\* A command is run to its end for the submissions of T.
Serves(c, T) ==
  /\ done' = done \cup T
  /\ Deliver(c)
  /\ \A tk \in T : tk.cmd.kind = "SyncPackage0" =>
                     c.kind = "SyncPackage0" /\ tk.cmd.gen <= c.gen
  /\ c.kind = "SyncPackage0" =>
       \E tk \in T : /\ tk.cmd.kind = "SyncPackage0"
                     /\ tk.cmd.gen = c.gen /\ tk.cmd.ids = c.ids

LEMMA DeliveredInit == HotInit => Delivered
BY DEF HotInit, Init, Delivered, Processed

LEMMA ServesDelivers ==
  ASSUME TypeOK, HotTypeOK, NEW T \in SUBSET Ticket, NEW c \in Command, Serves(c, T),
         Delivered
  PROVE  Delivered'
<1> DEFINE New == {tk \in T : tk.cmd.kind = "SyncPackage0"}
<1>1. Processed' = Processed \cup New
  BY DEF Serves, Processed
<1>2. /\ desired.gen \in Nat /\ c.gen \in Nat
      /\ \A tk \in Processed \cup New : tk.cmd.gen \in Nat
  <2>1. \A tk \in Ticket : tk.cmd.gen \in Nat
    BY DEF Ticket, Command
  <2> QED
    BY <2>1 DEF HotTypeOK, TypeOK, Processed, Command
<1>3. CASE c.kind = "SyncPackage0" /\ c.gen >= desired.gen
  <2>1. desired'.gen = c.gen /\ desired'.ids = c.ids
    BY <1>3 DEF Serves, Deliver
  <2>2. \E tk \in Processed' : tk.cmd.gen = desired'.gen /\ tk.cmd.ids = desired'.ids
    BY <1>1, <1>3, <2>1 DEF Serves
  <2>3. \A tk \in New : tk.cmd.gen <= c.gen
    BY DEF Serves
  <2>4. \A tk \in Processed : tk.cmd.gen <= c.gen
    BY <1>2, <1>3 DEF Delivered
  <2> HIDE DEF New
  <2> QED
    BY <1>1, <2>1, <2>2, <2>3, <2>4 DEF Delivered
<1>4. CASE ~(c.kind = "SyncPackage0" /\ c.gen >= desired.gen)
  <2>1. desired' = desired
    BY <1>4 DEF Serves, Deliver
  <2>2. \A tk \in New : tk.cmd.gen <= desired.gen
    <3>1. \A tk \in New : c.kind = "SyncPackage0" /\ tk.cmd.gen <= c.gen
      BY DEF Serves
    <3> HIDE DEF New
    <3> QED
      BY <1>2, <1>4, <3>1
  <2> HIDE DEF New
  <2> QED
    BY <1>1, <2>1, <2>2 DEF Delivered
<1> QED
  BY <1>3, <1>4

\* The record at the front carries the newest of the snapshots it stands for.
LEMMA FrontServes ==
  ASSUME TypeOK, Work, NEW t \in Threads, Running(t)
  PROVE  LET e == Head(batch[t]) IN
         /\ e.cmd \in Command /\ e.tickets \in SUBSET Ticket
         /\ done' = done \cup e.tickets /\ Deliver(e.cmd) => Serves(e.cmd, e.tickets)
         /\ e.cmd.kind # "SyncPackage0" =>
              \A tk \in e.tickets : tk.cmd.kind # "SyncPackage0"
<1> DEFINE e == Head(batch[t])
<1>1. batch[t] \in Seq(Entry) /\ batch[t] # <<>>
  BY DEF TypeOK, Running
<1>2. e \in Entry /\ EntryCovers(e)
  BY <1>1, TailCovers, HeadTailProperties DEF Work
<1> HIDE DEF e
<1>3. e.cmd \in Command /\ e.tickets \in SUBSET Ticket
  BY <1>2 DEF Entry
<1>4. \A tk \in e.tickets : /\ tk.cmd.kind = e.cmd.kind
                            /\ e.cmd.kind = "SyncPackage0" => tk.cmd.gen <= e.cmd.gen
  BY <1>2 DEF EntryCovers, Covers
<1>5. e.cmd.kind = "SyncPackage0" =>
        \E tk \in e.tickets : tk.cmd.gen = e.cmd.gen /\ tk.cmd.ids = e.cmd.ids
  BY <1>2 DEF EntryCovers, Originates
<1>6. done' = done \cup e.tickets /\ Deliver(e.cmd) => Serves(e.cmd, e.tickets)
  BY <1>4, <1>5 DEF Serves
<1> QED
  BY <1>3, <1>4, <1>6 DEF e

LEMMA RunServes ==
  ASSUME TypeOK, Work, NEW t \in Threads, RunCommand(t),
         \/ Deliver(Head(batch[t]).cmd)
         \/ Head(batch[t]).cmd.kind = "EnsureCompat" /\ UNCHANGED <<desired, owed>>
  PROVE  \E T \in SUBSET Ticket : \E c \in Command : Serves(c, T)
<1> DEFINE e == Head(batch[t])
<1>1. Running(t) /\ done' = done \cup e.tickets
  BY DEF RunCommand
<1>2. Deliver(e.cmd)
  BY DEF Deliver
<1> QED
  BY <1>1, <1>2, FrontServes

\* The owner's compatibility step and the snapshot that it publishes.
LEMMA PublishingServes ==
  ASSUME TypeOK, Work, NEW t \in Threads, NEW c \in Command, RunPublishing(t, c),
         ~shuttingDown, Deliver(c), c.kind = "SyncPackage0"
  PROVE  \E T \in SUBSET Ticket : Serves(c, T)
<1> DEFINE e == Head(batch[t])
           tk == NewTicket(t, c)
<1>1. Running(t) /\ e.cmd.kind = "EnsureCompat" /\ done' = done \cup e.tickets \cup {tk}
  BY DEF RunPublishing
<1>2. e.tickets \in SUBSET Ticket /\ \A uk \in e.tickets : uk.cmd.kind # "SyncPackage0"
  BY <1>1, FrontServes
<1>3. tk \in Ticket /\ tk.cmd = c
  BY DEF TypeOK, NewTicket, Ticket
<1>4. c.gen \in Nat
  BY DEF Command
<1> HIDE DEF e, tk
<1>5. Serves(c, e.tickets \cup {tk})
  BY <1>1, <1>2, <1>3, <1>4 DEF Serves
<1> QED
  BY <1>2, <1>3, <1>5

LEMMA SyncCommand ==
  ASSUME Unrestricted, NEW gen \in Nat, NEW ids \in SUBSET Apps,
         NEW added \in SUBSET Apps
  PROVE  syncPackage0(gen, ids, added) \in Command
<1>1. syncPackage0(gen, ids, added) \in NestedCommands
  BY DEF Unrestricted
<1> QED
  BY <1>1, ClientAssumption

LEMMA DoneCases ==
  ASSUME Unrestricted, Base, Work, Busy, HotNext
  PROVE  \/ UNCHANGED <<done, desired>>
         \/ \E T \in SUBSET Ticket : \E c \in Command : Serves(c, T)
<1>0. TypeOK /\ generation \in Nat
  BY DEF Base, Ordered, Inv, HotTypeOK
<1>1. UNCHANGED vars => UNCHANGED done
  BY DEF vars, history
<1>2. ASSUME NEW t, NEW b, Submit(t, b) PROVE UNCHANGED done
  BY <1>2 DEF Submit, history
<1>3. CASE Publish \/ Initialize
  <2>1. ASSUME NEW t, NEW changed, PublishLocked(t, changed)
        PROVE  UNCHANGED <<done, desired>>
    BY <1>1, <1>2, <2>1 DEF PublishLocked, package
  <2> QED
    BY <1>1, <1>3, <2>1 DEF Publish, Initialize, package
<1>4. CASE HandOff \/ HotAdd
  BY <1>1, <1>2, <1>4 DEF HandOff, HotAdd, package
\* The owner rejects a compatibility step only.
<1>5. ASSUME NEW t \in Threads, Rejected(t), call[t] # "idle"
      PROVE  \/ UNCHANGED <<done, desired>>
             \/ \E T \in SUBSET Ticket : \E c \in Command : Serves(c, T)
  <2>1. CASE t = Owner
    <3>1. RunCommand(t) /\ UNCHANGED <<desired, owed>>
      BY <1>5, <2>1 DEF Rejected, package
    <3>2. Head(batch[t]).cmd.kind = "EnsureCompat"
      BY <1>5, <2>1 DEF Busy
    <3> QED
      BY <1>0, <3>1, <3>2, RunServes
  <2>2. CASE t # Owner
    BY <1>1, <1>5, <2>2 DEF Rejected, package
  <2> QED
    BY <2>1, <2>2
<1>6. ASSUME NEW t \in Threads, Coordinate(t)
      PROVE  \/ UNCHANGED <<done, desired>>
             \/ \E T \in SUBSET Ticket : \E c \in Command : Serves(c, T)
  BY <1>1, <1>5, <1>6 DEF Coordinate, package
<1>7. ASSUME NEW t \in Threads, Validate(t)
      PROVE  \/ UNCHANGED <<done, desired>>
             \/ \E T \in SUBSET Ticket : \E c \in Command : Serves(c, T)
  <2>1. CASE Rejected(t)
    BY <1>5, <1>7, <2>1 DEF Validate
  <2>2. CASE ValidateAndSubmit(t)
    BY <1>2, <2>2 DEF ValidateAndSubmit
  <2>3. CASE ValidateAndRun(t) /\ ~shuttingDown
    <3> DEFINE c == AppSnapshot(t)
               added == IF job[t].kind = "base" THEN job[t].app ELSE {}
    <3>1. NextReady(t) \in SUBSET Apps /\ added \in SUBSET Apps
      BY DEF Base, HotTypeOK, NextReady, Job
    <3>2. syncPackage0(generation + 1, NextReady(t), added) \in Command
      <4>1. generation + 1 \in Nat
        BY <1>0
      <4> HIDE DEF added
      <4> QED
        BY <3>1, <4>1, SyncCommand
    <3>3. c \in Command /\ c.kind = "SyncPackage0"
      BY <3>2 DEF AppSnapshot, syncPackage0, command
    <3>4. RunPublishing(t, c) /\ Deliver(c)
      BY <2>3 DEF ValidateAndRun
    <3> HIDE DEF c
    <3> QED
      BY <1>0, <2>3, <3>3, <3>4, PublishingServes
  <2> QED
    BY <1>7, <2>1, <2>2, <2>3 DEF Validate
<1>8. ASSUME NEW t \in Threads, CommitMembers(t) \/ CommitApp(t)
      PROVE  UNCHANGED <<done, desired>>
  BY <1>1, <1>8 DEF CommitMembers, CommitApp, package
<1>9. ASSUME NEW t \in Threads, Execute(t)
      PROVE  \E T \in SUBSET Ticket : \E c \in Command : Serves(c, T)
  BY <1>0, <1>9, RunServes DEF Execute
<1>10. ASSUME NEW t \in Threads, QueueStep(t)
       PROVE  \/ UNCHANGED <<done, desired>>
              \/ \E T \in SUBSET Ticket : \E c \in Command : Serves(c, T)
  <2>1. UNCHANGED <<desired, owed>>
    BY <1>10, QueueStepKeeps DEF hot, package
  <2>2. CASE t = Owner /\ CompatFails /\ RunCommand(t)
    BY <1>0, <2>1, <2>2, RunServes DEF CompatFails
  <2>3. ASSUME NEW u, RunAgain(u) PROVE UNCHANGED done
    BY <2>3 DEF RunAgain
  <2>4. ASSUME ~(t = Owner /\ CompatFails /\ RunCommand(t)) PROVE UNCHANGED done
    <3>1. CASE DrainFrame \/ Sweep(t) \/ PushToOwner(t)
      BY <3>1 DEF DrainFrame, Sweep, PushToOwner, Drain, FlushStale, PushAccepted,
                  PushRejected, history
    <3>2. CASE RunInline(t) \/ TakeTurn(t) \/ Finish(t)
      BY <3>2 DEF RunInline, TakeTurn, Finish, ClaimInline, JoinInline, AcquireExec,
                  FinishBatch, ReleaseExecuting, history
    <3>3. CASE PutBack(t)
      BY <2>3, <3>3 DEF PutBack
    <3>4. CASE t = Owner /\ CompatFails
      BY <2>3, <2>4, <3>4 DEF CompatFails
    <3> QED
      BY <1>10, <3>1, <3>2, <3>3, <3>4 DEF QueueStep
  <2> QED
    BY <2>1, <2>2, <2>4
<1>11. CASE QueueShutdown \/ Stale
  <2>1. UNCHANGED package
    BY <1>11 DEF QueueShutdown, Stale, hot
  <2>2. UNCHANGED done
    BY <1>11 DEF QueueShutdown, Shutdown, Stale, Age, history
  <2> QED
    BY <2>1, <2>2 DEF package
<1>12. ASSUME \/ \E e \in Edits : LoadSettings(e)
              \/ \E app \in Apps : Forget(app)
              \/ \E r \in requests : Prepare(r) \/ DropRequest(r)
              \/ HandedOff \/ Enrich \/ HotAdded \/ Latch
              \/ CompatSettles \/ CoordinatorShutdown
       PROVE  UNCHANGED <<done, desired>>
  <2>1. UNCHANGED vars /\ UNCHANGED package
    BY <1>12 DEF LoadSettings, Forget, Prepare, DropRequest, HandedOff, Enrich,
                 HotAdded, Latch, CompatSettles, CoordinatorShutdown
  <2> QED
    BY <1>1, <2>1 DEF package
<1> QED
  BY <1>3, <1>4, <1>6, <1>7, <1>8, <1>9, <1>10, <1>11, <1>12, HotCases

LEMMA DeliveredStep ==
  ASSUME Unrestricted, Base, Work, Busy, Delivered, HotNext
  PROVE  Delivered'
<1>1. TypeOK /\ HotTypeOK
  BY DEF Base, Ordered, Inv
<1>2. CASE UNCHANGED <<done, desired>>
  BY <1>2 DEF Delivered, Processed
<1> QED
  BY <1>1, <1>2, ServesDelivers, DoneCases

-----------------------------------------------------------------------------
(***************************************************************************)
(* While the queue is open, no snapshot is given up.                       *)
(***************************************************************************)

Settlement ==
  /\ abandoned # {} => shuttingDown
  /\ \A tk \in lost : tk.cmd.kind = "EnsureCompat"

LEMMA SettlementInit == Init => Settlement
BY DEF Init, Settlement

LEMMA SettlementStep ==
  ASSUME Inv, Work, Settlement, [Next]_vars
  PROVE  Settlement'
<1>0. TypeOK
  BY DEF Inv
<1>1. ASSUME UNCHANGED <<abandoned, lost>>, shuttingDown => shuttingDown' PROVE Settlement'
  BY <1>1 DEF Settlement
<1>2. ASSUME NEW t \in Threads, RunAgain(t) PROVE Settlement'
  <2> DEFINE e == Head(batch[t])
  <2>1. Running(t) /\ e.cmd.kind = "EnsureCompat" /\ shuttingDown' = shuttingDown
    BY <1>2 DEF RunAgain
  <2>2. /\ abandoned' = abandoned \/ shuttingDown
        /\ lost' = lost \/ lost' = lost \cup e.tickets
    BY <1>2 DEF RunAgain
  <2>3. \A tk \in e.tickets : tk.cmd.kind = "EnsureCompat"
    <3>1. e \in Entry /\ EntryCovers(e)
      <4>1. batch[t] \in Seq(Entry) /\ batch[t] # <<>>
        BY <1>0, <2>1 DEF TypeOK, Running
      <4> QED
        BY <4>1, TailCovers, HeadTailProperties DEF Work
    <3> QED
      BY <2>1, <3>1 DEF EntryCovers, Covers
  <2> HIDE DEF e
  <2> QED
    BY <2>1, <2>2, <2>3 DEF Settlement
<1>3. ASSUME NEW t \in Threads, NEW c, RunPublishing(t, c) PROVE Settlement'
  BY <1>3 DEF RunPublishing, shared, Settlement
<1>4. ASSUME NEW t \in Threads, Abandon(t) \/ RunCommand(t) PROVE Settlement'
  BY <1>4 DEF Abandon, RunCommand, shared, Settlement
<1>5. ASSUME NEW t \in Threads, NEW b \in Batches,
             Submit(t, b) \/ Drain(t) \/ FlushStale(t) \/ ClaimInline(t) \/ JoinInline(t)
      PROVE  Settlement'
  BY <1>1, <1>5 DEF Submit, Drain, FlushStale, ClaimInline, JoinInline, history, shared
<1>6. ASSUME NEW t \in Threads,
             \/ PushAccepted(t) \/ PushRejected(t) \/ AcquireExec(t) \/ FinishBatch(t)
             \/ ReleaseExecuting(t)
      PROVE  Settlement'
  BY <1>1, <1>6 DEF PushAccepted, PushRejected, AcquireExec, FinishBatch,
                    ReleaseExecuting, history, shared
<1>7. ASSUME NEW t \in Threads,
             Drain(t) \/ FlushStale(t) \/ ClaimInline(t) \/ JoinInline(t)
      PROVE  Settlement'
  BY <1>1, <1>7 DEF Drain, FlushStale, ClaimInline, JoinInline, history, shared
<1>8. CASE Shutdown \/ Age \/ UNCHANGED vars
  BY <1>8 DEF Shutdown, Age, vars, history, shared, Settlement
<1> QED
  BY <1>2, <1>3, <1>4, <1>5, <1>6, <1>7, <1>8 DEF Next, Proceed, Run

LEMMA SyncKept ==
  ASSUME Settlement', Kept, ~shuttingDown'
  PROVE  Sync \subseteq Sync'
BY DEF Settlement, Kept, Sync, Known

-----------------------------------------------------------------------------
(***************************************************************************)
(* What the coordinator last published, for the configured set.            *)
(***************************************************************************)

\* A config event finds no more apps than a snapshot may name.
EditsFit == \A e \in Edits : Valid(e.ids)

Submitted(gen, ids) == \E tk \in Sync : tk.cmd.gen = gen /\ tk.cmd.ids = ids

Newest ==
  /\ Valid(config)
  /\ generation > 0 => Submitted(generation, ready)
  /\ \A t \in Threads : Owned(t) => Submitted(generation + 1, job[t].ids)
  /\ initialized /\ generation = 0 => Owned(Main)
  /\ Owned(Watcher) => job[Watcher].members = config
  /\ call[Watcher] = "idle" /\ initialized =>
       IF Owned(Main) THEN job[Main].members = config ELSE managed = config

LEMMA NewestInit == EditsFit /\ HotInit => Newest
BY Distinct DEF EditsFit, HotInit, Newest, Owned, OwnsIn

\* The watcher's call is over when its snapshot is committed, or when what is
\* published is what is configured.
LEMMA WatcherFollows ==
  ASSUME Unrestricted, Base, Session, Topology, Newest, HotNext, call'[Watcher] = "idle"
  PROVE  \/ Still(Watcher)
         \/ CommitMembers(Watcher)
         \/ NobodyOwns /\ (initialized => managed = config)
<1>0. CallsOK /\ Watcher \in Threads
  BY Distinct DEF Base, HotTypeOK, CallsOK, Calls
<1>1. ASSUME NEW c, NEW j, Becomes(Watcher, c, j) PROVE c = "idle"
  BY <1>0, <1>1, BecomesOne
<1>2. CASE Publish
  <2>1. coord = NoThread
    BY <1>2 DEF Publish
  <2>2. NobodyOwns
    BY <2>1, NobodyElse DEF Base
  <2>3. ASSUME initialized PROVE managed = config
    <3>1. ~Publishable(config, job[Watcher].fetch)
      BY <1>1, <1>2, <2>3 DEF Publish, PublishLocked
    <3>2. generation # 0
      BY <2>2, <2>3, Distinct DEF Newest, NobodyOwns
    <3>3. Valid(ReadyOf(config))
      <4>1. ready \in SUBSET Apps /\ ready \cap config \in SUBSET ready
        BY DEF Base, HotTypeOK
      <4> QED
        BY <3>2, <4>1, FewerFit DEF ReadyOf, Topology
    <3>4. ~shuttingDown
      BY <2>3, ClosedIsOver
    <3> QED
      BY <3>1, <3>2, <3>3, <3>4 DEF Publishable
  <2> QED
    BY <2>2, <2>3
<1>3. ASSUME \/ \E e \in Edits : LoadSettings(e)
             \/ \E app \in Apps : Forget(app)
      PROVE  FALSE
  <2>1. call'[Watcher] \in {"publish", "forget"}
    <3>1. ASSUME NEW c, NEW j, Becomes(Watcher, c, j) PROVE call'[Watcher] = c
      BY <1>0, <3>1, BecomesOne
    <3> QED
      BY <1>3, <3>1 DEF LoadSettings, Forget
  <2> QED
    BY <2>1
<1>4. ~CommitApp(Watcher) /\ ~Coordinate(Watcher) /\ ~Validate(Watcher)
  BY <1>0, WhoStands, Distinct DEF Base, CommitApp, Coordinate, Validate, At
<1> QED
  BY <1>0, <1>2, <1>3, <1>4, MoverIs, Distinct DEF MoveOf

LEMMA NewestStep ==
  ASSUME EditsFit, Unrestricted, Base, Session, Session', Topology, Newest, HotNext,
         Settlement', Kept
  PROVE  Newest'
<1>0. /\ generation \in Nat /\ Watcher \in Threads /\ Main \in Threads
      /\ Owner \in Threads /\ Owner # Watcher /\ Main # Watcher /\ Owner # Main
  BY Distinct DEF Base, HotTypeOK
<1>1. initialized' => Sync \subseteq Sync'
  BY SyncKept DEF Session
<1>2. ASSUME NEW gen, NEW ids, Submitted(gen, ids), initialized'
      PROVE  \E tk \in Sync' : tk.cmd.gen = gen /\ tk.cmd.ids = ids
  BY <1>1, <1>2 DEF Submitted
\* Only the watcher, before its call, finds another configuration.
<1>3. Valid(config)' /\ (config' = config \/ (call[Watcher] = "idle" /\ call'[Watcher] # "idle"))
  <2>1. ASSUME NEW e \in Edits, LoadSettings(e)
        PROVE  config' = e.ids /\ call[Watcher] = "idle" /\ call'[Watcher] # "idle"
    <3>1. CallsOK
      BY DEF Base, HotTypeOK, CallsOK, Calls
    <3>2. ASSUME NEW c, NEW j, Becomes(Watcher, c, j) PROVE call'[Watcher] = c
      BY <1>0, <3>1, <3>2, BecomesOne
    <3>3. call'[Watcher] \in {"publish", "forget"}
      BY <2>1, <3>2 DEF LoadSettings
    <3> QED
      BY <2>1, <3>3 DEF LoadSettings, At
  <2>2. ASSUME NEW app \in Apps, Forget(app) PROVE config' = config
    BY <2>2 DEF Forget
  <2> QED
    BY <2>1, <2>2, ConfigCases DEF EditsFit, Newest, Valid
\* Before the session's first commit the first snapshot is under way.
<1>4. ~(Initialize /\ ~Publishable(config, {}))
  BY DEF Initialize, At, Publishable, Session, ReadyOf, Newest
<1>5. CASE Aside
  <2>1. UNCHANGED <<initialized, generation, managed, ready>>
    BY <1>5 DEF Aside, coordinator
  <2>2. \A t \in Threads : /\ Owned(t)' <=> Owned(t)
                           /\ Owned(t) => Still(t)
    BY <1>5 DEF Aside, SameOwners
  <2>3. ASSUME generation > 0 \/ \E t \in Threads : Owned(t) PROVE initialized
    BY <2>3, OwnedHolds, Distinct DEF Session, Base
  <2>4. generation' > 0 => Submitted(generation, ready)'
    BY <1>2, <2>1, <2>3 DEF Newest, Submitted
  <2>5. ASSUME NEW t \in Threads, Owned(t)'
        PROVE  Submitted(generation + 1, job[t].ids)'
    <3>1. Owned(t) /\ job'[t] = job[t] /\ Submitted(generation + 1, job[t].ids)
      BY <2>2, <2>5 DEF Newest, Still
    <3> QED
      BY <1>2, <2>1, <2>3, <3>1 DEF Submitted
  <2>6. initialized' /\ generation' = 0 => Owned(Main)'
    BY <1>0, <2>1, <2>2 DEF Newest
  <2>7. Owned(Watcher)' => job'[Watcher].members = config'
    BY <1>0, <1>3, <2>2 DEF Newest, Still, Owned, OwnsIn
  <2>8. ASSUME call'[Watcher] = "idle", initialized'
        PROVE  IF Owned(Main)' THEN job'[Main].members = config'
                               ELSE managed' = config'
    <3>1. ~CommitMembers(Watcher)
      BY <1>0, <2>1, CommitCommits DEF Commits
    <3>2. config' = config /\ initialized
      BY <1>3, <2>1, <2>8
    <3>3. CASE Still(Watcher)
      BY <1>0, <2>1, <2>2, <2>8, <3>2, <3>3 DEF Newest, Still
    <3>4. CASE NobodyOwns /\ (initialized => managed = config)
      BY <1>0, <2>1, <2>2, <3>2, <3>4 DEF NobodyOwns
    <3> QED
      BY <2>8, <3>1, <3>3, <3>4, WatcherFollows
  <2> QED
    BY <1>3, <2>4, <2>5, <2>6, <2>7, <2>8 DEF Newest
<1>6. CASE CoordinatorShutdown /\ SameOwners
  <2>1. ~initialized' /\ generation' = 0 /\ coord = NoThread
    BY <1>6 DEF CoordinatorShutdown
  <2>2. \A t \in Threads : ~Owned(t)'
    BY <1>6, <2>1, NobodyElse DEF SameOwners, NobodyOwns, Base
  <2> QED
    BY <1>0, <1>3, <2>1, <2>2 DEF Newest
<1>7. ASSUME NEW t \in Threads, Begins(t) PROVE Newest'
  <2>1. /\ UNCHANGED <<generation, managed, ready, config>> /\ initialized' /\ NobodyOwns
        /\ Owned(t)' /\ Adds(job'[t].ids)
        /\ \A u \in Threads : u # t => ~Owned(u)' /\ Still(u)
        /\ t # Main => initialized
        /\ t \in {Main, Watcher} => job'[t].members = config
    BY <1>7 DEF Begins
  <2>2. generation' > 0 => Submitted(generation, ready)'
    BY <1>2, <2>1 DEF Newest, Submitted
  <2>3. \A u \in Threads : Owned(u)' => Submitted(generation + 1, job[u].ids)'
    BY <2>1 DEF Adds, Submitted
  <2>4. generation' = 0 => Owned(Main)'
    BY <1>0, <2>1 DEF Newest, NobodyOwns
  <2>5. Owned(Watcher)' => job'[Watcher].members = config'
    BY <1>0, <2>1
  <2>6. call'[Watcher] = "idle" =>
          IF Owned(Main)' THEN job'[Main].members = config' ELSE managed' = config'
    <3>1. CASE t = Main
      BY <2>1, <3>1
    <3>2. ASSUME t # Main, call'[Watcher] = "idle" PROVE managed = config /\ ~Owned(Main)'
      <4>1. t # Watcher
        BY <2>1, <3>2 DEF Owned, OwnsIn
      <4> QED
        BY <1>0, <2>1, <3>2, <4>1 DEF Newest, NobodyOwns, Still
    <3> QED
      BY <2>1, <3>1, <3>2
  <2> QED
    BY <1>3, <2>2, <2>3, <2>4, <2>5, <2>6 DEF Newest
<1>8. ASSUME NEW t \in Threads, Commits(t) PROVE Newest'
  <2>1. /\ Owned(t) /\ UNCHANGED <<initialized, config>>
        /\ \A u \in Threads : ~Owned(u)'
        /\ \A u \in Threads : u # t => Still(u)
        /\ generation' = generation + 1 /\ ready' = job[t].ids
        /\ managed' = IF job[t].kind = "members" THEN job[t].members ELSE managed
    BY <1>8 DEF Commits, NobodyOwns
  <2>2. initialized /\ \A u \in Threads : u # t => ~Owned(u)
    BY <2>1, OwnedHolds, NobodyElse, Distinct DEF Session, Base
  <2>3. Submitted(generation, ready)'
    BY <1>2, <2>1, <2>2 DEF Newest, Submitted
  <2>4. call'[Watcher] = "idle" => managed' = config'
    <3>1. CASE t = Watcher
      <4>1. job[t].kind = "members"
        BY <1>0, <2>1, <3>1 DEF Base, Stand, CallOK, Owned, OwnsIn
      <4> QED
        BY <2>1, <3>1, <4>1 DEF Newest
    <3>2. CASE t = Main
      <4>1. job[t].kind = "members"
        BY <1>0, <2>1, <3>2 DEF Base, Stand, CallOK, Owned, OwnsIn
      <4> QED
        BY <1>0, <2>1, <2>2, <3>2, <4>1 DEF Newest, Still
    <3>3. CASE t \notin {Main, Watcher}
      <4>1. job[t].kind # "members"
        BY <2>1, <3>3 DEF Base, Stand, CallOK, Owned, OwnsIn
      <4> QED
        BY <1>0, <2>1, <2>2, <3>3, <4>1 DEF Newest, Still
    <3> QED
      BY <3>1, <3>2, <3>3
  <2> QED
    BY <1>0, <1>3, <2>1, <2>3, <2>4 DEF Newest
<1>9. CASE BeginsAndCommits
  <2>1. /\ NobodyOwns /\ initialized /\ Adds(ready') /\ generation' = generation + 1
        /\ UNCHANGED <<initialized, managed, config>> /\ Still(Watcher)
        /\ \A u \in Threads : ~Owned(u)'
    BY <1>0, <1>9 DEF BeginsAndCommits, NobodyOwns
  <2>2. Submitted(generation, ready)'
    BY <2>1 DEF Adds, Submitted
  <2>3. call'[Watcher] = "idle" => managed' = config'
    BY <1>0, <2>1 DEF Newest, NobodyOwns, Still
  <2> QED
    BY <1>0, <1>3, <2>1, <2>2, <2>3 DEF Newest
<1> QED
  BY <1>4, <1>5, <1>6, <1>7, <1>8, <1>9, SnapshotCases

LEMMA NewestStutters ==
  ASSUME Busy, Delivered, Newest, UNCHANGED allVars
  PROVE  Busy' /\ Delivered' /\ Newest'
<1>1. /\ UNCHANGED <<config, initialized, generation, managed, ready, desired, call, job>>
      /\ UNCHANGED <<pc, batch, done>>
  BY DEF allVars, vars, threads, history, hot, provisioning, coordinator, package, calls
<1>2. Busy' /\ Delivered'
  BY <1>1 DEF Busy, Running, Delivered, Processed
<1>3. Sync' = Sync
  BY SyncStutters
<1> QED
  BY <1>1, <1>2, <1>3 DEF Newest, Valid, Submitted, Owned, OwnsIn

\* When everything is quiet, what was published last was run, and nothing newer.
LEMMA QuietFollows ==
  ASSUME Base, Numbering, Topology, Delivered, Newest, Quiescent
  PROVE  /\ managed = config
         /\ desired = [gen |-> generation, ids |-> ready]
         /\ ready \subseteq config
<1>0. /\ generation \in Nat /\ desired \in [gen : Nat, ids : SUBSET Apps]
      /\ Main \in Threads /\ Watcher \in Threads
  BY Distinct DEF Base, HotTypeOK
<1>1. \A t \in Threads : call[t] = "idle" /\ pc[t] = "out"
  BY DEF Quiescent, At
<1>2. NobodyOwns /\ initialized
  BY <1>1 DEF NobodyOwns, Owned, OwnsIn, Quiescent
<1>3. managed = config /\ generation > 0
  <2>1. ~Owned(Main)
    BY <1>0, <1>2 DEF NobodyOwns
  <2> QED
    BY <1>0, <1>1, <1>2, <2>1 DEF Newest
<1>4. Live = {}
  <2>1. pending = <<>> /\ \A t \in Threads : hand[t] = <<>> /\ batch[t] = <<>>
    BY <1>1 DEF Quiescent, Base, Ordered, Places, Idle
  <2> QED
    BY <2>1, LiveIn, NoTickets
<1>5. Sync = Processed
  BY <1>4 DEF Sync, Known, Processed
<1>6. PICK tk \in Processed : tk.cmd.gen = generation /\ tk.cmd.ids = ready
  BY <1>3, <1>5 DEF Newest, Submitted
<1>7. desired.gen > 0
  BY <1>0, <1>3, <1>6 DEF Delivered
<1>8. PICK uk \in Processed : uk.cmd.gen = desired.gen /\ uk.cmd.ids = desired.ids
  BY <1>0, <1>7 DEF Delivered
<1>9. uk.cmd.gen <= generation
  BY <1>2, <1>5 DEF Numbering
<1>10. desired.gen = generation
  BY <1>0, <1>6, <1>8, <1>9 DEF Delivered
<1>11. tk = uk
  BY <1>5, <1>6, <1>8, <1>10 DEF Numbering
<1>12. desired = [gen |-> generation, ids |-> ready]
  BY <1>0, <1>6, <1>8, <1>10, <1>11
<1> QED
  BY <1>3, <1>12 DEF Topology

\* In whatever order snapshots are queued, coalesced, swept, run inline or run
\* on the spot, the package ends with the newest one, and that is the one the
\* coordinator last published for the configured set (hotreload.cpp,
\* publishLocked; packagepatch.cpp, synchronizePackage0).
THEOREM PackageFollowsConfigAlways ==
  Unrestricted /\ EditsFit => (HotSpec => []PackageFollowsConfig)
<1> SUFFICES ASSUME Unrestricted, EditsFit PROVE HotSpec => []PackageFollowsConfig
  OBVIOUS
<1> DEFINE I == /\ Base /\ Session /\ Work /\ Busy /\ Settlement
                /\ Numbering /\ Topology /\ Delivered /\ Newest
<1>1. HotInit => I
  <2>1. HotInit => Init
    BY DEF HotInit
  <2> QED
    BY <2>1, BaseInit, SessionInit, WorkInit, BusyInit, SettlementInit, NumberingInit,
       TopologyInit, DeliveredInit, NewestInit
<1>2. I /\ [HotNext]_allVars => I'
  <2> SUFFICES ASSUME I, [HotNext]_allVars PROVE I'
    OBVIOUS
  <2>1. Base' /\ [Next]_vars
    BY BaseStep
  <2>2. Work' /\ Settlement' /\ Kept
    BY <2>1, WorkStep, SettlementStep, PlacesStep DEF Base, Ordered
  <2>3. CASE HotNext
    <3>1. Session'
      BY <2>3, SessionStep
    <3>2. Busy' /\ Numbering' /\ Topology' /\ Delivered'
      BY <2>3, BusyStep, NumberingStep, TopologyStep, DeliveredStep
    <3>3. Newest'
      BY <2>2, <2>3, <3>1, NewestStep
    <3> QED
      BY <2>1, <2>2, <3>1, <3>2, <3>3
  <2>4. CASE UNCHANGED allVars
    <3>1. Topology'
      <4>1. UNCHANGED <<managed, ready, call, job>>
        BY <2>4 DEF allVars, hot, coordinator, calls
      <4> QED
        BY <4>1 DEF Topology, Valid, Owned, OwnsIn
    <3> QED
      BY <2>1, <2>2, <2>4, <3>1, SessionStutters, NumberingStutters, NewestStutters
  <2> QED
    BY <2>3, <2>4
<1>3. I => PackageFollowsConfig
  BY QuietFollows DEF PackageFollowsConfig
<1> QED
  BY <1>1, <1>2, <1>3, PTL DEF HotSpec

-----------------------------------------------------------------------------
(***************************************************************************)
(* Room: what these threads submit is about few enough things for the      *)
(* queue to hold all of it, whatever the apps and however the calls meet.  *)
(***************************************************************************)

\* The apps that are ever configured, and what commands for them are about:
\* a compatibility step is for one of the publications of an app, which no more
\* config events than there are can have ended.
AllIds == UNION {e.ids : e \in Edits}

CompatSubjects ==
  {[kind |-> "EnsureCompat", ids |-> {pair[1]}, gen |-> pair[2]] :
     pair \in CompatApps \X (0 .. MaxEdits - 1)}

SingleSubjects ==
  {[kind |-> k, ids |-> {}, gen |-> 0] :
     k \in {"InjectPackage0", "ReconcileLicenses", "SyncPackage0"}}

HotSubjects == CompatSubjects \cup SingleSubjects

\* The queue has a slot for each, and its id lists hold all the apps.
EnoughRoom ==
  /\ Cardinality(AllIds) <= MaxIds
  /\ Cardinality(CompatApps) * MaxEdits + 3 <= Capacity

HotCommands ==
  {c \in Command : /\ c.ids \subseteq AllIds /\ c.added \subseteq AllIds
                   /\ Subject(c) \in HotSubjects}

LEMMA AllIdsAreApps == AllIds \in SUBSET Apps
BY RolesAssumption DEF AllIds

LEMMA FewCompatSubjects ==
  /\ IsFiniteSet(CompatSubjects)
  /\ Cardinality(CompatSubjects) <= Cardinality(CompatApps) * MaxEdits
  /\ Cardinality(CompatSubjects) \in Nat
<1> DEFINE gens == 0 .. MaxEdits - 1
           P == CompatApps \X gens
           about(pair) == [kind |-> "EnsureCompat", ids |-> {pair[1]}, gen |-> pair[2]]
           f == [pair \in P |-> about(pair)]
<1>1. MaxEdits \in Nat /\ 0 \in Int /\ MaxEdits - 1 \in Int
  BY RolesAssumption
<1>2. IsFiniteSet(gens) /\ Cardinality(gens) = MaxEdits
  BY <1>1, FS_Interval
<1>3. IsFiniteSet(CompatApps)
  BY RolesAssumption, BoundsAssumption, FS_Subset
<1> HIDE DEF gens
<1>4. IsFiniteSet(P) /\ Cardinality(P) = Cardinality(CompatApps) * MaxEdits
  BY <1>2, <1>3, FS_Product
<1>5. CompatSubjects = {about(pair) : pair \in P}
  BY DEF CompatSubjects, gens
<1> HIDE DEF P, about
<1>6. f \in Surjection(P, CompatSubjects)
  BY <1>5 DEF Surjection
<1> HIDE DEF f
<1>7. IsFiniteSet(CompatSubjects) /\ Cardinality(CompatSubjects) <= Cardinality(P)
  BY <1>4, <1>6, FS_Surjection
<1> QED
  BY <1>4, <1>7, FS_CardinalityType

LEMMA FewSingleSubjects ==
  IsFiniteSet(SingleSubjects) /\ Cardinality(SingleSubjects) <= 3
<1> DEFINE about(k) == [kind |-> k, ids |-> {}, gen |-> 0]
           A == {about("InjectPackage0")}
           B == A \cup {about("ReconcileLicenses")}
           C == B \cup {about("SyncPackage0")}
<1>1. SingleSubjects = C
  BY DEF SingleSubjects
<1> HIDE DEF about
<1>2. IsFiniteSet(A) /\ Cardinality(A) = 1
  BY FS_Singleton
<1> HIDE DEF A
<1>3. /\ IsFiniteSet(B)
      /\ Cardinality(B) = 1 \/ Cardinality(B) = 2
  BY <1>2, FS_AddElement
<1> HIDE DEF B
<1>4. /\ IsFiniteSet(C)
      /\ \/ Cardinality(C) = Cardinality(B)
         \/ Cardinality(C) = Cardinality(B) + 1
  BY <1>3, FS_AddElement
<1> HIDE DEF C
<1> QED
  BY <1>1, <1>3, <1>4

LEMMA EnoughSlots ==
  ASSUME EnoughRoom
  PROVE  /\ Slots(HotSubjects, HotCommands)
         /\ \A c \in HotCommands : WithinIdCap(c)
<1>1. IsFiniteSet(HotSubjects) /\ Cardinality(HotSubjects) <= Capacity
  <2> DEFINE n == Cardinality(CompatSubjects)
             m == Cardinality(SingleSubjects)
             o == Cardinality(CompatSubjects \cap SingleSubjects)
             product == Cardinality(CompatApps) * MaxEdits
  <2>1. IsFiniteSet(CompatApps)
    BY RolesAssumption, BoundsAssumption, FS_Subset
  <2>2. product \in Nat /\ Capacity \in Nat
    <3>1. Cardinality(CompatApps) \in Nat /\ MaxEdits \in Nat /\ Capacity \in Nat
      BY <2>1, FS_CardinalityType, RolesAssumption, BoundsAssumption
    <3> QED
      BY <3>1
  <2>3. n \in Nat /\ n <= product
    BY FewCompatSubjects
  <2>4. m \in Nat /\ m <= 3
    BY FewSingleSubjects, FS_CardinalityType
  <2>5. o \in Nat
    <3>1. IsFiniteSet(CompatSubjects \cap SingleSubjects)
      BY FewCompatSubjects, FS_Subset
    <3> QED
      BY <3>1, FS_CardinalityType
  <2>6. IsFiniteSet(HotSubjects) /\ Cardinality(HotSubjects) = n + m - o
    BY FewCompatSubjects, FewSingleSubjects, FS_Union DEF HotSubjects
  <2>7. product + 3 <= Capacity
    BY DEF EnoughRoom
  <2> HIDE DEF n, m, o, product
  <2> QED
    BY <2>2, <2>3, <2>4, <2>5, <2>6, <2>7
<1>2. ASSUME NEW S \in SUBSET AllIds PROVE Cardinality(S) <= MaxIds
  <2>1. IsFiniteSet(AllIds)
    BY AllIdsAreApps, BoundsAssumption, FS_Subset
  <2>2. IsFiniteSet(S) /\ Cardinality(S) <= Cardinality(AllIds)
    BY <2>1, FS_Subset
  <2>3. Cardinality(S) \in Nat /\ Cardinality(AllIds) \in Nat /\ MaxIds \in Nat
    BY <2>1, <2>2, FS_CardinalityType, BoundsAssumption
  <2> QED
    BY <2>2, <2>3 DEF EnoughRoom
<1> QED
  BY <1>1, <1>2 DEF Slots, HotCommands, WithinIdCap

LEMMA HotClosed == Closed(HotCommands)
<1>1. ASSUME NEW c \in HotCommands, NEW d \in HotCommands, Subject(c) = Subject(d)
      PROVE  Merged(c, d) \in HotCommands
  <2>1. /\ c \in Command /\ d \in Command
        /\ c.ids \cup d.ids \subseteq AllIds /\ c.added \cup d.added \subseteq AllIds
    BY DEF HotCommands
  <2>2. Merged(c, d) \in Command /\ Subject(Merged(c, d)) = Subject(c)
    BY <1>1, <2>1, MergedType, MergedSubject
  <2>3. /\ Merged(c, d).ids \subseteq c.ids \cup d.ids
        /\ Merged(c, d).added \subseteq c.added \cup d.added
    <3>1. CASE d.kind = "InjectPackage0"
      BY <2>1, <3>1 DEF Merged, Command
    <3>2. CASE d.kind = "SyncPackage0" /\ d.gen > c.gen
      BY <2>1, <3>2 DEF Merged, carryPendingSnapshotWork, Command
    <3>3. CASE d.kind # "InjectPackage0" /\ ~(d.kind = "SyncPackage0" /\ d.gen > c.gen)
      BY <2>1, <3>3 DEF Merged
    <3> QED
      BY <3>1, <3>2, <3>3
  <2> QED
    BY <2>1, <2>2, <2>3 DEF HotCommands
<1>2. ASSUME NEW c \in HotCommands, NEW n \in 0 .. MaxAttempts - 1
      PROVE  [c EXCEPT !.attempt = n] \in HotCommands
  <2> DEFINE d == [c EXCEPT !.attempt = n]
  <2>1. c \in Command
    BY DEF HotCommands
  <2>2. /\ d \in Command /\ d.kind = c.kind /\ d.ids = c.ids
        /\ d.gen = c.gen /\ d.added = c.added
    BY <2>1 DEF Command
  <2> HIDE DEF d
  <2>3. Subject(d) = Subject(c)
    BY <2>2 DEF Subject
  <2>4. d \in HotCommands
    BY <2>2, <2>3 DEF HotCommands
  <2> QED
    BY <2>4 DEF d
<1> QED
  BY <1>1, <1>2 DEF Closed, HotCommands

\* The watcher's callback has begun with a config event, and a base leaves the
\* config only by one: an app has fewer publications behind it than there were
\* config events, except for the one that removed it.
Forgotten == IF call[Watcher] = "forget" THEN job[Watcher].app ELSE {}

Edited ==
  /\ call[Watcher] # "idle" => edits # 0
  /\ requests # {} => edits # 0
  /\ \A app \in Forgotten : app \notin config
  /\ \A app \in Apps :
       /\ publication[app] <= edits
       /\ edits # 0 /\ app \in config \cup Forgotten => publication[app] < edits

\* Whatever is managed, or about to be, was configured.  The first publication
\* asks for no refresh.
Named ==
  /\ config \subseteq AllIds /\ managed \subseteq AllIds
  /\ \A t \in Threads :
       Owned(t) /\ job[t].kind = "members" => job[t].members \subseteq AllIds
  /\ Owned(Main) => job[Main].fetch = {}

\* What the worker hands over to the owner.
Offered ==
  call[Worker] = "handoff" =>
    job[Worker].app \subseteq AllIds \cap CompatApps /\ job[Worker].gen < edits

LEMMA WatcherForgets ==
  ASSUME Base, HotNext
  PROVE  \/ Still(Watcher)
         \/ \E e \in Edits : LoadSettings(e)
         \/ \E app \in Apps : Forget(app)
         \/ call[Watcher] # "idle" /\ call'[Watcher] # "forget"
<1>0. CallsOK /\ Watcher \in Threads
  BY Distinct DEF Base, HotTypeOK, CallsOK, Calls
<1>1. ASSUME NEW c, NEW j, Becomes(Watcher, c, j) PROVE call'[Watcher] = c
  BY <1>0, <1>1, BecomesOne
<1>2. CASE Publish
  BY <1>1, <1>2 DEF Publish, PublishLocked, At
<1>3. CASE CommitMembers(Watcher)
  BY <1>1, <1>3 DEF CommitMembers, At
<1>4. ~CommitApp(Watcher) /\ ~Coordinate(Watcher) /\ ~Validate(Watcher)
  BY <1>0, WhoStands, Distinct DEF Base, CommitApp, Coordinate, Validate, At
<1> QED
  BY <1>0, <1>2, <1>3, <1>4, MoverIs, Distinct DEF MoveOf

\* A refresh is only asked for where the members are committed.
LEMMA RequestsFrom ==
  ASSUME Base, HotNext, Named
  PROVE  requests' \subseteq requests \/ call[Watcher] # "idle"
<1>1. ASSUME UNCHANGED provisioning PROVE requests' = requests
  BY <1>1 DEF provisioning
<1>2. ASSUME NEW t, NEW changed, PublishLocked(t, changed) PROVE requests' = requests
  BY <1>2 DEF PublishLocked, provisioning
<1>3. CASE Publish \/ Initialize
  BY <1>1, <1>2, <1>3 DEF Publish, Initialize
<1>4. ASSUME \/ \E e \in Edits : LoadSettings(e)
             \/ \E app \in Apps : Forget(app)
             \/ \E r \in requests : Prepare(r) \/ DropRequest(r)
      PROVE  requests' \subseteq requests
  BY <1>4 DEF LoadSettings, Forget, Prepare, DropRequest
<1>5. ASSUME NEW t \in Threads, CommitMembers(t)
      PROVE  requests' \subseteq requests \/ call[Watcher] # "idle"
  <2>1. /\ call[t] = "submit" /\ job[t].kind = "members"
        /\ requests' = {r \in requests : r.app \notin job[t].fetch}
             \cup {[app |-> app, gen |-> publication[app]] : app \in job[t].fetch}
    BY <1>5 DEF CommitMembers, At
  <2>2. CASE t = Main
    <3>1. job[t].fetch = {}
      BY <2>1, <2>2 DEF Named, Owned, OwnsIn
    <3> QED
      BY <2>1, <3>1
  <2>3. t \in {Main, Watcher}
    BY <2>1, WhoStands DEF Base
  <2> QED
    BY <2>1, <2>2, <2>3
<1>6. ASSUME \/ HandOff \/ HandedOff \/ Enrich \/ HotAdd \/ HotAdded \/ Latch
             \/ CompatSettles \/ CoordinatorShutdown \/ QueueShutdown
      PROVE  UNCHANGED provisioning
  BY <1>6 DEF HandOff, HandedOff, Enrich, HotAdd, HotAdded, Latch, CompatSettles,
              CoordinatorShutdown, QueueShutdown
<1>7. ASSUME NEW t \in Threads,
             Coordinate(t) \/ Validate(t) \/ CommitApp(t) \/ Execute(t)
      PROVE  UNCHANGED provisioning
  BY <1>7 DEF Coordinate, Validate, Rejected, ValidateAndSubmit, ValidateAndRun,
              CommitApp, Execute
<1>8. ASSUME NEW t \in Threads, QueueStep(t) \/ Stale PROVE UNCHANGED provisioning
  BY <1>8, QueueStepKeeps DEF hot
<1>9. CASE Stale
  BY <1>1, <1>8, <1>9, Distinct
<1> QED
  BY <1>1, <1>3, <1>4, <1>5, <1>6, <1>7, <1>8, <1>9, HotCases

LEMMA EditedInit == HotInit => Edited
BY Distinct DEF HotInit, Edited, Forgotten

LEMMA EditedStep ==
  ASSUME Base, Named, Edited, HotNext
  PROVE  Edited'
<1>0. /\ CallsOK /\ Watcher \in Threads /\ edits \in Nat
      /\ publication \in [Apps -> Nat] /\ job[Watcher] \in Job /\ config \in SUBSET Apps
  BY Distinct DEF Base, HotTypeOK, CallsOK, Calls
<1>1. ASSUME NEW e \in Edits, LoadSettings(e) PROVE Edited'
  <2> DEFINE removed == config \ e.ids
             c == IF removed = {} THEN "publish" ELSE "forget"
             j == [NoJob EXCEPT !.app = removed, !.fetch = e.changed]
  <2>1. /\ Becomes(Watcher, c, j) /\ edits' = edits + 1
        /\ config' = e.ids /\ UNCHANGED publication
    BY <1>1 DEF LoadSettings
  <2>2. j.app = removed /\ removed \cap config' = {} /\ c # "idle"
    BY <2>1 DEF NoJob
  <2> HIDE DEF c, j, removed
  <2>3. call'[Watcher] = c /\ job'[Watcher] = j
    BY <1>0, <2>1, BecomesOne
  <2>4. \A app \in Forgotten' : app \notin config'
    BY <2>2, <2>3 DEF Forgotten
  <2>5. edits' # 0 /\ \A app \in Apps : publication'[app] < edits'
    BY <1>0, <2>1 DEF Edited
  <2>6. \A app \in Apps : publication'[app] <= edits'
    BY <1>0, <2>1 DEF Edited
  <2> QED
    BY <2>4, <2>5, <2>6 DEF Edited
<1>2. ASSUME NEW app \in Apps, Forget(app) PROVE Edited'
  <2> DEFINE left == job[Watcher].app \ {app}
             c == IF left = {} THEN "publish" ELSE "forget"
             j == [job[Watcher] EXCEPT !.app = left]
  <2>1. /\ call[Watcher] = "forget" /\ Becomes(Watcher, c, j)
        /\ app \in job[Watcher].app
        /\ publication' = [publication EXCEPT ![app] = @ + 1]
        /\ UNCHANGED <<config, requests, edits>>
    BY <1>2 DEF Forget, At
  <2>2. j.app = left
    BY <1>0 DEF Job
  <2>3. left = Forgotten \ {app} /\ app \in Forgotten /\ c # "idle"
    BY <2>1 DEF Forgotten
  <2> HIDE DEF c, j, left
  <2>4. call'[Watcher] = c /\ job'[Watcher] = j
    BY <1>0, <2>1, BecomesOne
  <2>5. Forgotten' \subseteq Forgotten \ {app}
    BY <2>2, <2>3, <2>4 DEF Forgotten
  <2>6. edits # 0 /\ app \notin config /\ publication[app] < edits
    BY <2>1, <2>3 DEF Edited
  <2>7. ASSUME NEW a \in Apps
        PROVE  /\ publication'[a] <= edits'
               /\ edits' # 0 /\ a \in config' \cup Forgotten' => publication'[a] < edits'
    <3>1. CASE a = app
      <4>1. publication'[a] = publication[app] + 1 /\ publication[app] \in Nat
        BY <1>0, <2>1, <3>1
      <4> QED
        BY <1>0, <2>1, <2>5, <2>6, <3>1, <4>1
    <3>2. CASE a # app
      <4>1. publication'[a] = publication[a]
        BY <1>0, <2>1, <3>2
      <4> QED
        BY <2>1, <2>5, <4>1 DEF Edited
    <3> QED
      BY <3>1, <3>2
  <2>8. \A a \in Forgotten' : a \notin config'
    BY <2>1, <2>5 DEF Edited
  <2> QED
    BY <2>1, <2>6, <2>7, <2>8 DEF Edited
<1>3. ASSUME UNCHANGED <<config, publication, edits>>,
             Still(Watcher) \/ (call[Watcher] # "idle" /\ call'[Watcher] # "forget")
      PROVE  Edited'
  <2>1. Forgotten' \subseteq Forgotten
    BY <1>3 DEF Forgotten, Still
  <2>2. call'[Watcher] # "idle" => edits # 0
    BY <1>3 DEF Still, Edited
  <2>3. requests' # {} => edits # 0
    BY RequestsFrom DEF Edited
  <2> QED
    BY <1>3, <2>1, <2>2, <2>3 DEF Edited
<1> QED
  BY <1>1, <1>2, <1>3, ConfigCases, WatcherForgets

\* The main thread publishes once, without a refresh.
LEMMA MainFetches ==
  ASSUME Base, HotNext, Owned(Main)'
  PROVE  \/ Owned(Main) /\ Still(Main)
         \/ job'[Main].fetch = {}
<1>0. CallsOK /\ Main \in Threads
  BY Distinct DEF Base, HotTypeOK, CallsOK, Calls
<1>1. ASSUME NEW c, NEW j, Becomes(Main, c, j) PROVE c = "submit" /\ job'[Main] = j
  BY <1>0, <1>1, BecomesOne DEF Owned, OwnsIn
<1>2. CASE Still(Main)
  BY <1>2 DEF Still, Owned, OwnsIn
<1>3. CASE Initialize
  <2> DEFINE j == MembersJob(config, ReadyOf(config), Announced(config), {})
  <2>1. /\ ReadyOf(config) \in SUBSET Apps /\ Announced(config) \in SUBSET Apps
        /\ config \in SUBSET Apps
    BY DEF Base, HotTypeOK, ReadyOf, Announced
  <2>2. j.fetch = {}
    BY <2>1, MembersForm
  <2>3. Becomes(Main, "submit", j) \/ Becomes(Main, "idle", NoJob)
    BY <1>3 DEF Initialize, PublishLocked, MembersJob
  <2> HIDE DEF j
  <2> QED
    BY <1>1, <2>2, <2>3
<1>4. ~CoordinatorShutdown /\ ~QueueShutdown /\ ~CommitMembers(Main)
  BY <1>1 DEF CoordinatorShutdown, QueueShutdown, CommitMembers
<1>5. ~CommitApp(Main) /\ ~Coordinate(Main) /\ ~Validate(Main)
  BY <1>0, WhoStands, Distinct DEF Base, CommitApp, Coordinate, Validate, At
<1> QED
  BY <1>0, <1>2, <1>3, <1>4, <1>5, MoverIs, Distinct DEF MoveOf

LEMMA NamedInit == HotInit => Named
<1> SUFFICES ASSUME HotInit PROVE Named
  OBVIOUS
<1>1. config \subseteq AllIds
  BY DEF HotInit, AllIds
<1>2. managed = {} /\ \A t \in Threads : ~Owned(t)
  BY DEF HotInit, Owned, OwnsIn
<1> QED
  BY <1>1, <1>2, Distinct DEF Named

LEMMA NamedStep ==
  ASSUME Unrestricted, Base, Session, Named, HotNext
  PROVE  Named'
<1>1. config' \subseteq AllIds
  <2>1. ASSUME NEW e \in Edits, LoadSettings(e) PROVE config' \subseteq AllIds
    BY <2>1 DEF LoadSettings, AllIds
  <2>2. ASSUME NEW app \in Apps, Forget(app) PROVE UNCHANGED config
    BY <2>2 DEF Forget
  <2> QED
    BY <2>1, <2>2, ConfigCases DEF Named
<1>2. Owned(Main)' => job'[Main].fetch = {}
  BY MainFetches DEF Still, Named
<1>3. ASSUME SameOwners, managed' \subseteq AllIds PROVE Named'
  <2>1. ASSUME NEW t \in Threads, Owned(t)' PROVE Owned(t) /\ job'[t] = job[t]
    BY <1>3, <2>1 DEF SameOwners, Still
  <2> QED
    BY <1>1, <1>2, <1>3, <2>1 DEF Named
<1>4. CASE Aside \/ (Initialize /\ SameOwners) \/ (CoordinatorShutdown /\ SameOwners)
  BY <1>3, <1>4 DEF Aside, coordinator, Initialize, CoordinatorShutdown, Named
<1>5. ASSUME NEW t \in Threads, Begins(t) PROVE Named'
  <2>1. /\ managed' = managed
        /\ \A u \in Threads : Owned(u)' => u = t
        /\ job'[t].kind = "members" => job'[t].members = config
    BY <1>5 DEF Begins
  <2> QED
    BY <1>1, <1>2, <2>1 DEF Named
<1>6. ASSUME NEW t \in Threads, Commits(t) PROVE Named'
  <2>1. managed' \subseteq AllIds /\ \A u \in Threads : ~Owned(u)'
    BY <1>6 DEF Commits, NobodyOwns, Named
  <2> QED
    BY <1>1, <1>2, <2>1 DEF Named
<1>7. CASE BeginsAndCommits
  <2>1. managed' \subseteq AllIds /\ \A u \in Threads : ~Owned(u)'
    BY <1>7 DEF BeginsAndCommits, NobodyOwns, Named
  <2> QED
    BY <1>1, <1>2, <2>1 DEF Named
<1> QED
  BY <1>4, <1>5, <1>6, <1>7, SnapshotCases

\* What the worker offers, it has prepared for a request.
LEMMA OfferedFrom ==
  ASSUME Base, HotNext, call'[Worker] = "handoff"
  PROVE  \/ Still(Worker)
         \/ \E r \in requests : /\ Prepare(r) /\ r.app \in CompatApps
                                /\ job'[Worker] = AppJob({r.app}, r.gen)
<1>0. CallsOK /\ Worker \in Threads
  BY Distinct DEF Base, HotTypeOK, CallsOK, Calls
<1>1. ASSUME NEW c, NEW j, Becomes(Worker, c, j) PROVE c = "handoff" /\ job'[Worker] = j
  BY <1>0, <1>1, BecomesOne
<1>2. ~After(Worker)
  BY <1>0, AfterOne
<1>3. ~HandOff /\ ~HandedOff /\ ~Enrich
  BY <1>1 DEF HandOff, HandedOff, Enrich
<1>4. ~CommitMembers(Worker) /\ ~CommitApp(Worker)
  BY <1>1, <1>2 DEF CommitMembers, CommitApp
<1>5. ~Coordinate(Worker) /\ ~Validate(Worker)
  BY <1>1, <1>2 DEF Coordinate, Validate, Rejected, ValidateAndSubmit, ValidateAndRun
<1>6. ASSUME NEW r \in requests, Prepare(r)
      PROVE  r.app \in CompatApps /\ job'[Worker] = AppJob({r.app}, r.gen)
  <2>1. Becomes(Worker, IF r.app \in CompatApps THEN "handoff" ELSE "coordinate",
                AppJob({r.app}, r.gen))
    BY <1>6 DEF Prepare, AppJob
  <2> QED
    BY <1>1, <2>1
<1> QED
  BY <1>0, <1>3, <1>4, <1>5, <1>6, MoverIs, Distinct DEF MoveOf

LEMMA OfferedInit == HotInit => Offered
BY Distinct DEF HotInit, Offered

LEMMA OfferedStep ==
  ASSUME Base, Named, Edited, Offered, HotNext
  PROVE  Offered'
<1>0. /\ edits \in Nat /\ requests \in SUBSET Request /\ job \in [Threads -> Job]
      /\ Worker \in Threads
  BY Distinct DEF Base, HotTypeOK
<1>1. edits' = edits \/ edits' = edits + 1
  BY ConfigCases DEF LoadSettings, Forget
<1>2. ASSUME call'[Worker] = "handoff", Still(Worker) PROVE Offered'
  <2>1. job[Worker].gen \in Nat
    BY <1>0 DEF Job
  <2> QED
    BY <1>0, <1>1, <1>2, <2>1 DEF Offered, Still
<1>3. ASSUME NEW r \in requests, Prepare(r), r.app \in CompatApps,
             job'[Worker] = AppJob({r.app}, r.gen)
      PROVE  Offered'
  <2>1. r.app \in Apps /\ r.gen \in Nat
    BY <1>0 DEF Request
  <2>2. job'[Worker].app = {r.app} /\ job'[Worker].gen = r.gen
    BY <1>3, <2>1, AppForm
  <2>3. r.app \in config /\ publication[r.app] = r.gen /\ edits' = edits
    BY <1>3 DEF Prepare, StillAsked
  <2>4. r.gen < edits
    BY <2>1, <2>3 DEF Edited
  <2> QED
    BY <1>3, <2>2, <2>3, <2>4 DEF Offered, Named
<1> QED
  BY <1>2, <1>3, OfferedFrom DEF Offered

\* The batches that these threads submit.
LEMMA SnapshotFits ==
  ASSUME Unrestricted, NEW gen \in Nat, NEW ids \in SUBSET AllIds,
         NEW added \in SUBSET AllIds
  PROVE  LET b == <<syncPackage0(gen, ids, added)>> IN
         b \in Batches /\ \A i \in DOMAIN b : b[i] \in HotCommands
<1> DEFINE c == syncPackage0(gen, ids, added)
           b == <<c>>
<1>1. ids \in SUBSET Apps /\ added \in SUBSET Apps
  BY AllIdsAreApps
<1>2. b \in Batches
  BY <1>1 DEF Unrestricted
<1>3. c \in Command /\ c.ids = ids /\ c.added = added
  BY <1>1, BoundsAssumption DEF syncPackage0, command, Command, Kind
<1>4. Subject(c) = [kind |-> "SyncPackage0", ids |-> {}, gen |-> 0]
  BY DEF syncPackage0, command, Subject
<1>5. Subject(c) \in HotSubjects
  BY <1>4 DEF HotSubjects, SingleSubjects
<1>6. c \in HotCommands
  <2> HIDE DEF c
  <2> QED
    BY <1>3, <1>5 DEF HotCommands
<1>7. \A i \in DOMAIN b : b[i] \in HotCommands
  <2> HIDE DEF c
  <2> QED
    BY <1>6
<1> QED
  BY <1>2, <1>7

LEMMA CompatFits ==
  ASSUME Unrestricted, NEW app \in AllIds \cap CompatApps, NEW gen \in 0 .. MaxEdits - 1
  PROVE  LET b == <<ensureCompat(app, gen, 0)>> IN
         b \in Batches /\ \A i \in DOMAIN b : b[i] \in HotCommands
<1> DEFINE c == ensureCompat(app, gen, 0)
           b == <<c>>
           pair == <<app, gen>>
<1>1. app \in Apps /\ gen \in Nat
  BY AllIdsAreApps
<1>2. b \in Batches
  BY <1>1 DEF Unrestricted
<1>3. c \in Command /\ c.ids = {app} /\ c.added = {}
  BY <1>1, BoundsAssumption DEF ensureCompat, command, Command, Kind
<1>4. Subject(c) = [kind |-> "EnsureCompat", ids |-> {app}, gen |-> gen]
  BY DEF ensureCompat, command, Subject
<1>5. Subject(c) \in HotSubjects
  <2>1. pair \in CompatApps \X (0 .. MaxEdits - 1) /\ pair[1] = app /\ pair[2] = gen
    OBVIOUS
  <2> HIDE DEF pair
  <2> QED
    BY <1>4, <2>1 DEF HotSubjects, CompatSubjects
<1>6. c \in HotCommands
  <2> HIDE DEF c
  <2> QED
    BY <1>3, <1>5 DEF HotCommands
<1>7. \A i \in DOMAIN b : b[i] \in HotCommands
  <2> HIDE DEF c
  <2> QED
    BY <1>6
<1> QED
  BY <1>2, <1>7

LEMMA HotAddFits ==
  ASSUME Unrestricted, NEW ids \in SUBSET AllIds
  PROVE  LET b == <<injectPackage0(ids), reconcileLicenses>> IN
         b \in Batches /\ \A i \in DOMAIN b : b[i] \in HotCommands
<1> DEFINE c == injectPackage0(ids)
           d == reconcileLicenses
           b == <<c, d>>
<1>1. ids \in SUBSET Apps
  BY AllIdsAreApps
<1>2. b \in Batches
  BY <1>1 DEF Unrestricted
<1>3. /\ c \in Command /\ c.ids = ids /\ c.added = {}
      /\ d \in Command /\ d.ids = {} /\ d.added = {}
  BY <1>1, BoundsAssumption
  DEF injectPackage0, reconcileLicenses, command, Command, Kind
<1>4. /\ Subject(c) = [kind |-> "InjectPackage0", ids |-> {}, gen |-> 0]
      /\ Subject(d) = [kind |-> "ReconcileLicenses", ids |-> {}, gen |-> 0]
  BY DEF injectPackage0, reconcileLicenses, command, Subject
<1>5. Subject(c) \in HotSubjects /\ Subject(d) \in HotSubjects
  BY <1>4 DEF HotSubjects, SingleSubjects
<1>6. c \in HotCommands /\ d \in HotCommands
  <2> HIDE DEF c, d
  <2> QED
    BY <1>3, <1>5 DEF HotCommands
<1>7. \A i \in DOMAIN b : b[i] \in HotCommands
  <2> HIDE DEF c, d
  <2> QED
    BY <1>6
<1> QED
  BY <1>2, <1>7

\* What is handed over after a step is made of them.
Fit == \A u \in Threads : AllIn(HotCommands, hand'[u])

\* A step of a thread's call submits one of them, or nothing.
LEMMA HandsFit ==
  ASSUME Unrestricted, Base, Topology, Named, Offered, SortedIn(HotCommands), HotNext
  PROVE  Fit
<1>0. /\ TypeOK /\ HotTypeOK /\ \A u \in Threads : AllIn(HotCommands, hand[u])
  BY DEF Base, Ordered, Inv, SortedIn
<1>1. ASSUME NEW t \in Threads, NEW b \in Batches, Submit(t, b),
             \A i \in DOMAIN b : b[i] \in HotCommands
      PROVE  Fit
  BY <1>0, <1>1, HandFilled DEF Fit
<1>2. ASSUME NEW t \in Threads,
             \/ Drain(t) \/ FlushStale(t) \/ Proceed(t)
             \/ Shutdown \/ Age \/ UNCHANGED vars
      PROVE  Fit
  BY <1>0, <1>2, HandLeft, NothingIn DEF Fit
<1>3. UNCHANGED vars => Fit
  BY <1>2, Distinct
<1>4. ASSUME NEW t \in {Main, Watcher}, NEW changed, PublishLocked(t, changed)
      PROVE  Fit
  <2> DEFINE b == <<syncPackage0(generation + 1, ReadyOf(config),
                                 Announced(config))>>
  <2>1. /\ ReadyOf(config) \in SUBSET AllIds /\ Announced(config) \in SUBSET AllIds
        /\ generation + 1 \in Nat
    BY <1>0 DEF HotTypeOK, ReadyOf, Announced, Named
  <2>2. b \in Batches /\ \A i \in DOMAIN b : b[i] \in HotCommands
    BY <2>1, SnapshotFits
  <2>3. Submit(t, b) \/ UNCHANGED vars
    BY <1>4 DEF PublishLocked
  <2> HIDE DEF b
  <2> QED
    BY <1>1, <1>3, <2>2, <2>3, Distinct
<1>5. CASE Publish \/ Initialize
  BY <1>3, <1>4, <1>5 DEF Publish, Initialize
<1>6. CASE HandOff
  <2> DEFINE b == <<ensureCompat(TheApp(Worker), job[Worker].gen, 0)>>
  <2>1. call[Worker] = "handoff"
    BY <1>6 DEF HandOff, At
  <2>2. PICK app \in Apps : job[Worker].app = {app}
    BY <2>1, Distinct DEF Base, Stand, CallOK
  <2>3. TheApp(Worker) = app /\ app \in AllIds \cap CompatApps
    BY <2>1, <2>2, TheAppIs, Distinct DEF Offered
  <2>4. job[Worker].gen \in 0 .. MaxEdits - 1
    <3>1. job[Worker].gen \in Nat /\ edits \in 0 .. MaxEdits /\ MaxEdits \in Nat
      BY <1>0, Distinct, RolesAssumption DEF HotTypeOK, Job
    <3>2. job[Worker].gen < edits
      BY <2>1 DEF Offered
    <3> QED
      BY <3>1, <3>2
  <2>5. b \in Batches /\ \A i \in DOMAIN b : b[i] \in HotCommands
    BY <2>3, <2>4, CompatFits
  <2>6. Submit(Worker, b) \/ UNCHANGED vars
    BY <1>6 DEF HandOff
  <2> HIDE DEF b
  <2> QED
    BY <1>1, <1>3, <2>5, <2>6, Distinct
<1>7. CASE HotAdd
  <2> DEFINE b == <<injectPackage0(config), reconcileLicenses>>
  <2>1. b \in Batches /\ \A i \in DOMAIN b : b[i] \in HotCommands
    BY HotAddFits DEF Named
  <2>2. Submit(Picser, b)
    BY <1>7 DEF HotAdd
  <2> HIDE DEF b
  <2> QED
    BY <1>1, <2>1, <2>2, Distinct
<1>8. ASSUME NEW t \in Threads, RunCommand(t) PROVE Fit
  BY <1>2, <1>8 DEF Proceed, Run
<1>9. ASSUME NEW t \in Threads, Coordinate(t) PROVE Fit
  <2>1. RunCommand(t) \/ UNCHANGED vars
    BY <1>9 DEF Coordinate, Rejected
  <2> QED
    BY <1>3, <1>8, <2>1
<1>10. ASSUME NEW t \in Threads, Validate(t) PROVE Fit
  <2> DEFINE added == IF job[t].kind = "base" THEN job[t].app ELSE {}
             c == syncPackage0(generation + 1, NextReady(t), added)
             b == <<c>>
  <2>1. call[t] = "validate" /\ generation + 1 \in Nat
    BY <1>0, <1>10 DEF Validate, HotTypeOK
  <2>2. NextReady(t) \in SUBSET AllIds /\ added \in SUBSET AllIds
    BY <2>1 DEF Topology, Named, NextReady
  <2>3. NextReady(t) \in SUBSET Apps /\ added \in SUBSET Apps
    BY <2>2, AllIdsAreApps
  <2>4. b \in Batches /\ \A i \in DOMAIN b : b[i] \in HotCommands
    <3> HIDE DEF added
    <3> QED
      BY <2>1, <2>2, SnapshotFits
  <2>5. c \in NestedCommands
    <3> HIDE DEF added
    <3> QED
      BY <2>1, <2>3 DEF Unrestricted
  <2>6. RunCommand(t) \/ UNCHANGED vars \/ Submit(t, b) \/ RunPublishing(t, c)
    BY <1>10 DEF Validate, Rejected, ValidateAndSubmit, ValidateAndRun, AppSnapshot
  <2> HIDE DEF b, c
  <2>7. CASE RunPublishing(t, c)
    BY <1>2, <2>5, <2>7 DEF Proceed, Run
  <2> QED
    BY <1>1, <1>3, <1>8, <2>4, <2>6, <2>7
<1>11. ASSUME NEW t \in Threads, QueueStep(t) PROVE Fit
  <2>1. CASE DrainFrame \/ Sweep(t)
    BY <1>2, <2>1, Distinct DEF DrainFrame, Sweep
  <2>2. CASE PushToOwner(t) \/ RunInline(t) \/ TakeTurn(t) \/ Finish(t)
    BY <1>2, <2>2 DEF PushToOwner, RunInline, TakeTurn, Finish, Proceed
  <2>3. CASE PutBack(t) \/ (t = Owner /\ CompatFails)
    BY <1>2, <2>3 DEF PutBack, CompatFails, Proceed, Run
  <2> QED
    BY <1>11, <2>1, <2>2, <2>3 DEF QueueStep
<1>12. CASE QueueShutdown \/ Stale
  BY <1>2, <1>12, Distinct DEF QueueShutdown, Stale
<1>13. ASSUME NEW t \in Threads, Execute(t) \/ CommitMembers(t) \/ CommitApp(t)
       PROVE  Fit
  BY <1>3, <1>8, <1>13 DEF Execute, CommitMembers, CommitApp
<1>14. ASSUME \/ \E e \in Edits : LoadSettings(e)
              \/ \E app \in Apps : Forget(app)
              \/ \E r \in requests : Prepare(r) \/ DropRequest(r)
              \/ HandedOff \/ Enrich \/ HotAdded \/ Latch
              \/ CompatSettles \/ CoordinatorShutdown
       PROVE  UNCHANGED vars
  BY <1>14 DEF LoadSettings, Forget, Prepare, DropRequest, HandedOff, Enrich,
               HotAdded, Latch, CompatSettles, CoordinatorShutdown
<1> QED
  BY <1>3, <1>5, <1>6, <1>7, <1>9, <1>10, <1>11, <1>12, <1>13, <1>14, HotCases

\* What the room rests on.
Sorting ==
  /\ Base /\ Session /\ Topology /\ Named /\ Edited /\ Offered
  /\ SortedIn(HotCommands)

LEMMA SortingInit == HotInit => Sorting
<1> SUFFICES ASSUME HotInit PROVE Sorting
  OBVIOUS
<1>1. SortedIn(HotCommands)
  BY NothingIn DEF HotInit, Init, SortedIn
<1> QED
  BY <1>1, BaseInit, SessionInit, TopologyInit, NamedInit, EditedInit, OfferedInit
  DEF Sorting

LEMMA SortingStep ==
  ASSUME Unrestricted, Sorting, [HotNext]_allVars
  PROVE  Sorting'
<1>0. /\ Base /\ Session /\ Topology /\ Named /\ Edited /\ Offered
      /\ SortedIn(HotCommands)
  BY DEF Sorting
<1>1. Base' /\ [Next]_vars /\ Inv /\ TypeOK
  BY <1>0, BaseStep DEF Base, Ordered, Inv
<1>2. CASE HotNext
  <2>1. Session' /\ Topology' /\ Named' /\ Edited' /\ Offered'
    BY <1>0, <1>2, SessionStep, TopologyStep, NamedStep, EditedStep, OfferedStep
  <2>2. \A t \in Threads : AllIn(HotCommands, hand'[t])
    BY <1>0, <1>2, HandsFit DEF Fit
  <2>3. SortedIn(HotCommands)'
    BY <1>0, <1>1, <2>2, HotClosed, SortedStep
  <2> QED
    BY <1>1, <2>1, <2>3 DEF Sorting
<1>3. CASE UNCHANGED allVars
  <2>1. UNCHANGED <<config, publication, requests, edits, managed, ready, call, job,
                    pending, hand, batch>>
    BY <1>3 DEF allVars, vars, shared, threads, hot, provisioning, coordinator, calls
  <2>2. Topology'
    BY <1>0, <2>1 DEF Topology, Valid, Owned, OwnsIn
  <2>3. Named'
    BY <1>0, <2>1 DEF Named, Owned, OwnsIn
  <2>4. Edited' /\ Offered'
    BY <1>0, <2>1 DEF Edited, Forgotten, Offered
  <2>5. SortedIn(HotCommands)'
    BY <1>0, <2>1 DEF SortedIn, Spread, AllIn
  <2> QED
    BY <1>0, <1>1, <1>3, <2>2, <2>3, <2>4, <2>5, SessionStutters DEF Sorting
<1> QED
  BY <1>2, <1>3

LEMMA SortingIsRoomy ==
  ASSUME EnoughRoom, Sorting
  PROVE  Roomy
<1> SUFFICES ASSUME NEW t \in Threads, pc[t] \in {"hand", "swept"}
             PROVE  CanPushBatch(pending, hand[t])
  BY DEF Roomy
<1>1. TypeOK /\ Hands /\ SortedIn(HotCommands)
  BY DEF Sorting, Base, Ordered, Inv
<1>2. pending \in Seq(Entry) /\ hand[t] \in Seq(Entry) /\ Len(hand[t]) \in {1, 2}
  BY <1>1, HandLength DEF TypeOK
<1>3. /\ AllIn(HotCommands, pending) /\ Spread(pending)
      /\ AllIn(HotCommands, hand[t])
  BY <1>1 DEF SortedIn
<1> QED
  BY <1>2, <1>3, EnoughSlots, HotClosed, RoomToPushBatch

\* No submission is refused for want of room: three kinds of command take a slot
\* each, and a compatibility step one for each app and publication it can be
\* for, whatever is pending (ownerqueue.hpp, pushBatch; hotreload.cpp;
\* appinfo_provision.cpp; pics.cpp).
THEOREM RoomyAlways == Unrestricted /\ EnoughRoom => (HotSpec => []Roomy)
<1> SUFFICES ASSUME Unrestricted, EnoughRoom PROVE HotSpec => []Roomy
  OBVIOUS
<1>1. Sorting /\ [HotNext]_allVars => Sorting'
  BY SortingStep
<1>2. Sorting => Roomy
  BY SortingIsRoomy
<1> QED
  BY <1>1, <1>2, SortingInit, PTL DEF HotSpec

\* With the owner latched before the session, the queue switched on and a slot
\* for everything it can be asked for, no circle of threads ever waits for each
\* other's locks (hotreload.cpp, publishLocked and publishPreparedBase;
\* ownerwork.cpp, submitBatch; ownerqueue.hpp, pushBatch).
THEOREM NoDeadlockWithRoom ==
  Unrestricted /\ QueueEnabled /\ LatchedFirst /\ EnoughRoom =>
    (HotSpec => []NoDeadlock)
<1> SUFFICES ASSUME Unrestricted, QueueEnabled, LatchedFirst, EnoughRoom
             PROVE  HotSpec => []NoDeadlock
  OBVIOUS
<1>1. HotSpec => []Roomy
  BY RoomyAlways
<1>2. HotSpec /\ []Roomy => []NoDeadlock
  BY NoDeadlockAlways
<1> QED
  BY <1>1, <1>2, PTL

=============================================================================
