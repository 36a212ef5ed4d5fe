------------------------ MODULE LibraryRemovalProofs ------------------------
(***************************************************************************)
(* Proofs about the queue of library presentations, for any set of apps    *)
(* and any capacity.                                                       *)
(*                                                                         *)
(* Compensated and QueuedIsWanted are inductive once it is known what the  *)
(* work in flight is to the frame that holds it (Linked).  Every call of   *)
(* the queue but three ends in reconcileLocked, so most of the work is one *)
(* lemma about that, ReconcileKeeps.                                       *)
(***************************************************************************)
EXTENDS LibraryRemoval, SequenceTheorems, FiniteSetTheorems, TLAPS

PerApp(q) == \A i, j \in DOMAIN q : q[i].app = q[j].app => i = j

Disjoint(q, flying) == \A w \in flying : w \notin Queued(q)

\* The work in flight and the frame that holds it; what a queue that is not in
\* use holds.
Linked ==
  /\ frame = "idle" <=> work = {}
  /\ inFlight \subseteq work
  /\ hook = "ready" => inFlight = work
  /\ hook # "ready" => /\ desired = {} /\ effective = {}
                       /\ pending = <<>> /\ inFlight = {}
  /\ closed => presentReady = {}
  /\ hook \in {"unset", "closed"} => work = {} /\ hidden = {}
  /\ Disjoint(pending, inFlight)
  /\ frame \in {"begun", "marked"} =>
       \A w \in inFlight : w.app \in effective <=> w.action = "remove"

Inv == /\ TypeOK /\ Linked /\ QueuedIsWanted /\ Compensated
       /\ EffectIsTold /\ WithinCapacity

-----------------------------------------------------------------------------
(***************************************************************************)
(* Works and the sequences they wait in.                                   *)
(***************************************************************************)

LEMMA WorkIs ==
  /\ \A a \in Apps : /\ Remove(a) \in Work /\ Restore(a) \in Work
                     /\ Remove(a).app = a /\ Restore(a).app = a
                     /\ Remove(a).action = "remove"
                     /\ Restore(a).action = "restore"
                     /\ Remove(a) # Restore(a)
  /\ \A w \in Work : /\ w.app \in Apps
                     /\ w.action = "remove" => w = Remove(w.app)
                     /\ w.action = "restore" => w = Restore(w.app)
                     /\ w.action \in {"remove", "restore"}
BY DEF Work, Remove, Restore

\* Taking a work out leaves the others, in a sequence that has each app once.
LEMMA WithoutFacts ==
  ASSUME NEW q \in Seq(Work), PerApp(q), NEW w \in Work
  PROVE  /\ Without(q, w) \in Seq(Work)
         /\ PerApp(Without(q, w))
         /\ Queued(Without(q, w)) = Queued(q) \ {w}
<1>1. CASE w \notin Queued(q)
  BY <1>1 DEF Without
<1>2. CASE w \in Queued(q)
  <2> DEFINE k == CHOOSE i \in DOMAIN q : q[i] = w
             r == [i \in 1..(Len(q) - 1) |-> IF i < k THEN q[i] ELSE q[i + 1]]
  <2>1. k \in DOMAIN q /\ q[k] = w
    BY <1>2 DEF Queued
  <2>2. Without(q, w) = r
    BY <1>2 DEF Without
  <2>3. Len(q) \in Nat /\ DOMAIN q = 1..Len(q) /\ k \in 1..Len(q)
    BY <2>1
  <2> HIDE DEF k
  <2>4. r \in Seq(Work) /\ Len(r) = Len(q) - 1 /\ DOMAIN r = 1..(Len(q) - 1)
    BY <2>3
  <2>5. PerApp(r)
    BY <2>3, <2>4 DEF PerApp
  <2>6. ASSUME NEW v \in Queued(r) PROVE v \in Queued(q) \ {w}
    <3>1. PICK i \in 1..(Len(q) - 1) : v = r[i]
      BY <2>4 DEF Queued
    <3>2. PICK j \in 1..Len(q) : v = q[j] /\ j # k
      BY <3>1, <2>3
    <3> QED
      BY <3>2, <2>1, <2>3 DEF Queued, PerApp
  <2>7. ASSUME NEW v \in Queued(q), v # w PROVE v \in Queued(r)
    <3>1. PICK j \in 1..Len(q) : v = q[j]
      BY <2>3 DEF Queued
    <3>2. j # k
      BY <3>1, <2>1, <2>7
    <3>3. CASE j < k
      <4>1. j \in DOMAIN r /\ r[j] = q[j]
        BY <3>1, <3>3, <2>3, <2>4
      <4> QED
        BY <4>1, <3>1 DEF Queued
    <3>4. CASE j > k
      <4>1. j - 1 \in DOMAIN r /\ r[j - 1] = q[j]
        BY <3>1, <3>4, <2>3, <2>4
      <4> QED
        BY <4>1, <3>1 DEF Queued
    <3> QED
      BY <3>2, <3>3, <3>4, <2>3
  <2> QED
    BY <2>2, <2>4, <2>5, <2>6, <2>7
<1> QED
  BY <1>1, <1>2

LEMMA EnqueueFacts ==
  ASSUME NEW q \in Seq(Work), PerApp(q), NEW w \in Work, NEW flying,
         \A v \in Queued(q) : v.app = w.app => v = w
  PROVE  /\ Enqueue(q, w, flying) \in Seq(Work)
         /\ PerApp(Enqueue(q, w, flying))
         /\ Queued(Enqueue(q, w, flying)) =
              IF w \in flying THEN Queued(q) ELSE Queued(q) \cup {w}
<1>1. CASE w \in Queued(q) \cup flying
  BY <1>1 DEF Enqueue
<1>2. CASE w \notin Queued(q) \cup flying
  <2>1. Enqueue(q, w, flying) = Append(q, w)
    BY <1>2 DEF Enqueue
  <2>2. /\ Append(q, w) \in Seq(Work) /\ Len(q) \in Nat
        /\ DOMAIN q = 1..Len(q)
        /\ DOMAIN Append(q, w) = 1..(Len(q) + 1)
        /\ \A i \in 1..Len(q) : Append(q, w)[i] = q[i]
        /\ Append(q, w)[Len(q) + 1] = w
    BY AppendProperties
  <2>3. Queued(Append(q, w)) = Queued(q) \cup {w}
    BY <2>2 DEF Queued
  <2>4. PerApp(Append(q, w))
    <3> SUFFICES ASSUME NEW i \in 1..(Len(q) + 1), NEW j \in 1..(Len(q) + 1),
                        Append(q, w)[i].app = Append(q, w)[j].app
                 PROVE  i = j
      BY <2>2 DEF PerApp
    <3>1. \A l \in 1..Len(q) : q[l].app # w.app
      BY <1>2, <2>2 DEF Queued
    <3> QED
      BY <2>2, <3>1 DEF PerApp
  <2> QED
    BY <1>2, <2>1, <2>2, <2>3, <2>4
<1> QED
  BY <1>1, <1>2

-----------------------------------------------------------------------------
(***************************************************************************)
(* reconcileLocked.                                                        *)
(***************************************************************************)

\* Works of other apps stay as they are; of this app's, the one that undoes
\* what is wanted goes, and the one that brings it about is queued if needed.
LEMMA ReconciledFacts ==
  ASSUME pending \in Seq(Work), PerApp(pending), NEW a \in Apps,
         NEW want, NEW ready, NEW eff, NEW flying,
         Disjoint(pending, flying)
  PROVE  LET r == Reconciled(a, want, ready, eff, flying) IN
         /\ r \in Seq(Work) /\ PerApp(r) /\ Disjoint(r, flying)
         /\ \A w \in Work : w.app # a =>
              (w \in Queued(r) <=> w \in Queued(pending))
         /\ a \in want =>
              /\ Restore(a) \notin Queued(r)
              /\ a \notin eff \/ Restore(a) \in flying =>
                   Remove(a) \in Queued(r) \cup flying
         /\ a \notin want =>
              /\ Remove(a) \notin Queued(r)
              /\ a \in ready /\ (a \in eff \/ Remove(a) \in flying) =>
                   Restore(a) \in Queued(r) \cup flying
              /\ Restore(a) \in Queued(r) =>
                   Restore(a) \in Queued(pending) \/ a \in ready
<1> DEFINE r == Reconciled(a, want, ready, eff, flying)
<1>0. \A q \in Seq(Work) : Queued(q) \subseteq Work
  BY DEF Queued
<1>1. CASE a \in want
  <2> DEFINE rest == Without(pending, Restore(a))
             more == Enqueue(rest, Remove(a), flying)
  <2>1. /\ rest \in Seq(Work) /\ PerApp(rest)
        /\ Queued(rest) = Queued(pending) \ {Restore(a)}
    BY WithoutFacts, WorkIs
  <2>2. \A v \in Queued(rest) : v.app = Remove(a).app => v = Remove(a)
    BY <2>1, <1>0, WorkIs
  <2>3. /\ more \in Seq(Work) /\ PerApp(more)
        /\ Queued(more) = IF Remove(a) \in flying THEN Queued(rest)
                          ELSE Queued(rest) \cup {Remove(a)}
    <3> HIDE DEF rest
    <3> QED
      BY <2>1, <2>2, EnqueueFacts, WorkIs
  <2>4. r = IF a \notin eff \/ Restore(a) \in flying THEN more ELSE rest
    BY <1>1 DEF Reconciled
  <2> HIDE DEF rest, more, r
  <2> QED
    BY <1>1, <2>1, <2>3, <2>4, WorkIs DEF r, Disjoint
<1>2. CASE a \notin want
  <2> DEFINE rest == Without(pending, Remove(a))
             more == Enqueue(rest, Restore(a), flying)
  <2>1. /\ rest \in Seq(Work) /\ PerApp(rest)
        /\ Queued(rest) = Queued(pending) \ {Remove(a)}
    BY WithoutFacts, WorkIs
  <2>2. \A v \in Queued(rest) : v.app = Restore(a).app => v = Restore(a)
    BY <2>1, <1>0, WorkIs
  <2>3. /\ more \in Seq(Work) /\ PerApp(more)
        /\ Queued(more) = IF Restore(a) \in flying THEN Queued(rest)
                          ELSE Queued(rest) \cup {Restore(a)}
    <3> HIDE DEF rest
    <3> QED
      BY <2>1, <2>2, EnqueueFacts, WorkIs
  <2>4. r = IF a \in ready /\ (a \in eff \/ Remove(a) \in flying)
            THEN more ELSE rest
    BY <1>2 DEF Reconciled
  <2> HIDE DEF rest, more, r
  <2> QED
    BY <1>2, <2>1, <2>3, <2>4, WorkIs DEF r, Disjoint
<1> QED
  BY <1>1, <1>2

\* A call that changes what is wanted of one app only, or puts down the work in
\* flight, and then reconciles that app, keeps the two invariants.
LEMMA ReconcileKeeps ==
  ASSUME TypeOK, Disjoint(pending, inFlight), QueuedIsWanted, Compensated,
         NEW a \in Apps, NEW want \in SUBSET Apps, NEW ready \in SUBSET Apps,
         NEW flying \in SUBSET inFlight,
         Reconcile(a, want, ready, effective, flying),
         \A b \in Apps : b # a => /\ b \in want <=> b \in desired
                                  /\ b \in ready <=> b \in presentReady,
         \A w \in inFlight : w.app # a => w \in flying,
         a \notin want /\ Restore(a) \in Queued(pending) => a \in ready
  PROVE  /\ pending' \in Seq(Work) /\ Disjoint(pending', inFlight')
         /\ desired' \in SUBSET Apps /\ presentReady' \in SUBSET Apps
         /\ QueuedIsWanted' /\ Compensated'
<1>1. /\ pending \in Seq(Work) /\ PerApp(pending)
      /\ Disjoint(pending, flying) /\ inFlight \subseteq Work
  BY DEF TypeOK, QueuedIsWanted, PerApp, Disjoint
<1>2. /\ desired' = want /\ effective' = effective /\ inFlight' = flying
      /\ presentReady' = IF a \in want THEN ready \ {a} ELSE ready
      /\ pending' = Reconciled(a, want, ready, effective, flying)
  BY DEF Reconcile
<1>3. /\ pending' \in Seq(Work) /\ PerApp(pending')
      /\ Disjoint(pending', flying)
  BY <1>1, <1>2, ReconciledFacts
<1>4. \A w \in Work : w.app # a =>
        (w \in Queued(pending') <=> w \in Queued(pending))
  BY <1>1, <1>2, ReconciledFacts
<1>5. a \in want =>
        /\ Restore(a) \notin Queued(pending')
        /\ a \notin effective \/ Restore(a) \in flying =>
             Remove(a) \in Queued(pending') \cup flying
  BY <1>1, <1>2, ReconciledFacts
<1>6. a \notin want =>
        /\ Remove(a) \notin Queued(pending')
        /\ a \in ready /\ (a \in effective \/ Remove(a) \in flying) =>
             Restore(a) \in Queued(pending') \cup flying
        /\ Restore(a) \in Queued(pending') =>
             Restore(a) \in Queued(pending) \/ a \in ready
  BY <1>1, <1>2, ReconciledFacts
<1>7. Queued(pending') \subseteq Work
  BY <1>3 DEF Queued
<1>8. ASSUME NEW w \in Queued(pending') PROVE Current(w, want, presentReady')
  <2>1. CASE w.app # a
    <3>1. Current(w, desired, presentReady)
      BY <2>1, <1>4, <1>7 DEF QueuedIsWanted
    <3>2. w.app \in Apps
      BY <1>7, WorkIs
    <3> QED
      BY <2>1, <3>1, <3>2, <1>2 DEF Current
  <2>2. CASE w.app = a
    BY <2>2, <1>2, <1>5, <1>6, <1>7, WorkIs DEF Current
  <2> QED
    BY <2>1, <2>2
<1>9. QueuedIsWanted'
  BY <1>2, <1>3, <1>8 DEF QueuedIsWanted, PerApp, Queued
<1>10. Compensated'
  <2> SUFFICES ASSUME NEW b \in Apps
      PROVE /\ b \in want /\ (b \notin effective \/ Restore(b) \in flying) =>
                 Remove(b) \in Queued(pending') \cup flying
            /\ /\ b \notin want /\ b \in presentReady'
               /\ b \in effective \/ Remove(b) \in flying
               => Restore(b) \in Queued(pending') \cup flying
    BY <1>2 DEF Compensated, Queued
  <2>1. CASE b = a
    BY <2>1, <1>2, <1>5, <1>6
  <2>2. CASE b # a
    BY <2>2, <1>1, <1>2, <1>4, WorkIs DEF Compensated
  <2> QED
    BY <2>1, <2>2
<1> QED
  BY <1>2, <1>3, <1>9, <1>10

LEMMA InvGives ==
  Inv => /\ TypeOK /\ Disjoint(pending, inFlight) /\ QueuedIsWanted
         /\ Compensated
         /\ \A a \in Apps : Restore(a) \in Queued(pending) =>
                            a \notin desired /\ a \in presentReady
BY WorkIs DEF Inv, Linked, QueuedIsWanted, Current

-----------------------------------------------------------------------------
(***************************************************************************)
(* The calls of the coordinator and of the owner.                          *)
(***************************************************************************)

LEMMA PushStep ==
  ASSUME Inv, NEW a \in Apps, Push(a)
  PROVE  Inv'
<1> USE DEF Inv
<1>1. Reconcile(a, desired \cup {a}, presentReady, effective, inFlight)
  BY DEF Push
<1>2. /\ pending' \in Seq(Work) /\ Disjoint(pending', inFlight')
      /\ desired' \in SUBSET Apps /\ presentReady' \in SUBSET Apps
      /\ QueuedIsWanted' /\ Compensated'
  <2>1. desired \cup {a} \in SUBSET Apps /\ presentReady \in SUBSET Apps
    BY DEF TypeOK
  <2> QED
    BY <1>1, <2>1, InvGives, ReconcileKeeps
<1>3. TypeOK'
  BY <1>1, <1>2 DEF TypeOK, Push, Reconcile, ui
<1>4. Linked'
  BY <1>1, <1>2 DEF Linked, Push, Reconcile, ui, closed
<1>5. EffectIsTold' /\ WithinCapacity'
  <2>1. desired \cup {a} = desired \/ Cardinality(desired \cup {a}) <= Capacity
    BY DEF Push
  <2> QED
    BY <1>1, <2>1 DEF EffectIsTold, WithinCapacity, Push, Reconcile, ui, closed
<1> QED
  BY <1>2, <1>3, <1>4, <1>5

LEMMA CancelStep ==
  ASSUME Inv, NEW a \in Apps, Cancel(a)
  PROVE  Inv'
<1> USE DEF Inv
<1>1. Reconcile(a, desired \ {a}, presentReady, effective, inFlight)
  BY DEF Cancel
<1>2. desired \ {a} \in SUBSET Apps /\ presentReady \in SUBSET Apps
  BY DEF TypeOK
<1>3. /\ pending' \in Seq(Work) /\ Disjoint(pending', inFlight')
      /\ desired' \in SUBSET Apps /\ presentReady' \in SUBSET Apps
      /\ QueuedIsWanted' /\ Compensated'
  BY <1>1, <1>2, InvGives, ReconcileKeeps
<1>4. TypeOK'
  BY <1>1, <1>3 DEF TypeOK, Cancel, Reconcile, ui
<1>5. Linked'
  <2>1. hook # "ready" => pending' = <<>>
    BY <1>1, WorkIs DEF Linked, Reconcile, Reconciled, Without, Queued
  <2> QED
    BY <1>1, <1>3, <2>1 DEF Linked, Cancel, Reconcile, ui, closed
<1>6. EffectIsTold' /\ WithinCapacity'
  <2>1. IsFiniteSet(desired) /\ desired \ {a} \in SUBSET desired
    BY RemovalAssumption, FS_Subset DEF TypeOK
  <2>2. /\ Cardinality(desired \ {a}) <= Cardinality(desired)
        /\ IsFiniteSet(desired \ {a})
    BY <2>1, FS_Subset
  <2>3. /\ Cardinality(desired \ {a}) \in Nat
        /\ Cardinality(desired) \in Nat
    BY <2>1, <2>2, FS_CardinalityType
  <2>4. Cardinality(desired \ {a}) <= Capacity
    BY <2>2, <2>3, RemovalAssumption DEF WithinCapacity
  <2> QED
    BY <1>1, <2>4 DEF EffectIsTold, WithinCapacity, Cancel, Reconcile, ui, closed
<1> QED
  BY <1>3, <1>4, <1>5, <1>6

LEMMA ReadyToRestoreStep ==
  ASSUME Inv, NEW a \in Apps, ReadyToRestore(a)
  PROVE  Inv'
<1> USE DEF Inv
<1>1. /\ Reconcile(a, desired, presentReady \cup {a}, effective, inFlight)
      /\ a \notin desired /\ ~closed
  BY DEF ReadyToRestore
<1>2. /\ pending' \in Seq(Work) /\ Disjoint(pending', inFlight')
      /\ desired' \in SUBSET Apps /\ presentReady' \in SUBSET Apps
      /\ QueuedIsWanted' /\ Compensated'
  <2>1. desired \in SUBSET Apps /\ presentReady \cup {a} \in SUBSET Apps
    BY DEF TypeOK
  <2> QED
    BY <1>1, <2>1, InvGives, ReconcileKeeps
<1>3. TypeOK'
  BY <1>1, <1>2 DEF TypeOK, ReadyToRestore, Reconcile, ui
<1>4. Linked'
  <2>1. hook # "ready" => pending' = <<>>
    BY <1>1, WorkIs DEF Linked, Reconcile, Reconciled, Without, Queued
  <2> QED
    BY <1>1, <1>2, <2>1 DEF Linked, ReadyToRestore, Reconcile, ui, closed
<1>5. EffectIsTold' /\ WithinCapacity'
  BY <1>1 DEF EffectIsTold, WithinCapacity, ReadyToRestore, Reconcile, ui, closed
<1> QED
  BY <1>2, <1>3, <1>4, <1>5

LEMMA EmptyIsFine ==
  ASSUME Emptied
  PROVE  /\ desired' \in SUBSET Apps /\ effective' \in SUBSET Apps
         /\ presentReady' \in SUBSET Apps
         /\ pending' \in Seq(Work) /\ pending' = <<>> /\ inFlight' = {}
         /\ QueuedIsWanted' /\ Compensated' /\ WithinCapacity'
         /\ Disjoint(pending', inFlight')
BY RemovalAssumption, FS_EmptySet
DEF Emptied, QueuedIsWanted, Compensated, WithinCapacity, Disjoint, Queued

LEMMA HookStep ==
  ASSUME Inv, Setup \/ Rollback \/ LearnSource \/ RequestFullReassert
  PROVE  Inv'
<1> USE DEF Inv
<1>1. CASE Setup
  BY <1>1, EmptyIsFine DEF Setup, Emptied, TypeOK, Linked, EffectIsTold, ui, closed
<1>2. CASE Rollback
  <2>1. TypeOK'
    BY <1>2, EmptyIsFine DEF Rollback, Emptied, TypeOK, ui
  <2>2. Linked'
    <3>1. hook' \in {"closed", "removed"} /\ UNCHANGED <<frame, work, hidden>>
      BY <1>2 DEF Rollback, ui
    <3>2. hook' = "closed" => hook \in {"unset", "closed"}
      BY <1>2 DEF Rollback, TypeOK
    <3> QED
      BY <1>2, <3>1, <3>2, EmptyIsFine DEF Rollback, Emptied, Linked, closed
  <2>3. EffectIsTold'
    BY <1>2 DEF Rollback, EffectIsTold, closed
  <2> QED
    BY <1>2, <2>1, <2>2, <2>3, EmptyIsFine DEF Rollback
<1>3. CASE LearnSource
  BY <1>3 DEF LearnSource, TypeOK, Linked, QueuedIsWanted, Compensated,
     EffectIsTold, WithinCapacity, queue, ui, closed, Queued, Disjoint
<1>4. CASE RequestFullReassert
  BY <1>4 DEF RequestFullReassert, TypeOK, Linked, QueuedIsWanted, Compensated,
     EffectIsTold, WithinCapacity, ui, closed, Queued, Disjoint
<1> QED
  BY <1>1, <1>2, <1>3, <1>4

-----------------------------------------------------------------------------
(***************************************************************************)
(* The frame.                                                              *)
(***************************************************************************)

\* What a full reassertion adds is as current, and as much of one app each, as
\* what is queued.
LEMMA ReassertedFacts ==
  ASSUME Inv, NEW s \in Reasserted
  PROVE  /\ pending \o s \in Seq(Work)
         /\ Queued(pending) \subseteq Queued(pending \o s)
         /\ PerApp(pending \o s)
         /\ \A w \in Queued(pending \o s) : Current(w, desired, presentReady)
<1> DEFINE again == {a \in effective \cap desired :
                       Remove(a) \notin Queued(pending) \cup inFlight}
<1>1. /\ pending \in Seq(Work) /\ PerApp(pending)
      /\ \A w \in Queued(pending) : w \in Work /\ Current(w, desired, presentReady)
  BY DEF Inv, TypeOK, QueuedIsWanted, PerApp, Queued
<1>2. again \subseteq Apps /\ again \subseteq desired
  BY DEF Inv, TypeOK
<1>3. Cardinality(again) \in Nat
  BY <1>2, RemovalAssumption, FS_Subset, FS_CardinalityType
<1>4. /\ s \in Seq({Remove(a) : a \in again})
      /\ \A i, j \in DOMAIN s : s[i] = s[j] => i = j
  <2>1. CASE reassert
    <3> DEFINE n == Cardinality(again)
               all == {Remove(a) : a \in again}
    <3>1. s \in {t \in [1..n -> all] : \A i, j \in DOMAIN t : t[i] = t[j] => i = j}
      BY <2>1 DEF Reasserted
    <3> HIDE DEF all, again
    <3>2. s \in [1..n -> all] /\ \A i, j \in DOMAIN s : s[i] = s[j] => i = j
      BY <3>1
    <3>3. n \in Nat
      BY <1>3
    <3> HIDE DEF n
    <3>4. s \in Seq(all)
      BY <3>2, <3>3
    <3> QED
      BY <3>2, <3>4 DEF all
  <2>2. CASE ~reassert
    BY <2>2 DEF Reasserted
  <2> QED
    BY <2>1, <2>2
<1> HIDE DEF again
<1>5. \A i \in DOMAIN s : /\ s[i] \in Work /\ s[i].app \in desired
                          /\ s[i] = Remove(s[i].app)
                          /\ s[i] \notin Queued(pending)
  <2> SUFFICES ASSUME NEW i \in DOMAIN s
               PROVE  /\ s[i] \in Work /\ s[i].app \in desired
                      /\ s[i] = Remove(s[i].app) /\ s[i] \notin Queued(pending)
    OBVIOUS
  <2>1. PICK a \in again : s[i] = Remove(a)
    BY <1>4
  <2> QED
    BY <2>1, <1>2, WorkIs DEF again
<1>6. s \in Seq(Work) /\ DOMAIN s = 1..Len(s) /\ Len(s) \in Nat
  BY <1>4, <1>5
<1> DEFINE q == pending \o s
<1>7. /\ q \in Seq(Work) /\ DOMAIN q = 1..(Len(pending) + Len(s))
      /\ Len(pending) \in Nat /\ DOMAIN pending = 1..Len(pending)
      /\ \A i \in DOMAIN q : q[i] = IF i <= Len(pending) THEN pending[i]
                                   ELSE s[i - Len(pending)]
  BY <1>1, <1>6, ConcatProperties
<1> HIDE DEF q
<1>8. ASSUME NEW i \in DOMAIN q
      PROVE  \/ i \in DOMAIN pending /\ q[i] = pending[i] /\ q[i] \in Queued(pending)
             \/ i - Len(pending) \in DOMAIN s /\ q[i] = s[i - Len(pending)]
  BY <1>6, <1>7 DEF Queued
<1>9. Queued(pending) \subseteq Queued(q)
  <2> SUFFICES ASSUME NEW w \in Queued(pending) PROVE w \in Queued(q)
    OBVIOUS
  <2>1. PICK i \in 1..Len(pending) : w = pending[i]
    BY <1>7 DEF Queued
  <2>2. i \in DOMAIN q /\ q[i] = w
    BY <2>1, <1>6, <1>7
  <2> QED
    BY <2>2 DEF Queued
<1>10. \A w \in Queued(q) : Current(w, desired, presentReady)
  <2> SUFFICES ASSUME NEW i \in DOMAIN q
               PROVE  Current(q[i], desired, presentReady)
    BY DEF Queued
  <2>1. CASE q[i] \in Queued(pending)
    BY <2>1, <1>1
  <2>2. CASE i - Len(pending) \in DOMAIN s /\ q[i] = s[i - Len(pending)]
    BY <2>2, <1>2, <1>5, WorkIs DEF Current, Remove
  <2> QED
    BY <1>8, <2>1, <2>2
<1>11. PerApp(q)
  <2> SUFFICES ASSUME NEW i \in DOMAIN q, NEW j \in DOMAIN q, q[i].app = q[j].app
               PROVE  i = j
    BY DEF PerApp
  <2>1. /\ Current(q[i], desired, presentReady) /\ q[i] \in Work
        /\ Current(q[j], desired, presentReady) /\ q[j] \in Work
    BY <1>7, <1>10 DEF Queued
  <2>2. q[i] = q[j]
    BY <2>1, WorkIs DEF Current
  <2>3. CASE i \in DOMAIN pending /\ j \in DOMAIN pending
    BY <2>2, <2>3, <1>1, <1>7 DEF PerApp
  <2>4. CASE i \notin DOMAIN pending /\ j \notin DOMAIN pending
    <3> DEFINE a == i - Len(pending)
               b == j - Len(pending)
    <3>0. /\ a \in DOMAIN s /\ q[i] = s[a]
          /\ b \in DOMAIN s /\ q[j] = s[b]
      BY <2>4, <1>8
    <3> HIDE DEF a, b
    <3>2. a = b
      BY <1>4, <2>2, <3>0
    <3>1. i - Len(pending) = j - Len(pending)
      BY <3>2 DEF a, b
    <3> QED
      BY <3>1, <1>6, <1>7
  <2>5. \A k \in DOMAIN q : k \notin DOMAIN pending => q[k] \notin Queued(pending)
    BY <1>5, <1>8
  <2>6. \A k \in DOMAIN pending : q[k] \in Queued(pending)
    BY <1>7 DEF Queued
  <2>7. i \in DOMAIN pending <=> j \in DOMAIN pending
    BY <2>2, <2>5, <2>6
  <2> QED
    BY <2>3, <2>4, <2>7
<1> QED
  BY <1>7, <1>9, <1>10, <1>11 DEF q

LEMMA DrainStep ==
  ASSUME Inv, Drain
  PROVE  Inv'
<1>1. PICK s \in Reasserted : LET q == pending \o s IN
       \/ \E i \in DOMAIN q :
            /\ FirstCurrent(q, i)
            /\ pending' = SubSeq(q, i + 1, Len(q))
            /\ inFlight' = {q[i]} /\ work' = {q[i]}
            /\ frame' = "drained"
       \/ /\ \A i \in DOMAIN q : ~FirstCurrent(q, i)
          /\ pending' = <<>>
          /\ UNCHANGED <<inFlight, work, frame>>
  BY DEF Drain
<1> DEFINE q == pending \o s
<1>2. /\ q \in Seq(Work) /\ PerApp(q)
      /\ Queued(pending) \subseteq Queued(q)
      /\ \A w \in Queued(q) : Current(w, desired, presentReady)
  BY ReassertedFacts
<1>3. /\ hook = "ready" /\ frame = "idle" /\ inFlight = {} /\ reassert' = FALSE
      /\ UNCHANGED <<hook, source, desired, effective, presentReady, hidden>>
  BY DEF Drain
<1> HIDE DEF q
<1>4. DOMAIN q = 1..Len(q) /\ Len(q) \in Nat
  BY <1>2
<1>5. q # <<>> => FirstCurrent(q, 1)
  BY <1>2, <1>4 DEF FirstCurrent, Queued
<1>6. EffectIsTold' /\ WithinCapacity'
  <2>1. \A a \in Apps : a \in hidden <=> a \in effective
    BY <1>3 DEF Inv, EffectIsTold, closed
  <2> QED
    BY <1>3, <2>1 DEF Inv, EffectIsTold, WithinCapacity
<1>9. \/ \E i \in DOMAIN q : /\ FirstCurrent(q, i)
                             /\ pending' = SubSeq(q, i + 1, Len(q))
                             /\ inFlight' = {q[i]} /\ work' = {q[i]}
                             /\ frame' = "drained"
      \/ /\ \A i \in DOMAIN q : ~FirstCurrent(q, i)
         /\ pending' = <<>>
         /\ UNCHANGED <<inFlight, work, frame>>
  BY <1>1 DEF q
<1>7. CASE q = <<>>
  <2>1. pending' = <<>> /\ pending = <<>> /\ UNCHANGED <<inFlight, work, frame>>
    BY <1>1, <1>2, <1>4, <1>7 DEF q, Queued
  <2>2. TypeOK' /\ Linked'
    BY <1>3, <2>1 DEF Inv, TypeOK, Linked, Disjoint, Queued, closed
  <2>3. QueuedIsWanted' /\ Compensated'
    BY <1>3, <2>1 DEF Inv, QueuedIsWanted, Compensated, Queued
  <2> QED
    BY <1>6, <2>2, <2>3 DEF Inv
<1>8. CASE q # <<>>
  <2>1. PICK i \in DOMAIN q : /\ FirstCurrent(q, i)
                             /\ pending' = SubSeq(q, i + 1, Len(q))
                             /\ inFlight' = {q[i]} /\ work' = {q[i]}
                             /\ frame' = "drained"
    <3>1. 1 \in DOMAIN q
      BY <1>2, <1>8
    <3> QED
      BY <1>5, <1>8, <1>9, <3>1
  <2>2. i = 1
    <3>1. ~(1 < i)
      BY <1>2, <1>4, <2>1 DEF FirstCurrent, Queued
    <3> QED
      BY <1>4, <3>1
  <2> DEFINE w == q[1]
  <2>3. /\ pending' \in Seq(Work) /\ DOMAIN pending' = 1..(Len(q) - 1)
        /\ \A j \in 1..(Len(q) - 1) : pending'[j] = q[j + 1]
    BY <1>2, <1>4, <2>1, <2>2, SubSeqProperties
  <2>4. w \in Work /\ Current(w, desired, presentReady) /\ w \in Queued(q)
    BY <1>2, <1>4, <2>1, <2>2 DEF Queued
  <2>5. Queued(pending') = Queued(q) \ {w}
    <3>1. ASSUME NEW v \in Queued(pending') PROVE v \in Queued(q) \ {w}
      <4>1. PICK j \in 1..(Len(q) - 1) : v = q[j + 1]
        BY <2>3 DEF Queued
      <4>2. j + 1 \in DOMAIN q /\ 1 \in DOMAIN q /\ j + 1 # 1
        BY <1>4, <4>1
      <4> QED
        BY <4>1, <4>2, <1>2 DEF Queued, PerApp
    <3>2. ASSUME NEW v \in Queued(q), v # w PROVE v \in Queued(pending')
      <4>1. PICK j \in 1..Len(q) : v = q[j]
        BY <1>4 DEF Queued
      <4>2. j - 1 \in DOMAIN pending' /\ pending'[j - 1] = v
        BY <1>4, <2>3, <3>2, <4>1
      <4> QED
        BY <4>2 DEF Queued
    <3> QED
      BY <3>1, <3>2
  <2>6. PerApp(pending')
    <3> SUFFICES ASSUME NEW j \in 1..(Len(q) - 1), NEW k \in 1..(Len(q) - 1),
                        q[j + 1].app = q[k + 1].app
                 PROVE  j = k
      BY <2>3 DEF PerApp
    <3> QED
      BY <1>2, <1>4 DEF PerApp
  <2> HIDE DEF w
  <2>7. inFlight' = {w} /\ work' = {w} /\ frame' = "drained"
    BY <2>1, <2>2 DEF w
  <2>8. TypeOK'
    BY <1>3, <2>3, <2>4, <2>7 DEF Inv, TypeOK
  <2>9. Linked'
    BY <1>3, <2>5, <2>7 DEF Inv, Linked, Disjoint, Queued, closed
  <2>10. QueuedIsWanted'
    BY <1>2, <1>3, <2>5, <2>6 DEF QueuedIsWanted, PerApp, Queued
  <2>11. Compensated'
    <3> SUFFICES ASSUME NEW a \in Apps
        PROVE /\ a \in desired /\ (a \notin effective \/ Restore(a) = w) =>
                   Remove(a) \in Queued(pending') \cup {w}
              /\ /\ a \notin desired /\ a \in presentReady
                 /\ a \in effective \/ Remove(a) = w
                 => Restore(a) \in Queued(pending') \cup {w}
      BY <1>3, <2>7 DEF Compensated, Queued
    <3>1. /\ Restore(a) = w => a \notin desired
          /\ Remove(a) = w => a \in desired
      BY <2>4, WorkIs DEF Current
    <3>2. /\ a \in desired /\ a \notin effective => Remove(a) \in Queued(pending)
          /\ a \notin desired /\ a \in presentReady /\ a \in effective =>
               Restore(a) \in Queued(pending)
      BY <1>3 DEF Inv, Compensated
    <3> QED
      BY <1>2, <2>5, <3>1, <3>2
  <2> QED
    BY <1>6, <2>8, <2>9, <2>10, <2>11 DEF Inv
<1> QED
  BY <1>7, <1>8

\* The three ends of a frame that reconcile: the work is put down and its app
\* looked at again.
LEMMA PutDown ==
  ASSUME Inv, NEW w \in work, hook = "ready" \/ inFlight = {},
         NEW ready \in SUBSET Apps,
         Reconcile(w.app, desired, ready, effective, {}),
         ready = presentReady \/
           /\ ready = presentReady \ {w.app}
           /\ Restore(w.app) \notin Queued(pending),
         frame' = "idle", work' = {},
         UNCHANGED <<hook, source, reassert, hidden>>,
         frame # "begun"
  PROVE  Inv'
<1>1. w \in Work /\ w.app \in Apps /\ desired \in SUBSET Apps
  BY WorkIs DEF Inv, TypeOK
<1>2. \A v \in inFlight : v = w
  BY DEF Inv, TypeOK, Linked
<1>3. /\ pending' \in Seq(Work) /\ Disjoint(pending', inFlight')
      /\ desired' \in SUBSET Apps /\ presentReady' \in SUBSET Apps
      /\ QueuedIsWanted' /\ Compensated'
  BY <1>1, <1>2, InvGives, ReconcileKeeps
<1>4. /\ desired' = desired /\ effective' = effective /\ inFlight' = {}
      /\ presentReady' \subseteq presentReady
  BY DEF Reconcile
<1>5. TypeOK'
  BY <1>3, <1>4 DEF Inv, TypeOK
<1>6. hook # "ready" => pending' = <<>>
  BY <1>1, WorkIs
  DEF Inv, Linked, Reconcile, Reconciled, Without, Queued
<1>7. Linked'
  BY <1>3, <1>4, <1>6 DEF Inv, Linked, closed
<1>8. EffectIsTold' /\ WithinCapacity'
  BY <1>4 DEF Inv, EffectIsTold, WithinCapacity, closed
<1> QED
  BY <1>3, <1>5, <1>7, <1>8 DEF Inv

LEMMA BeginStep ==
  ASSUME Inv, NEW w \in work, Begin(w)
  PROVE  Inv'
<1>1. /\ w \in Work /\ w.app \in Apps /\ w \in inFlight
      /\ \A v \in work : v = w
      /\ Current(w, desired, presentReady)
  BY WorkIs DEF Inv, TypeOK, Begin
<1>2. /\ effective' = IF w.action = "remove" THEN effective \cup {w.app}
                      ELSE effective \ {w.app}
      /\ frame = "drained" /\ frame' = "begun"
      /\ UNCHANGED <<hook, source, desired, presentReady, pending, inFlight,
                     reassert, work, hidden>>
  BY DEF Begin
<1>3. TypeOK'
  BY <1>1, <1>2 DEF Inv, TypeOK
<1>4. hook = "ready" /\ inFlight = work
  BY <1>1 DEF Inv, Linked
<1>5. Linked'
  BY <1>1, <1>2, <1>4, WorkIs DEF Inv, Linked, closed, Disjoint, Queued
<1>6. QueuedIsWanted' /\ WithinCapacity'
  BY <1>2 DEF Inv, QueuedIsWanted, WithinCapacity, Queued
<1>7. Compensated'
  <2> SUFFICES ASSUME NEW a \in Apps
      PROVE /\ a \in desired /\ (a \notin effective' \/ Restore(a) \in inFlight) =>
                 Remove(a) \in Queued(pending) \cup inFlight
            /\ /\ a \notin desired /\ a \in presentReady
               /\ a \in effective' \/ Remove(a) \in inFlight
               => Restore(a) \in Queued(pending) \cup inFlight
    BY <1>2 DEF Compensated, Queued
  <2>1. CASE a = w.app
    BY <2>1, <1>1, <1>2, WorkIs DEF Inv, Compensated, Current
  <2>2. CASE a # w.app
    BY <2>2, <1>2 DEF Inv, Compensated
  <2> QED
    BY <2>1, <2>2
<1>8. EffectIsTold'
  BY <1>1, <1>2 DEF Inv, EffectIsTold, closed
<1> QED
  BY <1>3, <1>5, <1>6, <1>7, <1>8 DEF Inv

LEMMA MarkStep ==
  ASSUME Inv, NEW w \in work, Mark(w)
  PROVE  Inv'
<1>1. /\ w \in Work /\ w.app \in Apps /\ \A v \in work : v = w
  BY WorkIs DEF Inv, TypeOK
<1>2. /\ hidden' = IF w.action = "remove" THEN hidden \cup {w.app}
                   ELSE hidden \ {w.app}
      /\ frame = "begun" /\ frame' = "marked"
      /\ UNCHANGED <<hook, source, desired, effective, presentReady, pending,
                     inFlight, reassert, work>>
  BY DEF Mark, queue
<1>3. TypeOK'
  BY <1>1, <1>2 DEF Inv, TypeOK
<1>4. Linked'
  BY <1>1, <1>2 DEF Inv, Linked, closed, Disjoint, Queued
<1>5. QueuedIsWanted' /\ WithinCapacity' /\ Compensated'
  BY <1>2 DEF Inv, QueuedIsWanted, WithinCapacity, Compensated, Queued
<1>6. EffectIsTold'
  <2> SUFFICES ASSUME ~closed, NEW a \in Apps
               PROVE  a \in hidden' <=> a \in effective
    BY <1>2 DEF EffectIsTold, closed
  <2>1. hook = "ready" /\ w \in inFlight
    BY DEF Inv, Linked, TypeOK, closed
  <2>2. CASE a = w.app
    BY <2>1, <2>2, <1>1, <1>2 DEF Inv, Linked
  <2>3. CASE a # w.app
    BY <2>3, <1>1, <1>2 DEF Inv, EffectIsTold
  <2> QED
    BY <2>2, <2>3
<1> QED
  BY <1>3, <1>4, <1>5, <1>6 DEF Inv

LEMMA FrameStep ==
  ASSUME Inv, Frame
  PROVE  Inv'
<1>1. CASE Drain
  BY <1>1, DrainStep
<1>2. ASSUME NEW w \in work,
             Retry(w) \/ Begin(w) \/ Decline(w) \/ Mark(w) \/ Finish(w)
      PROVE  Inv'
  <2>1. /\ w \in Work /\ inFlight \subseteq {w}
        /\ hook = "ready" \/ inFlight = {}
        /\ presentReady \in SUBSET Apps /\ presentReady \ {w.app} \in SUBSET Apps
    BY DEF Inv, TypeOK, Linked
  <2>2. CASE Retry(w)
    <3>1. inFlight \ {w} = {}
      BY <2>1
    <3> QED
      BY <2>1, <2>2, <3>1, PutDown DEF Retry
  <2>3. CASE Begin(w)
    BY <2>3, BeginStep
  <2>4. CASE Decline(w)
    <3>1. CASE w \in inFlight
      BY <2>1, <2>4, <3>1, PutDown DEF Decline
    <3>2. CASE w \notin inFlight
      <4>1. inFlight = {} /\ hook # "ready"
        BY <2>1, <3>2 DEF Inv, Linked
      <4>2. /\ UNCHANGED <<hook, source, desired, effective, presentReady,
                           pending, inFlight, reassert, hidden>>
            /\ frame' = "idle" /\ work' = {}
        BY <2>4, <3>2 DEF Decline
      <4>3. closed
        BY <4>1 DEF Inv, TypeOK, Linked, closed
      <4> QED
        BY <4>1, <4>2, <4>3 DEF Inv, TypeOK, Linked, QueuedIsWanted, Compensated,
           EffectIsTold, WithinCapacity, closed, Disjoint, Queued
    <3> QED
      BY <3>1, <3>2
  <2>5. CASE Mark(w)
    BY <2>5, MarkStep
  <2>6. CASE Finish(w)
    <3> DEFINE ready == IF w.action = "restore" /\ w.app \notin desired
                        THEN presentReady \ {w.app} ELSE presentReady
    <3>1. inFlight \ {w} = {}
      BY <2>1
    <3>2. w.action = "restore" => Restore(w.app) \notin Queued(pending)
      <4>1. CASE hook = "ready"
        BY <4>1, <2>1, WorkIs DEF Inv, Linked, Disjoint
      <4>2. CASE hook # "ready"
        BY <4>2 DEF Inv, Linked, Queued
      <4> QED
        BY <4>1, <4>2
    <3>3. ready \in SUBSET Apps
      BY <2>1
    <3>4. \/ ready = presentReady
          \/ /\ ready = presentReady \ {w.app}
             /\ Restore(w.app) \notin Queued(pending)
      BY <3>2
    <3>5. /\ Reconcile(w.app, desired, ready, effective, {})
          /\ frame = "marked" /\ frame' = "idle" /\ work' = {}
          /\ UNCHANGED <<hook, source, reassert, hidden>>
      BY <2>6, <3>1 DEF Finish
    <3> HIDE DEF ready
    <3> QED
      BY <2>1, <3>3, <3>4, <3>5, PutDown
  <2> QED
    BY <1>2, <2>2, <2>3, <2>4, <2>5, <2>6
<1> QED
  BY <1>1, <1>2 DEF Frame

-----------------------------------------------------------------------------

LEMMA InvInit == Init => Inv
<1> SUFFICES ASSUME Init PROVE Inv
  OBVIOUS
<1>1. TypeOK
  <2>1. pending \in Seq(Work)
    BY EmptySeq DEF Init
  <2> QED
    BY <2>1, Zenon DEF Init, TypeOK
<1>2. Linked /\ QueuedIsWanted /\ Compensated /\ EffectIsTold
  BY DEF Init, Linked, QueuedIsWanted, Compensated, EffectIsTold, Disjoint,
     Queued, closed
<1>3. WithinCapacity
  BY RemovalAssumption, FS_EmptySet DEF Init, WithinCapacity
<1> QED
  BY <1>1, <1>2, <1>3 DEF Inv

LEMMA InvStep == Inv /\ [Next]_vars => Inv'
<1> SUFFICES ASSUME Inv, [Next]_vars PROVE Inv'
  OBVIOUS
<1>1. ASSUME NEW a \in Apps, Push(a) \/ Cancel(a) \/ ReadyToRestore(a)
      PROVE  Inv'
  BY <1>1, PushStep, CancelStep, ReadyToRestoreStep
<1>2. CASE RequestFullReassert \/ Setup \/ Rollback \/ LearnSource
  BY <1>2, HookStep
<1>3. CASE Frame
  BY <1>3, FrameStep
<1>4. CASE UNCHANGED vars
  BY <1>4 DEF vars, queue, ui, Inv, TypeOK, Linked, QueuedIsWanted, Compensated,
     EffectIsTold, WithinCapacity, closed, Disjoint, Queued
<1> QED
  BY <1>1, <1>2, <1>3, <1>4 DEF Next

LEMMA InvAlways == Spec => []Inv
BY InvInit, InvStep, PTL DEF Spec

\* Types, and one work in flight at most.
THEOREM RemovalTypesAlways == Spec => []TypeOK
BY InvAlways, PTL DEF Inv

\* Whatever is taken back or asked for again while the client presents a work,
\* what makes up for it is queued or in flight (reconcileLocked).
THEOREM CompensatedAlways == Spec => []Compensated
BY InvAlways, PTL DEF Inv

\* The queue holds one work per app, and none that drainOne would drop.
THEOREM QueuedIsWantedAlways == Spec => []QueuedIsWanted
BY InvAlways, PTL DEF Inv

\* Between frames the library shows what effectiveRemoved_ says.
THEOREM EffectIsToldAlways == Spec => []EffectIsTold
BY InvAlways, PTL DEF Inv

\* The wanted removals stay within capacity_.
THEOREM WithinCapacityAlways == Spec => []WithinCapacity
BY InvAlways, PTL DEF Inv

=============================================================================
