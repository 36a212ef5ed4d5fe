--------------------------- MODULE LibraryRemoval ---------------------------
(***************************************************************************)
(* The queue of library presentations (src/feats/libraryremoval_policy.hpp,*)
(* class Queue) and its two sides in libraryremoval.cpp.  The coordinator  *)
(* asks for an app to be hidden or takes that back, the owner says when an *)
(* app that is back may be shown, and the frame hook of the user interface *)
(* presents one work per frame.  Every call of the queue is atomic; the    *)
(* frame makes several, with the client's MarkAppChange in between.        *)
(***************************************************************************)
EXTENDS Integers, Sequences, FiniteSets

CONSTANTS
  Apps,
  Capacity   \* capacity_

ASSUME RemovalAssumption == IsFiniteSet(Apps) /\ Capacity \in Nat

VARIABLES
  hook,        \* g_ready and closed_: unset, closed, ready, removed for good
  source,      \* g_appChangeSource is known
  desired,     \* desired_
  effective,   \* effectiveRemoved_
  presentReady,
  pending,     \* pending_, and with it pendingRemovals_ and pendingRestores_
  inFlight,    \* inFlight_, at most one work
  reassert,    \* reassertRequested_
  frame,       \* where the frame stands: idle, drained, begun, marked
  work,        \* the work it holds
  hidden       \* external: the apps the library was last told are gone

queue == <<desired, effective, presentReady, pending, inFlight, reassert>>
ui    == <<frame, work, hidden>>
vars  == <<hook, source, queue, ui>>

Work == [app : Apps, action : {"remove", "restore"}]
Remove(a)  == [app |-> a, action |-> "remove"]
Restore(a) == [app |-> a, action |-> "restore"]

closed == hook \in {"closed", "removed"}

Queued(q) == {q[i] : i \in DOMAIN q}

Init ==
  /\ hook = "unset" /\ source = FALSE
  /\ desired = {} /\ effective = {} /\ presentReady = {}
  /\ pending = <<>> /\ inFlight = {} /\ reassert = FALSE
  /\ frame = "idle" /\ work = {} /\ hidden = {}

-----------------------------------------------------------------------------
(***************************************************************************)
(* The queue.                                                              *)
(***************************************************************************)

\* The sets beside the deque keep a work in it at most once.
Without(q, w) ==
  IF w \notin Queued(q) THEN q
  ELSE LET k == CHOOSE i \in DOMAIN q : q[i] = w
       IN [i \in 1..(Len(q) - 1) |-> IF i < k THEN q[i] ELSE q[i + 1]]

Enqueue(q, w, flying) ==
  IF w \in Queued(q) \cup flying THEN q ELSE Append(q, w)

Current(w, want, ready) ==
  IF w.action = "remove" THEN w.app \in want
  ELSE w.app \notin want /\ w.app \in ready

\* Variant: a removal that may still take effect is not made up for.
ReconciledLate(a, want, ready, eff, flying) ==
  IF a \in want
  THEN LET rest == Without(pending, Restore(a)) IN
       IF a \notin eff
       THEN Enqueue(rest, Remove(a), flying) ELSE rest
  ELSE LET rest == Without(pending, Remove(a)) IN
       IF a \in ready /\ a \in eff
       THEN Enqueue(rest, Restore(a), flying) ELSE rest

\* Variant: an app that is wanted gone keeps a restoration in the queue.
ReconciledKeeping(a, want, ready, eff, flying) ==
  IF a \in want
  THEN IF a \notin eff \/ Restore(a) \in flying
       THEN Enqueue(pending, Remove(a), flying) ELSE pending
  ELSE LET rest == Without(pending, Remove(a)) IN
       IF a \in ready /\ (a \in eff \/ Remove(a) \in flying)
       THEN Enqueue(rest, Restore(a), flying) ELSE rest

\* The works after the app has been reconciled with what is wanted.
Reconciled(a, want, ready, eff, flying) ==
  IF a \in want
  THEN LET rest == Without(pending, Restore(a)) IN
       IF a \notin eff \/ Restore(a) \in flying
       THEN Enqueue(rest, Remove(a), flying) ELSE rest
  ELSE LET rest == Without(pending, Remove(a)) IN
       IF a \in ready /\ (a \in eff \/ Remove(a) \in flying)
       THEN Enqueue(rest, Restore(a), flying) ELSE rest

\* reconcileLocked, after the caller's own changes.
Reconcile(a, want, ready, eff, flying) ==
  /\ desired' = want
  /\ effective' = eff
  /\ inFlight' = flying
  /\ presentReady' = IF a \in want THEN ready \ {a} ELSE ready
  /\ pending' = Reconciled(a, want, ready, eff, flying)

\* Variant: the room is looked at before the app is counted.
PushBeyond(a) ==
  /\ hook = "ready"
  /\ Cardinality(desired) <= Capacity \/ a \in desired
  /\ Reconcile(a, desired \cup {a}, presentReady, effective, inFlight)
  /\ UNCHANGED <<hook, source, reassert, ui>>

\* queue(app), for an app the coordinator has removed.
Push(a) ==
  /\ hook = "ready"
  /\ Cardinality(desired \cup {a}) <= Capacity \/ a \in desired
  /\ Reconcile(a, desired \cup {a}, presentReady, effective, inFlight)
  /\ UNCHANGED <<hook, source, reassert, ui>>

\* cancel(app), for an app the coordinator has added; closed or not.
Cancel(a) ==
  /\ Reconcile(a, desired \ {a}, presentReady, effective, inFlight)
  /\ UNCHANGED <<hook, source, reassert, ui>>

\* restore(app), when the package that has the app again is in place.
ReadyToRestore(a) ==
  /\ ~closed /\ a \notin desired
  /\ Reconcile(a, desired, presentReady \cup {a}, effective, inFlight)
  /\ UNCHANGED <<hook, source, reassert, ui>>

RequestFullReassert ==
  /\ ~closed
  /\ reassert' = TRUE
  /\ UNCHANGED <<hook, source, desired, effective, presentReady, pending,
                 inFlight, ui>>

Emptied ==
  /\ desired' = {} /\ effective' = {} /\ presentReady' = {}
  /\ pending' = <<>> /\ inFlight' = {} /\ reassert' = FALSE

\* setup: the queue is reopened and the hooks are installed, or an optional
\* part of the client is missing and the queue is closed.
Setup ==
  /\ hook \in {"unset", "closed"}
  /\ hook' \in {"ready", "closed"}
  /\ Emptied
  /\ UNCHANGED <<source, ui>>

\* remove: at a load that is tried again later, or at unload, when a frame may
\* be under way.
Rollback ==
  /\ hook' = IF hook \in {"ready", "removed"} THEN "removed" ELSE "closed"
  /\ source' = FALSE
  /\ Emptied
  /\ UNCHANGED ui

-----------------------------------------------------------------------------
(***************************************************************************)
(* The frame, hkRunFrame and processOneRemoval.                            *)
(***************************************************************************)

\* hkMarkAppChange: the client names the object to tell.
LearnSource ==
  /\ hook = "ready" /\ ~source
  /\ source' = TRUE
  /\ UNCHANGED <<hook, queue, ui>>

\* The removals a full reassertion queues again, in any order.
Reasserted ==
  LET again == {a \in effective \cap desired :
                  Remove(a) \notin Queued(pending) \cup inFlight} IN
  IF ~reassert THEN {<<>>}
  ELSE {s \in [1..Cardinality(again) -> {Remove(a) : a \in again}] :
          \A i, j \in DOMAIN s : s[i] = s[j] => i = j}

\* Where the first work that is current stands in the queue.
FirstCurrent(q, i) ==
  /\ i \in DOMAIN q
  /\ Current(q[i], desired, presentReady)
  /\ \A j \in DOMAIN q : j < i => ~Current(q[j], desired, presentReady)

\* Variant: one frame takes all there is.
DrainAll ==
  /\ hook = "ready" /\ frame = "idle"
  /\ inFlight = {} /\ pending # <<>>
  /\ pending' = <<>>
  /\ inFlight' = Queued(pending) /\ work' = Queued(pending)
  /\ frame' = "drained"
  /\ UNCHANGED <<hook, source, desired, effective, presentReady, reassert,
                 hidden>>

\* drainOne: works that are no longer current are dropped.
Drain ==
  /\ hook = "ready" /\ frame = "idle"
  /\ inFlight = {}
  /\ \E s \in Reasserted : LET q == pending \o s IN
       \/ \E i \in DOMAIN q :
            /\ FirstCurrent(q, i)
            /\ pending' = SubSeq(q, i + 1, Len(q))
            /\ inFlight' = {q[i]} /\ work' = {q[i]}
            /\ frame' = "drained"
       \/ /\ \A i \in DOMAIN q : ~FirstCurrent(q, i)
          /\ pending' = <<>>
          /\ UNCHANGED <<inFlight, work, frame>>
  /\ reassert' = FALSE
  /\ UNCHANGED <<hook, source, desired, effective, presentReady, hidden>>

\* Variant: the work is put down and not queued again.
RetryDropping(w) ==
  /\ frame = "drained" /\ w \in work
  /\ ~source
  /\ inFlight' = inFlight \ {w}
  /\ frame' = "idle" /\ work' = {}
  /\ UNCHANGED <<hook, source, desired, effective, presentReady, pending,
                 reassert, hidden>>

\* retry: there is nobody to tell yet.
Retry(w) ==
  /\ frame = "drained" /\ w \in work
  /\ ~source
  /\ Reconcile(w.app, desired, presentReady, effective, inFlight \ {w})
  /\ frame' = "idle" /\ work' = {}
  /\ UNCHANGED <<hook, source, reassert, hidden>>

\* Variant: a restoration leaves the removal's effect on record.
BeginHiding(w) ==
  /\ frame = "drained" /\ w \in work
  /\ w \in inFlight /\ Current(w, desired, presentReady)
  /\ effective' = effective \cup {w.app}
  /\ frame' = "begun"
  /\ UNCHANGED <<hook, source, desired, presentReady, pending, inFlight,
                 reassert, work, hidden>>

\* begin: the effect is recorded before the client is told.
Begin(w) ==
  /\ frame = "drained" /\ w \in work
  /\ w \in inFlight /\ Current(w, desired, presentReady)
  /\ effective' = IF w.action = "remove" THEN effective \cup {w.app}
                  ELSE effective \ {w.app}
  /\ frame' = "begun"
  /\ UNCHANGED <<hook, source, desired, presentReady, pending, inFlight,
                 reassert, work, hidden>>

\* begin: the work is no longer wanted, or the queue was closed.
Decline(w) ==
  /\ frame = "drained" /\ w \in work
  /\ \/ /\ w \in inFlight /\ ~Current(w, desired, presentReady)
        /\ Reconcile(w.app, desired, presentReady, effective, {})
     \/ /\ w \notin inFlight
        /\ UNCHANGED <<desired, effective, presentReady, pending, inFlight>>
  /\ frame' = "idle" /\ work' = {}
  /\ UNCHANGED <<hook, source, reassert, hidden>>

\* MarkAppChange, with the app's ownership flags cleared first if it goes.
Mark(w) ==
  /\ frame = "begun" /\ w \in work
  /\ hidden' = IF w.action = "remove" THEN hidden \cup {w.app}
               ELSE hidden \ {w.app}
  /\ frame' = "marked"
  /\ UNCHANGED <<hook, source, queue, work>>

\* finish.
Finish(w) ==
  /\ frame = "marked" /\ w \in work
  /\ Reconcile(w.app, desired,
               IF w.action = "restore" /\ w.app \notin desired
               THEN presentReady \ {w.app} ELSE presentReady,
               effective, inFlight \ {w})
  /\ frame' = "idle" /\ work' = {}
  /\ UNCHANGED <<hook, source, reassert, hidden>>

Frame ==
  \/ Drain
  \/ \E w \in work :
       Retry(w) \/ Begin(w) \/ Decline(w) \/ Mark(w) \/ Finish(w)

Next ==
  \/ \E a \in Apps : Push(a) \/ Cancel(a) \/ ReadyToRestore(a)
  \/ RequestFullReassert \/ Setup \/ Rollback \/ LearnSource
  \/ Frame

Spec == Init /\ [][Next]_vars

\* The client runs its frames.
FairSpec == Spec /\ WF_vars(Frame)

-----------------------------------------------------------------------------
(***************************************************************************)
(* What the queue promises.                                                *)
(***************************************************************************)

\* The states the variables range over.
TypeOK ==
  /\ hook \in {"unset", "closed", "ready", "removed"} /\ source \in BOOLEAN
  /\ desired \in SUBSET Apps /\ effective \in SUBSET Apps
  /\ presentReady \in SUBSET Apps /\ hidden \in SUBSET Apps
  /\ pending \in Seq(Work)
  /\ inFlight \in SUBSET Work /\ work \in SUBSET Work
  /\ \A v, w \in inFlight : v = w
  /\ \A v, w \in work : v = w
  /\ reassert \in BOOLEAN
  /\ frame \in {"idle", "drained", "begun", "marked"}

\* "The latest desired state receives compensating work": whatever was taken
\* back and asked for again while a work was in the client's hands, an app that
\* is wanted gone and is not, or is about to be shown, has its removal queued
\* or in flight, and one that may be shown and is gone, or about to go, has its
\* restoration.
Compensated ==
  \A a \in Apps :
    /\ a \in desired /\ (a \notin effective \/ Restore(a) \in inFlight) =>
         Remove(a) \in Queued(pending) \cup inFlight
    /\ /\ a \notin desired /\ a \in presentReady
       /\ a \in effective \/ Remove(a) \in inFlight
       => Restore(a) \in Queued(pending) \cup inFlight

\* No work is queued twice, and none that is no longer wanted: the queue holds
\* one work per app, whatever its callers do.
QueuedIsWanted ==
  /\ \A i, j \in DOMAIN pending : pending[i].app = pending[j].app => i = j
  /\ \A w \in Queued(pending) : Current(w, desired, presentReady)

\* Between frames the library shows what the queue takes it to show.
EffectIsTold ==
  ~closed =>
    \A a \in Apps : (a \in hidden <=> a \in effective)
                      \/ (frame = "begun" /\ \E w \in work : w.app = a)

\* No more removals are wanted at a time than the queue has room for.
WithinCapacity == Cardinality(desired) <= Capacity

\* Once the client can be told, a removal is presented unless it is taken back
\* and a restoration unless the app goes again, whatever else is asked for.
Presented ==
  \A a \in Apps :
    /\ (a \in desired /\ source) ~> (a \in hidden \/ a \notin desired)
    /\ (a \in presentReady /\ a \in hidden /\ source) ~>
         (a \notin hidden \/ a \in desired \/ closed)

=============================================================================
