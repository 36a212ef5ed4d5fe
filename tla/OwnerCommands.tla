--------------------------- MODULE OwnerCommands ---------------------------
(***************************************************************************)
(* The commands of the owner-thread queue and the pure part of its push:   *)
(* which pending record a new command coalesces with, what the merged      *)
(* record is, and whether the result is within the two bounds              *)
(* (src/utils/ownerqueue.hpp, Command, applyPush and pushBatch).           *)
(*                                                                         *)
(* Id lists are sets: the queue only ever takes unions of them and counts  *)
(* them.  The (app, library) target of an install is one element of Apps.  *)
(* The appinfo request ids of a snapshot travel exactly as its added ids   *)
(* do, so `added' stands for both.                                         *)
(***************************************************************************)
EXTENDS Integers, Sequences, FiniteSets

CONSTANTS
  Apps,       \* app ids (and install targets)
  Capacity,   \* Queue::m_capacity
  MaxIds,     \* Queue::m_maxIds
  MaxAttempts \* CompatLive::kMaxPollAttempts

ASSUME BoundsAssumption ==
  /\ IsFiniteSet(Apps)
  /\ Capacity \in Nat \ {0}
  /\ MaxIds \in Nat \ {0}
  /\ MaxAttempts \in Nat \ {0}

Kind == {"InjectPackage0", "ReconcileLicenses", "InstallApp", "SyncPackage0",
         "EnsureCompat"}

Command == [kind : Kind, ids : SUBSET Apps, added : SUBSET Apps, gen : Nat,
            attempt : 0 .. MaxAttempts - 1]

command(kind, ids, added, gen, attempt) ==
  [kind |-> kind, ids |-> ids, added |-> added, gen |-> gen,
   attempt |-> attempt]

injectPackage0(ids)             == command("InjectPackage0", ids, {}, 0, 0)
reconcileLicenses               == command("ReconcileLicenses", {}, {}, 0, 0)
installApp(target)              == command("InstallApp", {target}, {}, 0, 0)
syncPackage0(gen, ids, added)   == command("SyncPackage0", ids, added, gen, 0)
ensureCompat(app, gen, attempt) ==
  command("EnsureCompat", {app}, {}, gen, attempt)

\* Same kind and same target.  The attempt of a compatibility poll is not part
\* of its identity.
sameWork(c, d) ==
  /\ c.kind = d.kind
  /\ CASE c.kind = "InjectPackage0"    -> c.ids = d.ids
       [] c.kind = "ReconcileLicenses" -> TRUE
       [] c.kind = "InstallApp"        -> c.ids = d.ids
       [] c.kind = "SyncPackage0"      -> c = d
       [] c.kind = "EnsureCompat"      -> c.ids = d.ids /\ c.gen = d.gen

-----------------------------------------------------------------------------
(***************************************************************************)
(* A pending record: the command, the submissions it stands for, and       *)
(* whether its enqueue time is past the staleness threshold.               *)
(***************************************************************************)

\* carryPendingSnapshotWork with neither part of the old snapshot processed.
carryPendingSnapshotWork(previous, next) ==
  [next EXCEPT !.added = (previous.added \cup next.added) \cap next.ids]

\* Variant: a later injection replaces the pending ids.
MergedReplacing(old, new) ==
  IF new.kind = "InjectPackage0" THEN [old EXCEPT !.ids = new.ids] ELSE old

\* The command a pending record holds once `new' has been pushed onto it.
Merged(old, new) ==
  CASE new.kind = "InjectPackage0" -> [old EXCEPT !.ids = @ \cup new.ids]
    [] new.kind = "SyncPackage0" /\ new.gen > old.gen
                                   -> carryPendingSnapshotWork(old, new)
    [] OTHER                       -> old

\* The pending records a pushed command is absorbed by: any injection or
\* snapshot takes a later one, the other kinds only take the same work.
Absorbing(q, c) ==
  {i \in DOMAIN q : \/ sameWork(q[i].cmd, c)
                    \/ /\ q[i].cmd.kind = c.kind
                       /\ c.kind \in {"InjectPackage0", "SyncPackage0"}}

First(S) == CHOOSE i \in S : \A j \in S : i <= j

WithinIdCap(c) == Cardinality(c.ids) <= MaxIds /\ Cardinality(c.added) <= MaxIds

\* Variant: the record is as young as the command it absorbed.
CoalesceRestarting(entry, new) ==
  [entry EXCEPT !.cmd = Merged(@, new.cmd),
                !.tickets = @ \cup new.tickets,
                !.stale = FALSE]

\* A record that absorbs a command keeps its place and its enqueue time.
Coalesce(entry, new) ==
  [entry EXCEPT !.cmd = Merged(@, new.cmd),
                !.tickets = @ \cup new.tickets]

\* Variant: one slot is never used.
CanPushBelowCapacity(q, e) ==
  WithinIdCap(e.cmd) /\ (Absorbing(q, e.cmd) = {} => Len(q) < Capacity - 1)

CanPush(q, e) ==
  LET hits == Absorbing(q, e.cmd)
  IN  /\ WithinIdCap(e.cmd)
      /\ IF hits = {} THEN Len(q) < Capacity
                      ELSE WithinIdCap(Merged(q[First(hits)].cmd, e.cmd))

\* Variant: the record an injection is merged into moves to the back.
PushMovingBack(q, e) ==
  LET hits == Absorbing(q, e.cmd)
      i    == First(hits)
  IN  CASE hits = {} -> Append(q, e)
        [] hits # {} /\ e.cmd.kind # "InjectPackage0" -> q
        [] OTHER ->
           SubSeq(q, 1, i - 1) \o SubSeq(q, i + 1, Len(q))
             \o <<Coalesce(q[i], e)>>

Push(q, e) ==
  LET hits == Absorbing(q, e.cmd)
  IN  IF hits = {} THEN Append(q, e)
                   ELSE [q EXCEPT ![First(hits)] = Coalesce(@, e)]

\* Variant: only the first command of a batch is tried.
CanPushFirst(q, b) == CanPush(q, b[1])

\* All or nothing: the callers' batches have one or two commands.
CanPushBatch(q, b) ==
  /\ CanPush(q, b[1])
  /\ Len(b) = 2 => CanPush(Push(q, b[1]), b[2])

PushBatch(q, b) ==
  IF Len(b) = 2 THEN Push(Push(q, b[1]), b[2]) ELSE Push(q, b[1])

TicketsOf(q) == UNION {q[i].tickets : i \in DOMAIN q}

=============================================================================
