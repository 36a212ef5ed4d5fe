----------------------------- MODULE OwnerQueue -----------------------------
(***************************************************************************)
(* The bounded owner-thread command queue under its most general client    *)
(* (src/utils/ownerqueue.hpp, class Queue, with the command runner of      *)
(* src/ownerwork.cpp).                                                     *)
(*                                                                         *)
(* Every section the code runs under m_mutex is one action, taking m_exec  *)
(* is one action and running one command is one action, so threads         *)
(* interleave wherever the code holds no lock.  pc[t] is where thread t    *)
(* stands in its call:                                                     *)
(*                                                                         *)
(*   out      outside the queue                                            *)
(*   hand     submitting hand[t]; nothing decided yet                      *)
(*   swept    submitting hand[t], the sweep ahead of it behind             *)
(*   refused  pushBatch returned false; only the inline fallback is left   *)
(*   exec     in runBatch, waiting for m_exec                              *)
(*   run      in runBatch, holding m_exec, batch[t] still to run           *)
(*   release  between runBatch and releaseExecuting                        *)
(*                                                                         *)
(* A ticket names one submitted command.  Tickets are history: they follow *)
(* each submission through coalescing to what became of it.                *)
(***************************************************************************)
EXTENDS OwnerCommands

CONSTANTS
  Threads,       \* every thread that uses the queue
  Owner,         \* the latched IPC thread
  Watchers,      \* the threads whose poll timeout sweeps the queue
  NoThread,      \* m_exec is free
  Batches,       \* the batches a thread may submit
  NestedCommands,\* what a compatibility step publishes on the owner thread
  MaxOps         \* bound: submissions of each thread

ASSUME ThreadsAssumption ==
  /\ Owner \in Threads
  /\ NoThread \notin Threads
  /\ Watchers \subseteq Threads \ {Owner}

ASSUME ClientAssumption ==
  /\ MaxOps \in [Threads -> Nat]
  /\ NestedCommands \subseteq Command
  /\ Batches \subseteq {b \in Seq(Command) : Len(b) \in {1, 2}}

\* An injection is only submitted together with the broadcast behind it, and a
\* broadcast never alone: the one caller of submitHotAdd tests that it has ids.
ASSUME HotAddAssumption ==
  LET hot == {"InjectPackage0", "ReconcileLicenses"}
  IN  /\ \A b \in Batches :
           IF Len(b) = 2
           THEN b[1].kind = "InjectPackage0" /\ b[2].kind = "ReconcileLicenses"
           ELSE b[1].kind \notin hot
      /\ \A c \in NestedCommands : c.kind \notin hot

VARIABLES
  pending,       \* m_pending
  executing,     \* m_executing
  shuttingDown,  \* m_shuttingDown
  exec,          \* the thread that holds m_exec
  pc,            \* where each thread stands
  hand,          \* the batch each thread is submitting
  batch,         \* what each thread still has to run
  claimed,       \* whether that run holds the claim
  ops,           \* submissions so far, per thread
  done,          \* history: tickets whose work was run
  abandoned,     \* history: tickets refused or dropped by the shutdown
  lost,          \* history: tickets the queue dropped for want of room
  unreconciled   \* history: ids injected since the last license broadcast

shared  == <<pending, executing, shuttingDown, exec>>
threads == <<pc, hand, batch, claimed, ops>>
history == <<done, abandoned, lost, unreconciled>>
vars    == <<shared, threads, history>>

Ticket == [by : Threads, n : Nat, cmd : Command]
Entry  == [cmd : Command, tickets : SUBSET Ticket, stale : BOOLEAN]
PC     == {"out", "hand", "swept", "refused", "exec", "run", "release"}

Init ==
  /\ pending = <<>>
  /\ executing = FALSE
  /\ shuttingDown = FALSE
  /\ exec = NoThread
  /\ pc = [t \in Threads |-> "out"]
  /\ hand = [t \in Threads |-> <<>>]
  /\ batch = [t \in Threads |-> <<>>]
  /\ claimed = [t \in Threads |-> FALSE]
  /\ ops = [t \in Threads |-> 0]
  /\ done = {}
  /\ abandoned = {}
  /\ lost = {}
  /\ unreconciled = {}

-----------------------------------------------------------------------------
(***************************************************************************)
(* Submitting.                                                             *)
(***************************************************************************)

NewTicket(t, c)  == [by |-> t, n |-> ops[t] + 1, cmd |-> c]
NewEntry(t, c)   == [cmd |-> c, tickets |-> {NewTicket(t, c)}, stale |-> FALSE]
Count(t)         == ops' = [ops EXCEPT ![t] = @ + 1]

\* A caller builds a batch.  The owner thread only submits from inside a
\* command it is running (RunPublishing).
Submit(t, b) ==
  /\ pc[t] = "out"
  /\ t # Owner
  /\ ops[t] < MaxOps[t]
  /\ Count(t)
  /\ hand' = [hand EXCEPT ![t] = [i \in DOMAIN b |-> NewEntry(t, b[i])]]
  /\ pc' = [pc EXCEPT ![t] = "hand"]
  /\ UNCHANGED <<shared, batch, claimed, history>>

\* The caller saw the queue closing and gives its batch up.
Abandon(t) ==
  /\ pc[t] = "hand"
  /\ shuttingDown
  /\ abandoned' = abandoned \cup TicketsOf(hand[t])
  /\ hand' = [hand EXCEPT ![t] = <<>>]
  /\ pc' = [pc EXCEPT ![t] = "out"]
  /\ UNCHANGED <<shared, batch, claimed, ops, done, lost, unreconciled>>

\* Variant: a closed queue is not noticed.
PushAcceptedClosed(t) ==
  /\ pc[t] \in {"hand", "swept"}
  /\ CanPushBatch(pending, hand[t])
  /\ pending' = PushBatch(pending, hand[t])
  /\ hand' = [hand EXCEPT ![t] = <<>>]
  /\ pc' = [pc EXCEPT ![t] = "out"]
  /\ UNCHANGED <<executing, shuttingDown, exec, batch, claimed, ops, history>>

PushAccepted(t) ==
  /\ pc[t] \in {"hand", "swept"}
  /\ ~shuttingDown
  /\ CanPushBatch(pending, hand[t])
  /\ pending' = PushBatch(pending, hand[t])
  /\ hand' = [hand EXCEPT ![t] = <<>>]
  /\ pc' = [pc EXCEPT ![t] = "out"]
  /\ UNCHANGED <<executing, shuttingDown, exec, batch, claimed, ops, history>>

PushRejected(t) ==
  /\ pc[t] \in {"hand", "swept"}
  /\ shuttingDown \/ ~CanPushBatch(pending, hand[t])
  /\ pc' = [pc EXCEPT ![t] = "refused"]
  /\ UNCHANGED <<shared, hand, batch, claimed, ops, history>>

-----------------------------------------------------------------------------
(***************************************************************************)
(* Claiming.  A claim takes the whole pending set.                         *)
(***************************************************************************)

Take(t, taken, left) ==
  /\ executing' = TRUE
  /\ claimed' = [claimed EXCEPT ![t] = TRUE]
  /\ batch' = [batch EXCEPT ![t] = taken]
  /\ pending' = left
  /\ pc' = [pc EXCEPT ![t] = "exec"]

\* Variants: a second claim, a copy instead of a swap, the pending set
\* forgotten, the fallback's batch ahead of it.
ClaimTwice(t, extra)   == Take(t, pending \o extra, <<>>)
ClaimCopy(t, extra)    == ~executing /\ Take(t, pending \o extra, pending)
ClaimForget(t, extra)  == ~executing /\ Take(t, extra, <<>>)
ClaimReorder(t, extra) == ~executing /\ Take(t, extra \o pending, <<>>)

Claim(t, extra) == ~executing /\ Take(t, pending \o extra, <<>>)

\* drain, on the owner's IPC frame.
Drain(t) ==
  /\ t = Owner
  /\ pc[t] = "out"
  /\ pending # <<>>
  /\ Claim(t, <<>>)
  /\ UNCHANGED <<shuttingDown, exec, hand, ops, history>>

\* Variant: the sweep runs ahead of a submission only.
FlushStaleSubmitting(t) ==
  /\ pc[t] = "hand"
  /\ ~shuttingDown
  /\ pending # <<>>
  /\ Head(pending).stale
  /\ Claim(t, <<>>)
  /\ UNCHANGED <<shuttingDown, exec, hand, ops, history>>

\* flushStale: from a watcher's poll timeout, or ahead of a submission.
FlushStale(t) ==
  /\ \/ pc[t] = "out" /\ t \in Watchers
     \/ pc[t] = "hand"
  /\ ~shuttingDown
  /\ pending # <<>>
  /\ Head(pending).stale
  /\ Claim(t, <<>>)
  /\ UNCHANGED <<shuttingDown, exec, hand, ops, history>>

\* runPendingThen, when the claim succeeds: what is pending, then the batch.
ClaimInline(t) ==
  /\ pc[t] \in {"hand", "swept", "refused"}
  /\ Claim(t, hand[t])
  /\ hand' = [hand EXCEPT ![t] = <<>>]
  /\ UNCHANGED <<shuttingDown, exec, ops, history>>

\* runPendingThen, when another thread holds the claim: the batch alone.
JoinInline(t) ==
  /\ pc[t] \in {"hand", "swept", "refused"}
  /\ executing
  /\ batch' = [batch EXCEPT ![t] = hand[t]]
  /\ hand' = [hand EXCEPT ![t] = <<>>]
  /\ pc' = [pc EXCEPT ![t] = "exec"]
  /\ UNCHANGED <<shared, claimed, ops, history>>

-----------------------------------------------------------------------------
(***************************************************************************)
(* Running a batch under m_exec.                                           *)
(***************************************************************************)

AcquireExec(t) ==
  /\ pc[t] = "exec"
  /\ exec = NoThread
  /\ exec' = t
  /\ pc' = [pc EXCEPT ![t] = "run"]
  /\ UNCHANGED <<pending, executing, shuttingDown, hand, batch, claimed, ops,
                 history>>

Running(t) == pc[t] = "run" /\ batch[t] # <<>>

Step(t) == batch' = [batch EXCEPT ![t] = Tail(@)]

UnreconciledAfter(c) ==
  CASE c.kind = "InjectPackage0"    -> unreconciled \cup c.ids
    [] c.kind = "ReconcileLicenses" -> {}
    [] OTHER                        -> unreconciled

\* Run the next command to its end, whether it throws or not.  A compatibility
\* step is only ever run by the owner; here it publishes nothing.
RunCommand(t) ==
  /\ Running(t)
  /\ LET e == Head(batch[t]) IN
       /\ e.cmd.kind = "EnsureCompat" => t = Owner
       /\ done' = done \cup e.tickets
       /\ unreconciled' = UnreconciledAfter(e.cmd)
  /\ Step(t)
  /\ UNCHANGED <<shared, pc, hand, claimed, ops, abandoned, lost>>

\* A compatibility step that publishes a prepared base: the owner submits one
\* more command from inside its drain.  Its own claim stands, so the nested
\* runPendingThen claims nothing and runs that command at once (m_exec is
\* recursive), unless the queue is closing.
RunPublishing(t, c) ==
  /\ Running(t)
  /\ t = Owner
  /\ ops[t] < MaxOps[t]
  /\ Count(t)
  /\ LET e == Head(batch[t]) IN
       /\ e.cmd.kind = "EnsureCompat"
       /\ done' = done \cup e.tickets
                       \cup (IF shuttingDown THEN {} ELSE {NewTicket(t, c)})
       /\ abandoned' = abandoned
                       \cup (IF shuttingDown THEN {NewTicket(t, c)} ELSE {})
  /\ Step(t)
  /\ UNCHANGED <<shared, pc, hand, claimed, lost, unreconciled>>

\* Variant: the attempt that reaches the limit is still pushed.
RunAgainPastLimit(t) ==
  /\ Running(t)
  /\ LET e   == Head(batch[t])
         cmd == [e.cmd EXCEPT !.attempt = IF t = Owner THEN @ + 1 ELSE @]
     IN  /\ e.cmd.kind = "EnsureCompat"
         /\ ~shuttingDown
         /\ pending' = Push(pending, [cmd |-> cmd, tickets |-> e.tickets,
                                      stale |-> FALSE])
  /\ Step(t)
  /\ UNCHANGED <<executing, shuttingDown, exec, pc, hand, claimed, ops, history>>

\* A compatibility step that cannot complete is pushed again, and the result
\* of that push is not looked at: off the owner thread unchanged, on it (no
\* manager yet, or a faulting call) with one more attempt.
RunAgain(t) ==
  /\ Running(t)
  /\ LET e     == Head(batch[t])
         cmd   == [e.cmd EXCEPT !.attempt = IF t = Owner THEN @ + 1 ELSE @]
         again == [cmd |-> cmd, tickets |-> e.tickets, stale |-> FALSE]
     IN  /\ e.cmd.kind = "EnsureCompat"
         /\ t = Owner => cmd.attempt < MaxAttempts
         /\ \/ /\ shuttingDown
               /\ abandoned' = abandoned \cup e.tickets
               /\ UNCHANGED <<pending, lost>>
            \/ /\ ~shuttingDown
               /\ CanPush(pending, again)
               /\ pending' = Push(pending, again)
               /\ UNCHANGED <<abandoned, lost>>
            \/ /\ ~shuttingDown
               /\ ~CanPush(pending, again)
               /\ lost' = lost \cup e.tickets
               /\ UNCHANGED <<pending, abandoned>>
  /\ Step(t)
  /\ UNCHANGED <<executing, shuttingDown, exec, pc, hand, claimed, ops, done,
                 unreconciled>>

\* Back from runBatch; a thread that still has a batch in hand was sweeping
\* ahead of its own submission.
Return(t) == pc' = [pc EXCEPT ![t] = IF hand[t] = <<>> THEN "out" ELSE "swept"]

FinishBatch(t) ==
  /\ pc[t] = "run"
  /\ batch[t] = <<>>
  /\ exec' = NoThread
  /\ IF claimed[t] THEN pc' = [pc EXCEPT ![t] = "release"] ELSE Return(t)
  /\ UNCHANGED <<pending, executing, shuttingDown, hand, batch, claimed, ops,
                 history>>

\* Variant: the claim is never given back.
ReleaseExecutingNever(t) ==
  /\ pc[t] = "release"
  /\ claimed' = [claimed EXCEPT ![t] = FALSE]
  /\ Return(t)
  /\ UNCHANGED <<shared, hand, batch, ops, history>>

ReleaseExecuting(t) ==
  /\ pc[t] = "release"
  /\ executing' = FALSE
  /\ claimed' = [claimed EXCEPT ![t] = FALSE]
  /\ Return(t)
  /\ UNCHANGED <<pending, shuttingDown, exec, hand, batch, ops, history>>

-----------------------------------------------------------------------------
(***************************************************************************)
(* The environment: teardown and the passing of time.                      *)
(***************************************************************************)

Shutdown ==
  /\ ~shuttingDown
  /\ shuttingDown' = TRUE
  /\ abandoned' = abandoned \cup TicketsOf(pending)
  /\ pending' = <<>>
  /\ UNCHANGED <<executing, exec, threads, done, lost, unreconciled>>

Fresh == {i \in DOMAIN pending : ~pending[i].stale}

\* The oldest record that is not yet stale becomes so.
Age ==
  /\ Fresh # {}
  /\ pending' = [pending EXCEPT ![First(Fresh)].stale = TRUE]
  /\ UNCHANGED <<executing, shuttingDown, exec, threads, history>>

Run(t) ==
  \/ RunCommand(t)
  \/ \E c \in NestedCommands : RunPublishing(t, c)
  \/ RunAgain(t)

\* The steps that finish what a thread has begun.
Proceed(t) ==
  \/ Abandon(t) \/ PushAccepted(t) \/ PushRejected(t)
  \/ ClaimInline(t) \/ JoinInline(t)
  \/ AcquireExec(t) \/ Run(t) \/ FinishBatch(t) \/ ReleaseExecuting(t)

Next ==
  \/ \E t \in Threads :
       \/ \E b \in Batches : Submit(t, b)
       \/ Drain(t)
       \/ FlushStale(t)
       \/ Proceed(t)
  \/ Shutdown
  \/ Age

Spec == Init /\ [][Next]_vars

\* A thread inside a call goes on, m_exec is handed to a waiting thread, time
\* passes and watchers poll.  The owner may stop running frames.
FairSpec ==
  /\ Spec
  /\ \A t \in Threads : WF_vars(Proceed(t)) /\ SF_vars(AcquireExec(t))
  /\ WF_vars(Age)
  /\ \A t \in Threads : WF_vars(FlushStale(t))

\* The owner keeps running IPC frames.
OwnerRuns == SF_vars(Drain(Owner))

-----------------------------------------------------------------------------
(***************************************************************************)
(* What the queue promises.                                                *)
(***************************************************************************)

\* The states the variables range over.
TypeOK ==
  /\ pending \in Seq(Entry)
  /\ executing \in BOOLEAN
  /\ shuttingDown \in BOOLEAN
  /\ exec \in Threads \cup {NoThread}
  /\ pc \in [Threads -> PC]
  /\ hand \in [Threads -> Seq(Entry)]
  /\ batch \in [Threads -> Seq(Entry)]
  /\ claimed \in [Threads -> BOOLEAN]
  /\ ops \in [Threads -> Nat]
  /\ done \in SUBSET Ticket
  /\ abandoned \in SUBSET Ticket
  /\ lost \in SUBSET Ticket
  /\ unreconciled \in SUBSET Apps

\* "Serialised": two threads never run commands at the same time, and the
\* claim is one thread's from the swap of the pending set until after its
\* batch, across the gaps before m_exec is taken and after it is given back.
Serialised ==
  /\ \A t, u \in Threads : pc[t] = "run" /\ pc[u] = "run" => t = u
  /\ \A t, u \in Threads : claimed[t] /\ claimed[u] => t = u
  /\ \A t \in Threads : claimed[t] => pc[t] \in {"exec", "run", "release"}
  /\ executing <=> \E t \in Threads : claimed[t]

\* Every place a ticket that still has to be run can be in.
Queues == [x \in ({"pending"} \X {NoThread}) \cup ({"hand", "batch"} \X Threads) |->
             CASE x[1] = "pending" -> pending
               [] x[1] = "hand"    -> hand[x[2]]
               [] x[1] = "batch"   -> batch[x[2]]]

Live == UNION {TicketsOf(Queues[x]) : x \in DOMAIN Queues}

\* "Exactly once": a ticket is in one record of one place, and one that was
\* run, abandoned or lost is nowhere else.
ExactlyOnce ==
  /\ \A x, y \in DOMAIN Queues :
       x # y => TicketsOf(Queues[x]) \cap TicketsOf(Queues[y]) = {}
  /\ \A x \in DOMAIN Queues : \A i, j \in DOMAIN Queues[x] :
       i # j => Queues[x][i].tickets \cap Queues[x][j].tickets = {}
  /\ Live \cap (done \cup abandoned \cup lost) = {}
  /\ done \cap abandoned = {} /\ done \cap lost = {} /\ abandoned \cap lost = {}

\* No step, a coalescing push or a closing queue included, makes a submitted
\* command vanish without a record of what became of it.
NothingVanishes ==
  [][Live \cup done \cup abandoned \cup lost
       \subseteq (Live \cup done \cup abandoned \cup lost)']_vars

\* Coalescing loses no work: the record a ticket ended up in does at least
\* what was submitted.
Covers(c, d) ==
  /\ c.kind = d.kind
  /\ c.kind = "InjectPackage0" => d.ids \subseteq c.ids
  /\ c.kind = "SyncPackage0" => d.gen <= c.gen
  /\ c.kind \in {"InstallApp", "EnsureCompat"} => d.ids = c.ids
  /\ c.kind = "EnsureCompat" => d.gen = c.gen

WorkCovered ==
  \A x \in DOMAIN Queues : \A i \in DOMAIN Queues[x] :
    \A tk \in Queues[x][i].tickets : Covers(Queues[x][i].cmd, tk.cmd)

\* A record that stays pending never gets younger, so a stream of coalescing
\* pushes cannot keep the escape hatch shut, and the ids a superseded snapshot
\* had yet to announce are announced by its successor if it still has them.
CoalescingKeeps ==
  [][\A i \in DOMAIN pending : \A j \in DOMAIN pending' :
       LET old == pending[i]
           new == pending'[j]
       IN  /\ old.tickets \subseteq new.tickets
           /\ ~\E t \in Threads : pc[t] = "run" /\ batch'[t] # batch[t]
           => /\ old.stale => new.stale
              /\ old.cmd.added \cap new.cmd.ids \subseteq new.cmd.added]_vars

\* The pending set keeps to its bounds, whatever a batch or a retry adds.
Bounded ==
  /\ Len(pending) <= Capacity
  /\ \A i \in DOMAIN pending : WithinIdCap(pending[i].cmd)

\* A closed queue stays empty: no push, retry included, is accepted after it.
ClosedStaysEmpty == shuttingDown => pending = <<>>

\* Injected ids are always followed by a license broadcast: in whatever order
\* hot-adds coalesce, are claimed or fall back, an injection is followed by a
\* broadcast in the same place, and none is owed once no batch is running.
BroadcastFollows(q) ==
  \A i \in DOMAIN q : q[i].cmd.kind = "InjectPackage0" =>
    \E j \in DOMAIN q : i < j /\ q[j].cmd.kind = "ReconcileLicenses"

InjectionIsBroadcast ==
  /\ \A x \in DOMAIN Queues : BroadcastFollows(Queues[x])
  /\ unreconciled # {} =>
       \E t \in Threads : /\ pc[t] = "run"
                          /\ \E j \in DOMAIN batch[t] :
                               batch[t][j].cmd.kind = "ReconcileLicenses"

\* While the owner keeps running frames, everything submitted is settled.
EverythingSettles == OwnerRuns => <>[](Live = {})

\* Even if it stops, the staleness sweep settles everything except the commands
\* that only the owner may run.
SweepSettles == <>[](\A tk \in Live : tk.cmd.kind = "EnsureCompat")

\* "Overflow is rejected, never silently dropped."
NothingLost == lost = {}

\* "Teardown never races new Steam-owned calls in": once the queue is closed no
\* thread takes a batch it has not yet handed over to m_exec.
ClosedStartsNothing ==
  [][\A t \in Threads : shuttingDown /\ pc[t] \in {"hand", "swept", "refused"}
        => pc'[t] # "exec"]_vars

\* "The inline fallbacks run any pending work BEFORE the batch they were
\* given": a thread that takes its batch to m_exec leaves nothing waiting.
FallbackRunsPendingFirst ==
  [][\A t \in Threads : pc[t] \in {"hand", "swept", "refused"} /\ pc'[t] = "exec"
        => pending' = <<>>]_vars

=============================================================================
