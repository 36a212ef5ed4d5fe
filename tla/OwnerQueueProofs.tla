-------------------------- MODULE OwnerQueueProofs --------------------------
(***************************************************************************)
(* Proofs about the owner queue, for any number of threads, any capacity   *)
(* and any batches.                                                        *)
(*                                                                         *)
(* The claim (m_executing) and the execution mutex (m_exec) are taken and  *)
(* given back at different points; Ownership ties both to where each       *)
(* thread stands, and is inductive by itself.                              *)
(*                                                                         *)
(* What becomes of each submitted command comes after: it is in one place  *)
(* or settled in one way, it never vanishes, the record that stands for it *)
(* covers it and keeps its age, an injection is followed by its broadcast, *)
(* and the whole queue implements the handoff of OwnerHandoff.             *)
(* Places says where tickets are, Work what their records do, Announcing   *)
(* what order injections and broadcasts are in; each is inductive given    *)
(* Inv and Ownership.  The line of the handoff is then followed from step  *)
(* to step through the records behind it.                                  *)
(*                                                                         *)
(* At the end, what a full queue can lose is not lost by one that has room *)
(* for each subject its commands can be about.                             *)
(***************************************************************************)
EXTENDS OwnerQueue, OwnerQueueImplements, SequenceTheorems,
        FiniteSetTheorems, WellFoundedInduction, TLAPS

\* Who holds m_exec and the claim, read off the program counters.
Ownership ==
  /\ executing \in BOOLEAN
  /\ pc \in [Threads -> PC]
  /\ claimed \in [Threads -> BOOLEAN]
  /\ \A t \in Threads : pc[t] = "run" <=> exec = t
  /\ \A t \in Threads : claimed[t] => executing
  /\ \A t \in Threads : claimed[t] => pc[t] \in {"exec", "run", "release"}
  /\ \A t \in Threads : pc[t] = "release" => claimed[t]
  /\ \A t, u \in Threads : claimed[t] /\ claimed[u] => t = u
  /\ executing => \E t \in Threads : claimed[t]

LEMMA OwnershipImpliesSerialised == Ownership => Serialised
BY DEF Ownership, Serialised

LEMMA OwnershipInit == Init => Ownership
BY ThreadsAssumption DEF Init, Ownership, PC

LEMMA OwnershipStep == Ownership /\ [Next]_vars => Ownership'
<1> SUFFICES ASSUME Ownership, [Next]_vars PROVE Ownership'
  OBVIOUS
<1> USE ThreadsAssumption DEF Ownership, PC
<1>1. ASSUME NEW t \in Threads, NEW b \in Batches, Submit(t, b)
      PROVE  Ownership'
  BY <1>1 DEF Submit, shared
<1>2. ASSUME NEW t \in Threads, Drain(t)
      PROVE  Ownership'
  BY <1>2 DEF Drain, Claim, Take
<1>3. ASSUME NEW t \in Threads, FlushStale(t)
      PROVE  Ownership'
  BY <1>3 DEF FlushStale, Claim, Take
<1>4. ASSUME NEW t \in Threads, Proceed(t)
      PROVE  Ownership'
  <2>1. CASE Abandon(t)
    BY <2>1 DEF Abandon, shared
  <2>2. CASE PushAccepted(t)
    BY <2>2 DEF PushAccepted
  <2>3. CASE PushRejected(t)
    BY <2>3 DEF PushRejected, shared
  <2>4. CASE ClaimInline(t)
    BY <2>4 DEF ClaimInline, Claim, Take
  <2>5. CASE JoinInline(t)
    BY <2>5 DEF JoinInline, shared
  <2>6. CASE AcquireExec(t)
    BY <2>6 DEF AcquireExec
  <2>7. CASE Run(t)
    BY <2>7 DEF Run, RunCommand, RunPublishing, RunAgain, shared
  <2>8. CASE FinishBatch(t)
    BY <2>8 DEF FinishBatch, Return
  <2>9. CASE ReleaseExecuting(t)
    <3>1. /\ pc[t] = "release" /\ claimed[t]
          /\ executing' = FALSE /\ exec' = exec
          /\ claimed' = [claimed EXCEPT ![t] = FALSE]
      BY <2>9 DEF ReleaseExecuting
    <3>2. \E p \in {"out", "swept"} : pc' = [pc EXCEPT ![t] = p]
      BY <2>9 DEF ReleaseExecuting, Return
    <3>3. /\ pc' \in [Threads -> PC]
          /\ \A u \in Threads : u # t => pc'[u] = pc[u]
          /\ pc'[t] \notin {"run", "release"}
      BY <3>2
    <3>4. /\ claimed' \in [Threads -> BOOLEAN]
          /\ \A u \in Threads : ~claimed'[u]
      BY <3>1
    <3>5. \A u \in Threads : pc'[u] = "run" <=> exec' = u
      BY <3>1, <3>3
    <3>6. \A u \in Threads : pc'[u] # "release"
      BY <3>1, <3>3
    <3> QED
      BY <3>1, <3>3, <3>4, <3>5, <3>6
  <2> QED
    BY <1>4, <2>1, <2>2, <2>3, <2>4, <2>5, <2>6, <2>7, <2>8, <2>9 DEF Proceed
<1>5. CASE Shutdown
  BY <1>5 DEF Shutdown, threads
<1>6. CASE Age
  BY <1>6 DEF Age, threads
<1>7. CASE UNCHANGED vars
  BY <1>7 DEF vars, shared, threads
<1> QED
  BY <1>1, <1>2, <1>3, <1>4, <1>5, <1>6, <1>7 DEF Next

\* Two threads never run commands at once, and the claim is one thread's from
\* the swap of the pending set until after its batch (m_exec and m_executing
\* in runBatch, claim and releaseExecuting).
THEOREM SerialisedAlways == Spec => []Serialised
BY OwnershipInit, OwnershipStep, OwnershipImpliesSerialised, PTL DEF Spec

-----------------------------------------------------------------------------
(***************************************************************************)
(* The pure part of the push: what it returns is well typed, and within    *)
(* the two bounds when the guard held.                                     *)
(***************************************************************************)

LEMMA MergedType ==
  ASSUME NEW c \in Command, NEW d \in Command
  PROVE  Merged(c, d) \in Command
<1>1. CASE d.kind = "InjectPackage0"
  BY <1>1 DEF Merged, Command, Kind
<1>2. CASE d.kind = "SyncPackage0"
  BY <1>2 DEF Merged, carryPendingSnapshotWork, Command, Kind
<1>3. CASE d.kind \notin {"InjectPackage0", "SyncPackage0"}
  BY <1>3 DEF Merged
<1> QED
  BY <1>1, <1>2, <1>3

LEMMA CoalesceType ==
  ASSUME NEW e \in Entry, NEW f \in Entry
  PROVE  /\ Coalesce(e, f) \in Entry
         /\ Coalesce(e, f).cmd = Merged(e.cmd, f.cmd)
<1>1. Merged(e.cmd, f.cmd) \in Command
  BY MergedType DEF Entry
<1> QED
  BY <1>1 DEF Coalesce, Entry

\* A replacement keeps the length and touches one record at most.
LEMMA ReplaceType ==
  ASSUME NEW q \in Seq(Entry), NEW i, NEW e \in Entry
  PROVE  /\ [q EXCEPT ![i] = e] \in Seq(Entry)
         /\ Len([q EXCEPT ![i] = e]) = Len(q)
         /\ \A j \in 1 .. Len(q) :
              [q EXCEPT ![i] = e][j] = IF j = i THEN e ELSE q[j]
<1>1. CASE i \in 1 .. Len(q)
  BY <1>1, ExceptSeq
<1>2. CASE i \notin 1 .. Len(q)
  <2>1. [q EXCEPT ![i] = e] = q
    BY <1>2, LenProperties
  <2> QED
    BY <1>2, <2>1
<1> QED
  BY <1>1, <1>2

LEMMA PushType ==
  ASSUME NEW q \in Seq(Entry), NEW e \in Entry
  PROVE  Push(q, e) \in Seq(Entry)
<1> DEFINE hits == Absorbing(q, e.cmd)
<1>1. CASE hits = {}
  BY <1>1, AppendProperties DEF Push
<1>2. CASE hits # {}
  <2> DEFINE i == First(hits)
             q1 == [q EXCEPT ![i] = Coalesce(q[i], e)]
  <2>1. CASE i \in 1 .. Len(q)
    <3>1. q[i] \in Entry
      BY <2>1, ElementOfSeq
    <3>2. Coalesce(q[i], e) \in Entry
      BY <3>1, CoalesceType
    <3>3. q1 \in Seq(Entry)
      BY <3>2, ReplaceType
    <3> QED
      BY <1>2, <3>3 DEF Push
  <2>2. CASE i \notin 1 .. Len(q)
    <3>1. q1 = q
      BY <2>2, LenProperties
    <3> QED
      BY <1>2, <3>1 DEF Push
  <2> QED
    BY <2>1, <2>2
<1> QED
  BY <1>1, <1>2

\* The two bounds of the pending set.
Within(q) ==
  /\ Len(q) <= Capacity
  /\ \A i \in 1 .. Len(q) : WithinIdCap(q[i].cmd)

LEMMA BoundedIsWithin ==
  ASSUME pending \in Seq(Entry)
  PROVE  Bounded <=> Within(pending)
BY LenProperties DEF Bounded, Within

LEMMA PushWithin ==
  ASSUME NEW q \in Seq(Entry), NEW e \in Entry, Within(q), CanPush(q, e)
  PROVE  Within(Push(q, e))
<1> DEFINE hits == Absorbing(q, e.cmd)
           i    == First(hits)
<1>1. CASE hits = {}
  <2>1. Push(q, e) = Append(q, e) /\ Len(q) < Capacity /\ WithinIdCap(e.cmd)
    BY <1>1 DEF Push, CanPush
  <2>2. Len(q) \in Nat /\ Len(Append(q, e)) = Len(q) + 1
    BY LenProperties, AppendProperties
  <2>3. \A j \in 1 .. Len(q) + 1 : Append(q, e)[j] = IF j <= Len(q) THEN q[j] ELSE e
    BY AppendProperties
  <2>4. Len(q) + 1 <= Capacity
    BY <2>1, <2>2, BoundsAssumption
  <2>5. ASSUME NEW j \in 1 .. Len(q) + 1
        PROVE  WithinIdCap(Append(q, e)[j].cmd)
    <3>1. CASE j <= Len(q)
      BY <3>1, <2>2, <2>3 DEF Within
    <3>2. CASE ~(j <= Len(q))
      BY <3>2, <2>1, <2>2, <2>3
    <3> QED
      BY <3>1, <3>2
  <2> QED
    BY <2>1, <2>2, <2>4, <2>5 DEF Within
<1>2. CASE hits # {}
  <2>1. Push(q, e) = [q EXCEPT ![i] = Coalesce(q[i], e)]
    BY <1>2 DEF Push
  <2>2. CASE i \in 1 .. Len(q)
    <3>1. q[i] \in Entry
      BY <2>2, ElementOfSeq
    <3>2. /\ Coalesce(q[i], e) \in Entry
          /\ Coalesce(q[i], e).cmd = Merged(q[i].cmd, e.cmd)
      BY <3>1, CoalesceType
    <3>3. WithinIdCap(Merged(q[i].cmd, e.cmd))
      BY <1>2 DEF CanPush
    <3> HIDE DEF i
    <3> QED
      BY <2>1, <3>2, <3>3, ReplaceType DEF Within
  <2>3. CASE i \notin 1 .. Len(q)
    <3>1. Push(q, e) = q
      BY <2>1, <2>3, LenProperties
    <3> QED
      BY <3>1
  <2> QED
    BY <2>2, <2>3
<1> QED
  BY <1>1, <1>2

\* A batch of one or two records, accepted as a whole.
LEMMA PushBatchFacts ==
  ASSUME NEW q \in Seq(Entry), NEW b \in Seq(Entry), Len(b) \in {1, 2},
         CanPushBatch(q, b)
  PROVE  /\ PushBatch(q, b) \in Seq(Entry)
         /\ Within(q) => Within(PushBatch(q, b))
<1>1. b[1] \in Entry /\ CanPush(q, b[1])
  BY ElementOfSeq DEF CanPushBatch
<1>2. /\ Push(q, b[1]) \in Seq(Entry)
      /\ Within(q) => Within(Push(q, b[1]))
  BY <1>1, PushType, PushWithin
<1>3. CASE Len(b) = 1
  BY <1>2, <1>3 DEF PushBatch
<1>4. CASE Len(b) = 2
  <2>1. b[2] \in Entry /\ CanPush(Push(q, b[1]), b[2])
    BY <1>4, ElementOfSeq DEF CanPushBatch
  <2>2. /\ Push(Push(q, b[1]), b[2]) \in Seq(Entry)
        /\ Within(Push(q, b[1])) => Within(Push(Push(q, b[1]), b[2]))
    BY <1>2, <2>1, PushType, PushWithin
  <2> QED
    BY <1>2, <1>4, <2>2 DEF PushBatch
<1> QED
  BY <1>3, <1>4

LEMMA TicketsType ==
  ASSUME NEW q \in Seq(Entry)
  PROVE  TicketsOf(q) \in SUBSET Ticket
<1>1. ASSUME NEW i \in DOMAIN q
      PROVE  q[i].tickets \in SUBSET Ticket
  <2>1. q[i] \in Entry
    BY ElementOfSeq, LenProperties
  <2> QED
    BY <2>1 DEF Entry
<1> QED
  BY <1>1 DEF TicketsOf

\* A batch in a caller's hand.
LEMMA HandType ==
  ASSUME NEW t \in Threads, NEW b \in Batches, ops[t] \in Nat
  PROVE  /\ [i \in DOMAIN b |-> NewEntry(t, b[i])] \in Seq(Entry)
         /\ Len([i \in DOMAIN b |-> NewEntry(t, b[i])]) \in {1, 2}
<1> DEFINE h == [i \in DOMAIN b |-> NewEntry(t, b[i])]
<1>1. b \in Seq(Command) /\ Len(b) \in {1, 2}
  BY ClientAssumption
<1>2. DOMAIN b = 1 .. Len(b)
  BY <1>1, LenProperties
<1>3. ASSUME NEW i \in 1 .. Len(b)
      PROVE  NewEntry(t, b[i]) \in Entry
  <2>1. b[i] \in Command
    BY <1>1, ElementOfSeq
  <2> QED
    BY <2>1 DEF NewEntry, NewTicket, Entry, Ticket
<1> QED
  BY <1>1, <1>2, <1>3

-----------------------------------------------------------------------------
(***************************************************************************)
(* Types, bounds and the closed queue.  A thread with a batch to decide    *)
(* about holds one or two records of it, which is what makes the two       *)
(* pushes of a batch meaningful.                                           *)
(***************************************************************************)

Hands ==
  \A t \in Threads :
    /\ Len(hand[t]) \in 0 .. 2
    /\ pc[t] \in {"hand", "swept", "refused"} => hand[t] # <<>>

Inv == TypeOK /\ Hands /\ Bounded /\ ClosedStaysEmpty

LEMMA InvInit == Init => Inv
<1> SUFFICES ASSUME Init PROVE Inv
  OBVIOUS
<1>1. TypeOK
  BY ThreadsAssumption, EmptySeq DEF Init, TypeOK, PC
<1>2. Hands /\ Bounded /\ ClosedStaysEmpty
  BY BoundsAssumption, EmptySeq DEF Init, Hands, Bounded, ClosedStaysEmpty
<1> QED
  BY <1>1, <1>2 DEF Inv

LEMMA HandLength ==
  ASSUME TypeOK, Hands, NEW t \in Threads,
         pc[t] \in {"hand", "swept", "refused"}
  PROVE  hand[t] \in Seq(Entry) /\ Len(hand[t]) \in {1, 2}
<1>1. hand[t] \in Seq(Entry) /\ hand[t] # <<>> /\ Len(hand[t]) \in 0 .. 2
  BY DEF TypeOK, Hands
<1> QED
  BY <1>1, EmptySeq

LEMMA SubmitStep ==
  ASSUME Inv, NEW t \in Threads, NEW b \in Batches, Submit(t, b)
  PROVE  Inv'
<1> DEFINE h == [i \in DOMAIN b |-> NewEntry(t, b[i])]
<1>1. h \in Seq(Entry) /\ Len(h) \in {1, 2}
  BY HandType DEF Inv, TypeOK
<1>2. h # <<>>
  BY <1>1, EmptySeq
<1>3. /\ hand' = [hand EXCEPT ![t] = h]
      /\ pc' = [pc EXCEPT ![t] = "hand"]
      /\ ops' = [ops EXCEPT ![t] = @ + 1]
      /\ UNCHANGED <<shared, batch, claimed, history>>
  BY DEF Submit, Count
<1> HIDE DEF h
<1>4. TypeOK'
  BY <1>1, <1>3 DEF Inv, TypeOK, PC, shared, history
<1>5. Hands'
  BY <1>1, <1>2, <1>3 DEF Inv, TypeOK, Hands
<1>6. Bounded' /\ ClosedStaysEmpty'
  BY DEF Inv, Bounded, ClosedStaysEmpty, Submit, shared
<1> QED
  BY <1>4, <1>5, <1>6 DEF Inv

LEMMA PushAcceptedStep ==
  ASSUME Inv, NEW t \in Threads, PushAccepted(t)
  PROVE  Inv'
<1>1. hand[t] \in Seq(Entry) /\ Len(hand[t]) \in {1, 2}
  BY HandLength DEF Inv, PushAccepted
<1>2. pending \in Seq(Entry) /\ Within(pending)
  BY BoundedIsWithin DEF Inv, TypeOK
<1>3. pending' \in Seq(Entry) /\ Within(pending')
  BY <1>1, <1>2, PushBatchFacts DEF PushAccepted
<1>4. TypeOK'
  BY <1>3, EmptySeq DEF Inv, TypeOK, PushAccepted, PC, history
<1>5. Hands'
  BY EmptySeq DEF Inv, TypeOK, Hands, PushAccepted
<1>6. Bounded'
  BY <1>3, LenProperties DEF Bounded, Within
<1>7. ClosedStaysEmpty'
  BY DEF ClosedStaysEmpty, PushAccepted
<1> QED
  BY <1>4, <1>5, <1>6, <1>7 DEF Inv

\* The whole pending set moves to the claimant's batch.
LEMMA ClaimStep ==
  ASSUME Inv, NEW t \in Threads, NEW extra \in Seq(Entry), Claim(t, extra),
         hand' = hand \/ hand' = [hand EXCEPT ![t] = <<>>],
         UNCHANGED <<shuttingDown, exec, ops, history>>
  PROVE  Inv'
<1>1. pending' = <<>> /\ batch' = [batch EXCEPT ![t] = pending \o extra]
  BY DEF Claim, Take
<1>2. pending \o extra \in Seq(Entry) /\ <<>> \in Seq(Entry)
  BY ConcatProperties, EmptySeq DEF Inv, TypeOK
<1>3. hand' \in [Threads -> Seq(Entry)]
  BY <1>2 DEF Inv, TypeOK
<1>4. TypeOK'
  BY <1>1, <1>2, <1>3 DEF Inv, TypeOK, Claim, Take, PC, history
<1>5. Hands'
  BY EmptySeq DEF Inv, TypeOK, Hands, Claim, Take
<1>6. Bounded' /\ ClosedStaysEmpty'
  BY <1>1, EmptySeq, BoundsAssumption DEF Bounded, ClosedStaysEmpty
<1> QED
  BY <1>4, <1>5, <1>6 DEF Inv

\* One command leaves the batch of a running thread.
LEMMA RunStep ==
  ASSUME Inv, NEW t \in Threads, Run(t)
  PROVE  Inv'
<1> DEFINE e == Head(batch[t])
<1>1. /\ e \in Entry
      /\ Tail(batch[t]) \in Seq(Entry)
  <2>1. batch[t] \in Seq(Entry) /\ batch[t] # <<>>
    BY DEF Inv, TypeOK, Run, RunCommand, RunPublishing, RunAgain, Running
  <2> QED
    BY <2>1, HeadTailProperties
<1>2. batch' = [batch EXCEPT ![t] = Tail(batch[t])]
  BY DEF Run, RunCommand, RunPublishing, RunAgain, Step
<1>3. batch' \in [Threads -> Seq(Entry)]
  BY <1>1, <1>2 DEF Inv, TypeOK
<1>4. e.tickets \in SUBSET Ticket /\ e.cmd \in Command
  BY <1>1 DEF Entry
<1> HIDE DEF e
<1>5. CASE RunCommand(t)
  <2>1. /\ done' = done \cup e.tickets
        /\ unreconciled' = UnreconciledAfter(e.cmd)
        /\ UNCHANGED <<shared, pc, hand, claimed, ops, abandoned, lost>>
    BY <1>5 DEF RunCommand, e
  <2>2. unreconciled' \in SUBSET Apps
    BY <1>4, <2>1 DEF UnreconciledAfter, Inv, TypeOK, Command
  <2>3. TypeOK'
    BY <1>3, <1>4, <2>1, <2>2 DEF Inv, TypeOK, shared
  <2> QED
    BY <2>1, <2>3 DEF Inv, Hands, Bounded, ClosedStaysEmpty, shared
<1>6. ASSUME NEW c \in NestedCommands, RunPublishing(t, c)
      PROVE  Inv'
  <2>1. NewTicket(t, c) \in Ticket
    BY ClientAssumption DEF NewTicket, Ticket, Inv, TypeOK
  <2>2. /\ done' \in SUBSET (done \cup e.tickets \cup {NewTicket(t, c)})
        /\ abandoned' \in SUBSET (abandoned \cup {NewTicket(t, c)})
        /\ ops' = [ops EXCEPT ![t] = @ + 1]
        /\ UNCHANGED <<shared, pc, hand, claimed, lost, unreconciled>>
    BY <1>6 DEF RunPublishing, Count, e
  <2>3. TypeOK'
    BY <1>3, <1>4, <2>1, <2>2 DEF Inv, TypeOK, shared
  <2> QED
    BY <2>2, <2>3 DEF Inv, Hands, Bounded, ClosedStaysEmpty, shared
<1>7. CASE RunAgain(t)
  <2> DEFINE cmd   == [e.cmd EXCEPT !.attempt = IF t = Owner THEN @ + 1 ELSE @]
             again == [cmd |-> cmd, tickets |-> e.tickets, stale |-> FALSE]
  <2>1. t = Owner => cmd.attempt < MaxAttempts
    BY <1>7 DEF RunAgain, e
  <2>2. cmd \in Command
    BY <1>4, <2>1, BoundsAssumption DEF Command
  <2>3. again \in Entry
    BY <1>4, <2>2 DEF Entry
  <2>4. /\ \/ /\ shuttingDown
              /\ abandoned' = abandoned \cup e.tickets
              /\ UNCHANGED <<pending, lost>>
           \/ /\ ~shuttingDown
              /\ CanPush(pending, again)
              /\ pending' = Push(pending, again)
              /\ UNCHANGED <<abandoned, lost>>
           \/ /\ ~shuttingDown
              /\ lost' = lost \cup e.tickets
              /\ UNCHANGED <<pending, abandoned>>
        /\ UNCHANGED <<executing, shuttingDown, exec, pc, hand, claimed, ops,
                        done, unreconciled>>
    BY <1>7 DEF RunAgain, e
  <2> HIDE DEF again
  <2>5. pending \in Seq(Entry) /\ Within(pending)
    BY BoundedIsWithin DEF Inv, TypeOK
  <2>6. pending' \in Seq(Entry) /\ Within(pending')
    BY <2>3, <2>4, <2>5, PushType, PushWithin
  <2>7. TypeOK'
    BY <1>3, <1>4, <2>4, <2>6 DEF Inv, TypeOK
  <2>8. Bounded'
    BY <2>6, LenProperties DEF Bounded, Within
  <2>9. Hands' /\ ClosedStaysEmpty'
    BY <2>4 DEF Inv, Hands, ClosedStaysEmpty
  <2> QED
    BY <2>7, <2>8, <2>9 DEF Inv
<1> QED
  BY <1>5, <1>6, <1>7 DEF Run

LEMMA AgeStep ==
  ASSUME Inv, Age
  PROVE  Inv'
<1> DEFINE i   == First(Fresh)
           old == [pending[i] EXCEPT !.stale = TRUE]
<1>1. pending \in Seq(Entry) /\ Within(pending)
  BY BoundedIsWithin DEF Inv, TypeOK
<1>2. /\ pending' = [pending EXCEPT ![i] = old]
      /\ UNCHANGED <<executing, shuttingDown, exec, threads, history>>
  BY DEF Age
<1>3. pending' \in Seq(Entry) /\ Within(pending')
  <2>1. CASE i \in 1 .. Len(pending)
    <3>1. pending[i] \in Entry
      BY <1>1, <2>1, ElementOfSeq
    <3>2. old \in Entry /\ old.cmd = pending[i].cmd
      BY <3>1 DEF Entry
    <3> HIDE DEF i, old
    <3> QED
      BY <1>1, <1>2, <2>1, <3>2, ReplaceType DEF Within
  <2>2. CASE i \notin 1 .. Len(pending)
    <3>1. pending' = pending
      BY <1>1, <1>2, <2>2, LenProperties
    <3> QED
      BY <1>1, <3>1
  <2> QED
    BY <2>1, <2>2
<1>4. TypeOK' /\ Hands'
  BY <1>2, <1>3 DEF Inv, TypeOK, Hands, threads, history
<1>5. Bounded'
  BY <1>3, LenProperties DEF Bounded, Within
<1>6. ClosedStaysEmpty'
  BY <1>2 DEF Inv, ClosedStaysEmpty, Age, Fresh
<1> QED
  BY <1>4, <1>5, <1>6 DEF Inv

LEMMA InvStep == Inv /\ [Next]_vars => Inv'
<1> SUFFICES ASSUME Inv, [Next]_vars PROVE Inv'
  OBVIOUS
<1>1. ASSUME NEW t \in Threads, NEW b \in Batches, Submit(t, b)
      PROVE  Inv'
  BY <1>1, SubmitStep
<1>2. ASSUME NEW t \in Threads, Drain(t) \/ FlushStale(t)
      PROVE  Inv'
  <2>1. <<>> \in Seq(Entry)
    BY EmptySeq
  <2> QED
    BY <1>2, <2>1, ClaimStep DEF Drain, FlushStale
<1>3. ASSUME NEW t \in Threads, Proceed(t)
      PROVE  Inv'
  <2> USE DEF Inv, Bounded, ClosedStaysEmpty
  <2>1. CASE Abandon(t)
    <3>1. TicketsOf(hand[t]) \in SUBSET Ticket
      BY TicketsType DEF TypeOK
    <3>2. TypeOK'
      BY <2>1, <3>1, EmptySeq DEF Abandon, TypeOK, PC, shared
    <3>3. Hands'
      BY <2>1, EmptySeq DEF Abandon, TypeOK, Hands
    <3> QED
      BY <2>1, <3>2, <3>3 DEF Abandon, shared
  <2>2. CASE PushAccepted(t)
    BY <2>2, PushAcceptedStep
  <2>3. CASE PushRejected(t)
    BY <2>3 DEF PushRejected, TypeOK, Hands, PC, shared, history
  <2>4. CASE ClaimInline(t)
    <3>1. hand[t] \in Seq(Entry)
      BY DEF TypeOK
    <3> QED
      BY <2>4, <3>1, ClaimStep DEF ClaimInline
  <2>5. CASE JoinInline(t)
    <3>1. TypeOK'
      BY <2>5, EmptySeq DEF JoinInline, TypeOK, PC, shared, history
    <3>2. Hands'
      BY <2>5, EmptySeq DEF JoinInline, TypeOK, Hands
    <3> QED
      BY <2>5, <3>1, <3>2 DEF JoinInline, shared
  <2>6. CASE AcquireExec(t)
    BY <2>6 DEF AcquireExec, TypeOK, Hands, PC, history
  <2>7. CASE Run(t)
    BY <2>7, RunStep
  <2>8. CASE FinishBatch(t)
    BY <2>8, ThreadsAssumption
    DEF FinishBatch, Return, TypeOK, Hands, PC, history
  <2>9. CASE ReleaseExecuting(t)
    BY <2>9 DEF ReleaseExecuting, Return, TypeOK, Hands, PC, history
  <2> QED
    BY <1>3, <2>1, <2>2, <2>3, <2>4, <2>5, <2>6, <2>7, <2>8, <2>9 DEF Proceed
<1>4. CASE Shutdown
  <2>1. TicketsOf(pending) \in SUBSET Ticket
    BY TicketsType DEF Inv, TypeOK
  <2>2. TypeOK'
    BY <1>4, <2>1, EmptySeq DEF Inv, TypeOK, Shutdown, threads
  <2>3. Hands'
    BY <1>4 DEF Inv, Hands, Shutdown, threads
  <2>4. Bounded' /\ ClosedStaysEmpty'
    BY <1>4, EmptySeq, BoundsAssumption DEF Bounded, ClosedStaysEmpty, Shutdown
  <2> QED
    BY <2>2, <2>3, <2>4 DEF Inv
<1>5. CASE Age
  BY <1>5, AgeStep
<1>6. CASE UNCHANGED vars
  BY <1>6 DEF Inv, TypeOK, Hands, Bounded, ClosedStaysEmpty, vars, shared,
              threads, history
<1> QED
  BY <1>1, <1>2, <1>3, <1>4, <1>5, <1>6 DEF Next

\* Every record, batch and ticket is what its declaration says (Queue's members
\* and Command), retries and their attempt counter included.
THEOREM TypesAlways == Spec => []TypeOK
<1>1. Inv => TypeOK
  BY DEF Inv
<1> QED
  BY <1>1, InvInit, InvStep, PTL DEF Spec

\* Neither a batch, nor a merge, nor a retried compatibility step takes the
\* pending set past its capacity or a record past its id cap (applyPush).
THEOREM BoundedAlways == Spec => []Bounded
<1>1. Inv => Bounded
  BY DEF Inv
<1> QED
  BY <1>1, InvInit, InvStep, PTL DEF Spec

\* After shutdown nothing enters the pending set again, not even the retry of
\* a step that was claimed before (push and pushBatch under m_mutex).
THEOREM ClosedStaysEmptyAlways == Spec => []ClosedStaysEmpty
<1>1. Inv => ClosedStaysEmpty
  BY DEF Inv
<1> QED
  BY <1>1, InvInit, InvStep, PTL DEF Spec

-----------------------------------------------------------------------------
(***************************************************************************)
(* The first of a set of places.                                           *)
(***************************************************************************)

LEMMA FirstIsIn ==
  ASSUME NEW S \in SUBSET Nat, S # {}
  PROVE  First(S) \in S /\ \A j \in S : First(S) <= j
<1>1. \E i \in S : \A j \in S : ~(<<j, i>> \in OpToRel(<, Nat))
  BY NatLessThanWellFounded, WFMin
<1>2. PICK i \in S : \A j \in S : ~(<<j, i>> \in OpToRel(<, Nat))
  BY <1>1
<1>3. ASSUME NEW j \in S PROVE i <= j
  <2>1. ~(j < i)
    BY <1>2 DEF OpToRel
  <2> QED
    BY <2>1
<1> QED
  BY <1>3 DEF First

\* A push appends the record, or rewrites the first one that absorbs it.
LEMMA PushCases ==
  ASSUME NEW q \in Seq(Entry), NEW e \in Entry
  PROVE  \/ /\ Absorbing(q, e.cmd) = {}
            /\ Push(q, e) = Append(q, e)
         \/ \E i \in 1 .. Len(q) :
              /\ i \in Absorbing(q, e.cmd)
              /\ Push(q, e) = [q EXCEPT ![i] = Coalesce(q[i], e)]
<1> DEFINE hits == Absorbing(q, e.cmd)
<1>1. hits \in SUBSET (1 .. Len(q))
  BY LenProperties DEF Absorbing
<1>2. CASE hits = {}
  BY <1>2 DEF Push
<1>3. CASE hits # {}
  <2>1. First(hits) \in hits
    <3>1. hits \in SUBSET Nat
      BY <1>1, LenProperties
    <3> HIDE DEF hits
    <3> QED
      BY <1>3, <3>1, FirstIsIn
  <2>2. Push(q, e) = [q EXCEPT ![First(hits)] = Coalesce(q[First(hits)], e)]
    BY <1>3 DEF Push
  <2> QED
    BY <1>1, <2>1, <2>2
<1> QED
  BY <1>2, <1>3

-----------------------------------------------------------------------------
(***************************************************************************)
(* The tickets of a sequence of records, and that no two records share one.*)
(***************************************************************************)

Apart(q) == \A i, j \in DOMAIN q : i # j => q[i].tickets \cap q[j].tickets = {}

LEMMA TicketsIn ==
  ASSUME NEW q \in Seq(Entry), NEW tk
  PROVE  tk \in TicketsOf(q) <=> \E i \in 1 .. Len(q) : tk \in q[i].tickets
BY LenProperties DEF TicketsOf

LEMMA ApartIn ==
  ASSUME NEW q \in Seq(Entry)
  PROVE  Apart(q) <=> \A i, j \in 1 .. Len(q) : \A tk :
                        tk \in q[i].tickets /\ tk \in q[j].tickets => i = j
BY LenProperties DEF Apart

LEMMA NoTickets == TicketsOf(<<>>) = {} /\ Apart(<<>>)
BY DEF TicketsOf, Apart

LEMMA ConcatTickets ==
  ASSUME NEW q \in Seq(Entry), NEW r \in Seq(Entry)
  PROVE  /\ TicketsOf(q \o r) = TicketsOf(q) \cup TicketsOf(r)
         /\ Apart(q) /\ Apart(r) /\ TicketsOf(q) \cap TicketsOf(r) = {}
              => Apart(q \o r)
<1> DEFINE s == q \o r
<1>1. /\ s \in Seq(Entry)
      /\ Len(s) = Len(q) + Len(r)
      /\ \A i \in 1 .. Len(s) : s[i] = IF i <= Len(q) THEN q[i] ELSE r[i - Len(q)]
  BY ConcatProperties
<1>2. Len(q) \in Nat /\ Len(r) \in Nat
  BY LenProperties
<1>3. \A i \in 1 .. Len(q) : i \in 1 .. Len(s) /\ s[i] = q[i]
  BY <1>1, <1>2
<1>4. \A i \in 1 .. Len(r) : Len(q) + i \in 1 .. Len(s) /\ s[Len(q) + i] = r[i]
  BY <1>1, <1>2
<1>5. \A i \in 1 .. Len(s) : \/ i \in 1 .. Len(q) /\ s[i] = q[i]
                             \/ i - Len(q) \in 1 .. Len(r) /\ s[i] = r[i - Len(q)]
  BY <1>1, <1>2
<1> HIDE DEF s
<1>6. TicketsOf(s) = TicketsOf(q) \cup TicketsOf(r)
  <2>1. ASSUME NEW tk PROVE tk \in TicketsOf(s) <=> tk \in TicketsOf(q) \cup TicketsOf(r)
    <3>1. /\ tk \in TicketsOf(s) <=> \E i \in 1 .. Len(s) : tk \in s[i].tickets
          /\ tk \in TicketsOf(q) <=> \E i \in 1 .. Len(q) : tk \in q[i].tickets
          /\ tk \in TicketsOf(r) <=> \E i \in 1 .. Len(r) : tk \in r[i].tickets
      BY <1>1, TicketsIn
    <3> QED
      BY <1>3, <1>4, <1>5, <3>1
  <2> QED
    BY <2>1
<1>7. ASSUME Apart(q), Apart(r), TicketsOf(q) \cap TicketsOf(r) = {}
      PROVE  Apart(s)
  <2>1. ASSUME NEW i \in 1 .. Len(s), NEW j \in 1 .. Len(s), NEW tk,
               tk \in s[i].tickets, tk \in s[j].tickets
        PROVE  i = j
    <3>1. /\ \A k \in 1 .. Len(q) : tk \in q[k].tickets => tk \in TicketsOf(q)
          /\ \A k \in 1 .. Len(r) : tk \in r[k].tickets => tk \in TicketsOf(r)
      BY TicketsIn
    <3>2. CASE i \in 1 .. Len(q) /\ s[i] = q[i]
      <4>1. j \in 1 .. Len(q) /\ s[j] = q[j]
        BY <1>5, <1>7, <2>1, <3>1, <3>2
      <4> QED
        BY <1>7, <2>1, <3>2, <4>1, ApartIn
    <3>3. CASE i - Len(q) \in 1 .. Len(r) /\ s[i] = r[i - Len(q)]
      <4>1. j - Len(q) \in 1 .. Len(r) /\ s[j] = r[j - Len(q)]
        BY <1>5, <1>7, <2>1, <3>1, <3>3
      <4>2. i - Len(q) = j - Len(q)
        BY <1>7, <2>1, <3>3, <4>1, ApartIn
      <4> QED
        BY <1>2, <4>2
    <3> QED
      BY <1>5, <3>2, <3>3
  <2> QED
    BY <1>1, <2>1, ApartIn
<1> QED
  BY <1>6, <1>7 DEF s

LEMMA TailTickets ==
  ASSUME NEW q \in Seq(Entry), q # <<>>
  PROVE  /\ TicketsOf(q) = Head(q).tickets \cup TicketsOf(Tail(q))
         /\ Apart(q) => /\ Apart(Tail(q))
                        /\ Head(q).tickets \cap TicketsOf(Tail(q)) = {}
<1> DEFINE s == Tail(q)
<1>1. /\ s \in Seq(Entry)
      /\ Len(s) = Len(q) - 1
      /\ \A i \in 1 .. Len(s) : s[i] = q[i + 1]
  BY HeadTailProperties
<1>2. Len(q) \in Nat \ {0}
  BY EmptySeq
<1>3. Head(q) = q[1] /\ 1 \in 1 .. Len(q)
  BY <1>2
<1>4. \A i \in 1 .. Len(s) : i + 1 \in 1 .. Len(q) /\ s[i] = q[i + 1] /\ i + 1 # 1
  BY <1>1, <1>2
<1>5. \A i \in 1 .. Len(q) : i = 1 \/ (i - 1 \in 1 .. Len(s) /\ s[i - 1] = q[i])
  BY <1>1, <1>2
<1> HIDE DEF s
<1>6. ASSUME NEW tk
      PROVE  tk \in TicketsOf(q) <=> tk \in Head(q).tickets \/ tk \in TicketsOf(s)
  <2>1. /\ tk \in TicketsOf(s) <=> \E i \in 1 .. Len(s) : tk \in s[i].tickets
        /\ tk \in TicketsOf(q) <=> \E i \in 1 .. Len(q) : tk \in q[i].tickets
    BY <1>1, TicketsIn
  <2> QED
    BY <1>3, <1>4, <1>5, <2>1
<1>7. ASSUME Apart(q)
      PROVE  Apart(s) /\ Head(q).tickets \cap TicketsOf(s) = {}
  <2>1. \A i, j \in 1 .. Len(q) : \A tk :
           tk \in q[i].tickets /\ tk \in q[j].tickets => i = j
    BY <1>7, ApartIn
  <2>2. ASSUME NEW i \in 1 .. Len(s), NEW j \in 1 .. Len(s), NEW tk,
               tk \in s[i].tickets, tk \in s[j].tickets
        PROVE  i = j
    <3>1. i + 1 = j + 1
      BY <1>4, <2>1, <2>2
    <3> QED
      BY <3>1, <1>1, <1>2
  <2>3. ASSUME NEW tk, tk \in Head(q).tickets, tk \in TicketsOf(s)
        PROVE  FALSE
    <3>1. PICK i \in 1 .. Len(s) : tk \in s[i].tickets
      BY <1>1, <2>3, TicketsIn
    <3> QED
      BY <1>3, <1>4, <2>1, <2>3, <3>1
  <2> QED
    BY <1>1, <2>2, <2>3, ApartIn
<1> QED
  BY <1>6, <1>7 DEF s

LEMMA OneRecord ==
  ASSUME NEW e \in Entry
  PROVE  <<e>> \in Seq(Entry) /\ TicketsOf(<<e>>) = e.tickets /\ Apart(<<e>>)
<1>1. DOMAIN <<e>> = {1} /\ <<e>>[1] = e
  OBVIOUS
<1>2. <<e>> \in Seq(Entry)
  OBVIOUS
<1> QED
  BY <1>1, <1>2 DEF TicketsOf, Apart

LEMMA ReplaceTickets ==
  ASSUME NEW q \in Seq(Entry), NEW i \in 1 .. Len(q), NEW e \in Entry, NEW T,
         e.tickets = q[i].tickets \cup T
  PROVE  /\ TicketsOf([q EXCEPT ![i] = e]) = TicketsOf(q) \cup T
         /\ Apart(q) /\ T \cap TicketsOf(q) = {} => Apart([q EXCEPT ![i] = e])
<1> DEFINE s == [q EXCEPT ![i] = e]
<1>1. /\ s \in Seq(Entry)
      /\ Len(s) = Len(q)
      /\ \A j \in 1 .. Len(q) : s[j] = IF j = i THEN e ELSE q[j]
  BY ReplaceType
<1>2. \A tk : \A j \in 1 .. Len(q) :
        tk \in s[j].tickets <=> tk \in q[j].tickets \/ (j = i /\ tk \in T)
  BY <1>1
<1> HIDE DEF s
<1>3. ASSUME NEW tk
      PROVE  tk \in TicketsOf(s) <=> tk \in TicketsOf(q) \cup T
  <2>1. /\ tk \in TicketsOf(s) <=> \E j \in 1 .. Len(q) : tk \in s[j].tickets
        /\ tk \in TicketsOf(q) <=> \E j \in 1 .. Len(q) : tk \in q[j].tickets
    BY <1>1, TicketsIn
  <2> QED
    BY <1>2, <2>1
<1>4. ASSUME Apart(q), T \cap TicketsOf(q) = {}
      PROVE  Apart(s)
  <2>1. \A j, k \in 1 .. Len(q) : \A tk :
           tk \in q[j].tickets /\ tk \in q[k].tickets => j = k
    BY <1>4, ApartIn
  <2>2. \A tk \in T : \A j \in 1 .. Len(q) : tk \notin q[j].tickets
    BY <1>4, TicketsIn
  <2>3. ASSUME NEW j \in 1 .. Len(q), NEW k \in 1 .. Len(q), NEW tk,
               tk \in s[j].tickets, tk \in s[k].tickets
        PROVE  j = k
    BY <1>2, <2>1, <2>2, <2>3
  <2> QED
    BY <1>1, <2>3, ApartIn
<1> QED
  BY <1>3, <1>4 DEF s

LEMMA PushTickets ==
  ASSUME NEW q \in Seq(Entry), NEW e \in Entry
  PROVE  /\ TicketsOf(Push(q, e)) = TicketsOf(q) \cup e.tickets
         /\ Apart(q) /\ e.tickets \cap TicketsOf(q) = {} => Apart(Push(q, e))
<1>1. CASE Push(q, e) = Append(q, e)
  <2> DEFINE r == <<e>>
  <2>1. Push(q, e) = q \o r
    BY <1>1
  <2>2. r \in Seq(Entry) /\ TicketsOf(r) = e.tickets /\ Apart(r)
    BY OneRecord
  <2> HIDE DEF r
  <2>3. /\ TicketsOf(q \o r) = TicketsOf(q) \cup TicketsOf(r)
        /\ Apart(q) /\ Apart(r) /\ TicketsOf(q) \cap TicketsOf(r) = {}
             => Apart(q \o r)
    BY <2>2, ConcatTickets
  <2> QED
    BY <2>1, <2>2, <2>3
<1>2. ASSUME NEW i \in 1 .. Len(q),
             Push(q, e) = [q EXCEPT ![i] = Coalesce(q[i], e)]
      PROVE  /\ TicketsOf(Push(q, e)) = TicketsOf(q) \cup e.tickets
             /\ Apart(q) /\ e.tickets \cap TicketsOf(q) = {} => Apart(Push(q, e))
  <2>1. q[i] \in Entry
    BY ElementOfSeq
  <2>2. Coalesce(q[i], e) \in Entry
    BY <2>1, CoalesceType
  <2>3. Coalesce(q[i], e).tickets = q[i].tickets \cup e.tickets
    BY <2>1 DEF Coalesce, Entry
  <2> DEFINE f == Coalesce(q[i], e)
             T == e.tickets
  <2>4. f \in Entry /\ f.tickets = q[i].tickets \cup T
    BY <2>2, <2>3
  <2> HIDE DEF f, T
  <2>5. /\ TicketsOf([q EXCEPT ![i] = f]) = TicketsOf(q) \cup T
        /\ Apart(q) /\ T \cap TicketsOf(q) = {} => Apart([q EXCEPT ![i] = f])
    BY <2>4, ReplaceTickets
  <2> QED
    BY <1>2, <2>5 DEF f, T
<1> QED
  BY <1>1, <1>2, PushCases

\* A batch of one or two records.
LEMMA BatchRecords ==
  ASSUME NEW b \in Seq(Entry), Len(b) \in {1, 2}
  PROVE  /\ Len(b) = 1 \/ Len(b) = 2
         /\ b # <<>>
         /\ b[1] \in Entry
         /\ Len(b) = 2 => b[2] \in Entry
BY ElementOfSeq, EmptySeq

LEMMA PushBatchTickets ==
  ASSUME NEW q \in Seq(Entry), NEW b \in Seq(Entry), Len(b) \in {1, 2}
  PROVE  /\ TicketsOf(PushBatch(q, b)) = TicketsOf(q) \cup TicketsOf(b)
         /\ Apart(q) /\ Apart(b) /\ TicketsOf(b) \cap TicketsOf(q) = {}
              => Apart(PushBatch(q, b))
<1>1. b[1] \in Entry /\ Push(q, b[1]) \in Seq(Entry)
  BY ElementOfSeq, PushType
<1>2. CASE Len(b) = 1
  <2>1. TicketsOf(b) = b[1].tickets
    BY <1>2, LenProperties DEF TicketsOf
  <2> QED
    BY <1>1, <1>2, <2>1, PushTickets DEF PushBatch
<1>3. CASE Len(b) = 2
  <2>1. b[2] \in Entry
    <3>1. 2 \in 1 .. Len(b)
      BY <1>3
    <3> QED
      BY <3>1, ElementOfSeq
  <2>2. \A tk : tk \in TicketsOf(b) <=> tk \in b[1].tickets \/ tk \in b[2].tickets
    BY <1>3, TicketsIn
  <2>3. Apart(b) => b[1].tickets \cap b[2].tickets = {}
    BY <1>3, LenProperties DEF Apart
  <2>4. /\ TicketsOf(Push(q, b[1])) = TicketsOf(q) \cup b[1].tickets
        /\ Apart(q) /\ b[1].tickets \cap TicketsOf(q) = {} => Apart(Push(q, b[1]))
    BY <1>1, PushTickets
  <2>5. /\ TicketsOf(PushBatch(q, b)) = TicketsOf(Push(q, b[1])) \cup b[2].tickets
        /\ Apart(Push(q, b[1])) /\ b[2].tickets \cap TicketsOf(Push(q, b[1])) = {}
             => Apart(PushBatch(q, b))
    BY <1>1, <1>3, <2>1, PushTickets DEF PushBatch
  <2>6. TicketsOf(PushBatch(q, b)) = TicketsOf(q) \cup TicketsOf(b)
    BY <2>2, <2>4, <2>5
  <2>7. ASSUME Apart(q), Apart(b), TicketsOf(b) \cap TicketsOf(q) = {}
        PROVE  Apart(PushBatch(q, b))
    <3>1. b[1].tickets \cap TicketsOf(q) = {}
      BY <2>2, <2>7
    <3>2. b[2].tickets \cap TicketsOf(Push(q, b[1])) = {}
      BY <2>2, <2>3, <2>4, <2>7
    <3> QED
      BY <2>4, <2>5, <2>7, <3>1, <3>2
  <2> QED
    BY <2>6, <2>7
<1> QED
  BY <1>2, <1>3

\* Growing stale moves no ticket.
LEMMA AgeTickets ==
  ASSUME pending \in Seq(Entry), Age
  PROVE  /\ TicketsOf(pending') = TicketsOf(pending)
         /\ Apart(pending) => Apart(pending')
<1> DEFINE i == First(Fresh)
           e == [pending[i] EXCEPT !.stale = TRUE]
<1>1. Fresh # {} /\ pending' = [pending EXCEPT ![i] = e]
  BY DEF Age
<1>2. i \in 1 .. Len(pending)
  <2>1. Fresh \in SUBSET (1 .. Len(pending)) /\ Fresh \in SUBSET Nat
    BY LenProperties DEF Fresh
  <2>2. First(Fresh) \in Fresh
    BY <1>1, <2>1, FirstIsIn
  <2> QED
    BY <2>1, <2>2
<1>3. pending[i] \in Entry
  BY <1>2, ElementOfSeq
<1>4. e \in Entry /\ e.tickets = pending[i].tickets \cup {}
  BY <1>3 DEF Entry
<1> HIDE DEF i, e
<1>5. /\ TicketsOf([pending EXCEPT ![i] = e]) = TicketsOf(pending) \cup {}
      /\ Apart(pending) /\ {} \cap TicketsOf(pending) = {}
           => Apart([pending EXCEPT ![i] = e])
  BY <1>2, <1>4, ReplaceTickets
<1> QED
  BY <1>1, <1>5

\* The tickets of a batch that is submitted: one for each command, numbered
\* past every ticket of the thread so far.
LEMMA NewTickets ==
  ASSUME NEW t \in Threads, NEW b \in Batches
  PROVE  LET h == [i \in DOMAIN b |-> NewEntry(t, b[i])]
         IN  /\ Apart(h)
             /\ \A tk \in TicketsOf(h) : tk.by = t /\ tk.n = ops[t] + 1
<1> DEFINE h == [i \in DOMAIN b |-> NewEntry(t, b[i])]
<1>1. b \in Seq(Command) /\ Len(b) \in {1, 2} /\ DOMAIN b = 1 .. Len(b)
  BY ClientAssumption, LenProperties
<1>2. \A i \in 1 .. Len(b) : h[i].tickets = {NewTicket(t, b[i])}
  BY <1>1 DEF NewEntry
<1>3. \A i \in DOMAIN h : h[i].tickets = {NewTicket(t, b[i])} /\ i \in 1 .. Len(b)
  BY <1>1, <1>2
<1>4. \A i, j \in 1 .. Len(b) : i # j => b[i] # b[j]
  <2>1. Len(b) = 2 => b[1].kind # b[2].kind
    BY HotAddAssumption
  <2>2. \A i, j \in 1 .. Len(b) : i # j => Len(b) = 2 /\ {i, j} = {1, 2}
    BY <1>1
  <2> QED
    BY <2>1, <2>2
<1>5. \A i, j \in 1 .. Len(b) : i # j => NewTicket(t, b[i]) # NewTicket(t, b[j])
  BY <1>4 DEF NewTicket
<1> HIDE DEF h
<1>6. Apart(h)
  BY <1>3, <1>5 DEF Apart
<1>7. \A tk \in TicketsOf(h) : tk.by = t /\ tk.n = ops[t] + 1
  BY <1>3 DEF TicketsOf, NewTicket
<1> QED
  BY <1>6, <1>7 DEF h

-----------------------------------------------------------------------------
(***************************************************************************)
(* Where the tickets are.  A thread outside a call has nothing in hand and *)
(* nothing to run, so what it takes up next displaces nothing; and every   *)
(* ticket in use is numbered up to ops, so the next one is new.            *)
(***************************************************************************)

Idle ==
  \A t \in Threads : /\ pc[t] = "out" => hand[t] = <<>>
                     /\ pc[t] \notin {"exec", "run"} => batch[t] = <<>>

Records ==
  /\ Apart(pending)
  /\ \A t \in Threads : Apart(hand[t]) /\ Apart(batch[t])

OnePlace ==
  /\ \A t \in Threads : /\ TicketsOf(pending) \cap TicketsOf(hand[t]) = {}
                        /\ TicketsOf(pending) \cap TicketsOf(batch[t]) = {}
  /\ \A t, u \in Threads : TicketsOf(hand[t]) \cap TicketsOf(batch[u]) = {}
  /\ \A t, u \in Threads : t # u =>
       /\ TicketsOf(hand[t]) \cap TicketsOf(hand[u]) = {}
       /\ TicketsOf(batch[t]) \cap TicketsOf(batch[u]) = {}

Settled == done \cup abandoned \cup lost

SettledOnce ==
  /\ TicketsOf(pending) \cap Settled = {}
  /\ \A t \in Threads : /\ TicketsOf(hand[t]) \cap Settled = {}
                        /\ TicketsOf(batch[t]) \cap Settled = {}
  /\ done \cap abandoned = {} /\ done \cap lost = {} /\ abandoned \cap lost = {}

Numbered ==
  /\ \A tk \in TicketsOf(pending) \cup Settled : tk.n <= ops[tk.by]
  /\ \A t \in Threads : \A tk \in TicketsOf(hand[t]) \cup TicketsOf(batch[t]) :
       tk.n <= ops[tk.by]

Places == Idle /\ Records /\ OnePlace /\ SettledOnce /\ Numbered

LEMMA LiveIn ==
  \A tk : tk \in Live <=> \/ tk \in TicketsOf(pending)
                          \/ \E t \in Threads : \/ tk \in TicketsOf(hand[t])
                                                \/ tk \in TicketsOf(batch[t])
<1>1. /\ \A x \in DOMAIN Queues :
           \/ x = <<"pending", NoThread>>
           \/ \E t \in Threads : x = <<"hand", t>> \/ x = <<"batch", t>>
      /\ <<"pending", NoThread>> \in DOMAIN Queues
      /\ \A t \in Threads : <<"hand", t>> \in DOMAIN Queues
                            /\ <<"batch", t>> \in DOMAIN Queues
  BY DEF Queues
<1>2. /\ Queues[<<"pending", NoThread>>] = pending
      /\ \A t \in Threads : Queues[<<"hand", t>>] = hand[t]
                            /\ Queues[<<"batch", t>>] = batch[t]
  BY DEF Queues
<1>3. \A tk : tk \in Live <=> \E x \in DOMAIN Queues : tk \in TicketsOf(Queues[x])
  BY DEF Live
<1>4. ASSUME NEW tk, NEW x \in DOMAIN Queues, tk \in TicketsOf(Queues[x])
      PROVE  \/ tk \in TicketsOf(pending)
             \/ \E t \in Threads : \/ tk \in TicketsOf(hand[t])
                                   \/ tk \in TicketsOf(batch[t])
  BY <1>1, <1>2, <1>4
<1>5. ASSUME NEW tk,
             \/ tk \in TicketsOf(pending)
             \/ \E t \in Threads : \/ tk \in TicketsOf(hand[t])
                                   \/ tk \in TicketsOf(batch[t])
      PROVE  \E x \in DOMAIN Queues : tk \in TicketsOf(Queues[x])
  BY <1>1, <1>2, <1>5
<1> HIDE DEF Queues
<1> QED
  BY <1>3, <1>4, <1>5

LEMMA LiveInNext ==
  \A tk : tk \in Live' <=> \/ tk \in TicketsOf(pending')
                           \/ \E t \in Threads : \/ tk \in TicketsOf(hand'[t])
                                                 \/ tk \in TicketsOf(batch'[t])
<1>1. /\ \A x \in DOMAIN Queues' :
           \/ x = <<"pending", NoThread>>
           \/ \E t \in Threads : x = <<"hand", t>> \/ x = <<"batch", t>>
      /\ <<"pending", NoThread>> \in DOMAIN Queues'
      /\ \A t \in Threads : <<"hand", t>> \in DOMAIN Queues'
                            /\ <<"batch", t>> \in DOMAIN Queues'
  BY DEF Queues
<1>2. /\ Queues'[<<"pending", NoThread>>] = pending'
      /\ \A t \in Threads : Queues'[<<"hand", t>>] = hand'[t]
                            /\ Queues'[<<"batch", t>>] = batch'[t]
  BY DEF Queues
<1>3. \A tk : tk \in Live' <=> \E x \in DOMAIN Queues' : tk \in TicketsOf(Queues'[x])
  BY DEF Live
<1>4. ASSUME NEW tk, NEW x \in DOMAIN Queues', tk \in TicketsOf(Queues'[x])
      PROVE  \/ tk \in TicketsOf(pending')
             \/ \E t \in Threads : \/ tk \in TicketsOf(hand'[t])
                                   \/ tk \in TicketsOf(batch'[t])
  BY <1>1, <1>2, <1>4
<1>5. ASSUME NEW tk,
             \/ tk \in TicketsOf(pending')
             \/ \E t \in Threads : \/ tk \in TicketsOf(hand'[t])
                                   \/ tk \in TicketsOf(batch'[t])
      PROVE  \E x \in DOMAIN Queues' : tk \in TicketsOf(Queues'[x])
  BY <1>1, <1>2, <1>5
<1> HIDE DEF Queues
<1> QED
  BY <1>3, <1>4, <1>5

LEMMA PlacesImplyExactlyOnce == Places => ExactlyOnce
<1> SUFFICES ASSUME Places PROVE ExactlyOnce
  OBVIOUS
<1>1. /\ \A x \in DOMAIN Queues :
           \/ x = <<"pending", NoThread>>
           \/ \E t \in Threads : x = <<"hand", t>> \/ x = <<"batch", t>>
  BY DEF Queues
<1>2. /\ Queues[<<"pending", NoThread>>] = pending
      /\ \A t \in Threads : Queues[<<"hand", t>>] = hand[t]
                            /\ Queues[<<"batch", t>>] = batch[t]
  BY DEF Queues
<1>3. \A x, y \in DOMAIN Queues :
        x # y => TicketsOf(Queues[x]) \cap TicketsOf(Queues[y]) = {}
  <2> SUFFICES ASSUME NEW x \in DOMAIN Queues, NEW y \in DOMAIN Queues, x # y
               PROVE  TicketsOf(Queues[x]) \cap TicketsOf(Queues[y]) = {}
    OBVIOUS
  <2>0. OnePlace
    BY DEF Places
  <2>1. ASSUME NEW t \in Threads, y = <<"hand", t>> \/ y = <<"batch", t>>,
               x = <<"pending", NoThread>>
        PROVE  TicketsOf(Queues[x]) \cap TicketsOf(Queues[y]) = {}
    BY <1>2, <2>0, <2>1 DEF OnePlace
  <2>2. ASSUME NEW t \in Threads, x = <<"hand", t>> \/ x = <<"batch", t>>,
               y = <<"pending", NoThread>>
        PROVE  TicketsOf(Queues[x]) \cap TicketsOf(Queues[y]) = {}
    BY <1>2, <2>0, <2>2 DEF OnePlace
  <2>3. ASSUME NEW t \in Threads, NEW u \in Threads,
               x = <<"hand", t>> \/ x = <<"batch", t>>,
               y = <<"hand", u>> \/ y = <<"batch", u>>
        PROVE  TicketsOf(Queues[x]) \cap TicketsOf(Queues[y]) = {}
    <3>1. CASE x = <<"hand", t>> /\ y = <<"hand", u>>
      BY <1>2, <2>0, <3>1 DEF OnePlace
    <3>2. CASE x = <<"hand", t>> /\ y = <<"batch", u>>
      BY <1>2, <2>0, <3>2 DEF OnePlace
    <3>3. CASE x = <<"batch", t>> /\ y = <<"hand", u>>
      BY <1>2, <2>0, <3>3 DEF OnePlace
    <3>4. CASE x = <<"batch", t>> /\ y = <<"batch", u>>
      BY <1>2, <2>0, <3>4 DEF OnePlace
    <3> QED
      BY <2>3, <3>1, <3>2, <3>3, <3>4
  <2>4. /\ x = <<"pending", NoThread>>
           \/ \E t \in Threads : x = <<"hand", t>> \/ x = <<"batch", t>>
        /\ y = <<"pending", NoThread>>
           \/ \E t \in Threads : y = <<"hand", t>> \/ y = <<"batch", t>>
    BY <1>1
  <2> QED
    BY <2>1, <2>2, <2>3, <2>4
<1>4. \A x \in DOMAIN Queues : \A i, j \in DOMAIN Queues[x] :
        i # j => Queues[x][i].tickets \cap Queues[x][j].tickets = {}
  <2>1. \A x \in DOMAIN Queues : Apart(Queues[x])
    BY <1>1, <1>2 DEF Places, Records
  <2> QED
    BY <2>1 DEF Apart
<1>5. Live \cap (done \cup abandoned \cup lost) = {}
  BY LiveIn DEF Places, SettledOnce, Settled
<1>6. done \cap abandoned = {} /\ done \cap lost = {} /\ abandoned \cap lost = {}
  BY DEF Places, SettledOnce
<1> QED
  BY <1>3, <1>4, <1>5, <1>6 DEF ExactlyOnce

LEMMA PlacesInit == Init => Places
<1> SUFFICES ASSUME Init PROVE Places
  OBVIOUS
<1>1. /\ pending = <<>> /\ done = {} /\ abandoned = {} /\ lost = {}
      /\ \A t \in Threads : hand[t] = <<>> /\ batch[t] = <<>>
  BY DEF Init
<1> QED
  BY <1>1, NoTickets
  DEF Places, Idle, Records, OnePlace, SettledOnce, Settled, Numbered

-----------------------------------------------------------------------------
(***************************************************************************)
(* Every step keeps Places, and every ticket that was somewhere still is.  *)
(***************************************************************************)

Kept ==
  (Live \cup done \cup abandoned \cup lost)
     \subseteq (Live \cup done \cup abandoned \cup lost)'

\* What there is to show of a step, in terms of the tickets of the places.
LEMMA KeptWhere ==
  ASSUME \A tk \in TicketsOf(pending) \cup Settled :
           \/ tk \in TicketsOf(pending') \/ tk \in Settled'
           \/ \E u \in Threads : tk \in TicketsOf(hand'[u]) \cup TicketsOf(batch'[u]),
         \A t \in Threads : \A tk \in TicketsOf(hand[t]) \cup TicketsOf(batch[t]) :
           \/ tk \in TicketsOf(pending') \/ tk \in Settled'
           \/ \E u \in Threads : tk \in TicketsOf(hand'[u]) \cup TicketsOf(batch'[u])
  PROVE  Kept
<1>1. ASSUME NEW tk, tk \in Live \cup done \cup abandoned \cup lost
      PROVE  \/ tk \in TicketsOf(pending') \/ tk \in Settled'
             \/ \E u \in Threads : tk \in TicketsOf(hand'[u]) \cup TicketsOf(batch'[u])
  <2>1. CASE tk \in Live
    BY <2>1, LiveIn
  <2>2. CASE tk \notin Live
    BY <1>1, <2>2 DEF Settled
  <2> QED
    BY <2>1, <2>2
<1>2. ASSUME NEW tk,
             \/ tk \in TicketsOf(pending') \/ tk \in Settled'
             \/ \E u \in Threads : tk \in TicketsOf(hand'[u]) \cup TicketsOf(batch'[u])
      PROVE  tk \in Live' \cup done' \cup abandoned' \cup lost'
  <2>1. CASE tk \in Settled'
    BY <2>1 DEF Settled
  <2>2. CASE tk \notin Settled'
    BY <1>2, <2>2, LiveInNext
  <2> QED
    BY <2>1, <2>2
<1> QED
  BY <1>1, <1>2 DEF Kept

LEMMA TicketsTyped ==
  ASSUME TypeOK
  PROVE  /\ TicketsOf(pending) \cup Settled \in SUBSET Ticket
         /\ \A t \in Threads :
              TicketsOf(hand[t]) \cup TicketsOf(batch[t]) \in SUBSET Ticket
BY TicketsType DEF TypeOK, Settled

LEMMA SubmitPlaces ==
  ASSUME TypeOK, Places, NEW t \in Threads, NEW b \in Batches, Submit(t, b)
  PROVE  Places' /\ Kept
<1> DEFINE h == [i \in DOMAIN b |-> NewEntry(t, b[i])]
<1>1. /\ pc[t] = "out" /\ hand[t] = <<>>
      /\ hand' = [hand EXCEPT ![t] = h]
      /\ pc' = [pc EXCEPT ![t] = "hand"]
      /\ ops' = [ops EXCEPT ![t] = @ + 1]
      /\ UNCHANGED <<pending, batch, done, abandoned, lost>>
  BY DEF Submit, Count, Places, Idle, shared, history
<1>2. Apart(h) /\ \A tk \in TicketsOf(h) : tk.by = t /\ tk.n = ops[t] + 1
  BY NewTickets
<1> HIDE DEF h
<1>3. /\ hand'[t] = h /\ \A u \in Threads \ {t} : hand'[u] = hand[u]
      /\ ops'[t] = ops[t] + 1 /\ ops[t] \in Nat
      /\ \A u \in Threads \ {t} : ops'[u] = ops[u]
  BY <1>1 DEF TypeOK
<1>4. TicketsOf(hand[t]) = {}
  BY <1>1, NoTickets
<1>5. /\ TicketsOf(h) \cap (TicketsOf(pending) \cup Settled) = {}
      /\ \A u \in Threads :
           TicketsOf(h) \cap (TicketsOf(hand[u]) \cup TicketsOf(batch[u])) = {}
  BY <1>2, <1>3 DEF Places, Numbered
<1>6. Idle'
  BY <1>1, <1>3 DEF Places, Idle, TypeOK
<1>7. Records'
  BY <1>1, <1>2, <1>3 DEF Places, Records
<1>8. OnePlace'
  <2> USE DEF Places, OnePlace
  <2>1. \A u \in Threads : /\ TicketsOf(pending) \cap TicketsOf(hand'[u]) = {}
                           /\ TicketsOf(pending) \cap TicketsOf(batch[u]) = {}
    BY <1>3, <1>5
  <2>2. \A u, v \in Threads : TicketsOf(hand'[u]) \cap TicketsOf(batch[v]) = {}
    BY <1>3, <1>5
  <2>3. \A u, v \in Threads : u # v => TicketsOf(hand'[u]) \cap TicketsOf(hand'[v]) = {}
    BY <1>3, <1>5
  <2> QED
    BY <1>1, <2>1, <2>2, <2>3
<1>9. Settled' = Settled
  BY <1>1 DEF Settled
<1>10. SettledOnce'
  BY <1>1, <1>3, <1>5, <1>9 DEF Places, SettledOnce
<1>11. Numbered'
  <2>1. \A tk \in Ticket : tk.n <= ops[tk.by] => tk.n <= ops'[tk.by]
    <3> SUFFICES ASSUME NEW tk \in Ticket, tk.n <= ops[tk.by]
                 PROVE  tk.n <= ops'[tk.by]
      OBVIOUS
    <3>1. tk.by \in Threads /\ tk.n \in Nat
      BY DEF Ticket
    <3> QED
      BY <1>3, <3>1
  <2> QED
    BY <1>1, <1>2, <1>3, <1>9, <2>1, TicketsTyped DEF Places, Numbered
<1>12. Kept
  BY <1>1, <1>3, <1>4, <1>9, KeptWhere
<1> QED
  BY <1>6, <1>7, <1>8, <1>10, <1>11, <1>12 DEF Places

\* The batch in hand joins the pending set, is given up, or stays.
LEMMA PushAcceptedPlaces ==
  ASSUME TypeOK, Hands, Places, NEW t \in Threads, PushAccepted(t)
  PROVE  Places' /\ Kept
<1>1. /\ pc[t] \in {"hand", "swept"}
      /\ pending' = PushBatch(pending, hand[t])
      /\ hand' = [hand EXCEPT ![t] = <<>>]
      /\ pc' = [pc EXCEPT ![t] = "out"]
      /\ UNCHANGED <<batch, ops, done, abandoned, lost>>
  BY DEF PushAccepted, history
<1>2. hand[t] \in Seq(Entry) /\ Len(hand[t]) \in {1, 2} /\ pending \in Seq(Entry)
  BY <1>1, HandLength DEF TypeOK
<1>3. Apart(pending) /\ Apart(hand[t]) /\ TicketsOf(hand[t]) \cap TicketsOf(pending) = {}
  BY DEF Places, Records, OnePlace
<1>4. TicketsOf(pending') = TicketsOf(pending) \cup TicketsOf(hand[t]) /\ Apart(pending')
  BY <1>1, <1>2, <1>3, PushBatchTickets
<1>5. /\ hand'[t] = <<>> /\ TicketsOf(hand'[t]) = {} /\ Apart(hand'[t])
      /\ \A u \in Threads \ {t} : hand'[u] = hand[u]
  BY <1>1, NoTickets DEF TypeOK
<1>6. Settled' = Settled
  BY <1>1 DEF Settled
<1>7. Idle'
  BY <1>1, <1>5 DEF Places, Idle, TypeOK
<1>8. Records'
  BY <1>1, <1>4, <1>5 DEF Places, Records
<1>9. OnePlace'
  <2> USE DEF Places, OnePlace
  <2>1. \A u \in Threads : /\ TicketsOf(pending') \cap TicketsOf(hand'[u]) = {}
                           /\ TicketsOf(pending') \cap TicketsOf(batch[u]) = {}
    BY <1>4, <1>5
  <2>2. \A u, v \in Threads : TicketsOf(hand'[u]) \cap TicketsOf(batch[v]) = {}
    BY <1>5
  <2>3. \A u, v \in Threads : u # v => TicketsOf(hand'[u]) \cap TicketsOf(hand'[v]) = {}
    BY <1>5
  <2> QED
    BY <1>1, <2>1, <2>2, <2>3
<1>10. SettledOnce'
  BY <1>1, <1>4, <1>5, <1>6 DEF Places, SettledOnce
<1>11. Numbered'
  BY <1>1, <1>4, <1>5, <1>6 DEF Places, Numbered
<1>12. Kept
  BY <1>1, <1>4, <1>5, <1>6, KeptWhere
<1> QED
  BY <1>7, <1>8, <1>9, <1>10, <1>11, <1>12 DEF Places

LEMMA AbandonPlaces ==
  ASSUME TypeOK, Places, NEW t \in Threads, Abandon(t)
  PROVE  Places' /\ Kept
<1>1. /\ pc[t] = "hand"
      /\ abandoned' = abandoned \cup TicketsOf(hand[t])
      /\ hand' = [hand EXCEPT ![t] = <<>>]
      /\ pc' = [pc EXCEPT ![t] = "out"]
      /\ UNCHANGED <<pending, batch, ops, done, lost>>
  BY DEF Abandon, shared
<1>2. /\ hand'[t] = <<>> /\ TicketsOf(hand'[t]) = {} /\ Apart(hand'[t])
      /\ \A u \in Threads \ {t} : hand'[u] = hand[u]
  BY <1>1, NoTickets DEF TypeOK
<1>3. Settled' = Settled \cup TicketsOf(hand[t])
  BY <1>1 DEF Settled
<1>4. TicketsOf(hand[t]) \cap (done \cup abandoned \cup lost) = {}
  BY DEF Places, SettledOnce, Settled
<1>5. Idle'
  BY <1>1, <1>2 DEF Places, Idle, TypeOK
<1>6. Records'
  BY <1>1, <1>2 DEF Places, Records
<1>7. OnePlace'
  <2> USE DEF Places, OnePlace
  <2>1. \A u \in Threads : TicketsOf(pending) \cap TicketsOf(hand'[u]) = {}
    BY <1>2
  <2>2. \A u, v \in Threads : TicketsOf(hand'[u]) \cap TicketsOf(batch[v]) = {}
    BY <1>2
  <2>3. \A u, v \in Threads : u # v => TicketsOf(hand'[u]) \cap TicketsOf(hand'[v]) = {}
    BY <1>2
  <2> QED
    BY <1>1, <2>1, <2>2, <2>3
<1>8. SettledOnce'
  <2>1. /\ TicketsOf(pending) \cap Settled' = {}
        /\ \A u \in Threads : /\ TicketsOf(hand'[u]) \cap Settled' = {}
                              /\ TicketsOf(batch[u]) \cap Settled' = {}
    BY <1>2, <1>3 DEF Places, SettledOnce, OnePlace
  <2>2. /\ done' \cap abandoned' = {} /\ done' \cap lost' = {}
        /\ abandoned' \cap lost' = {}
    BY <1>1, <1>4 DEF Places, SettledOnce
  <2> QED
    BY <1>1, <2>1, <2>2 DEF SettledOnce
<1>9. Numbered'
  BY <1>1, <1>2, <1>3 DEF Places, Numbered
<1>10. Kept
  BY <1>1, <1>2, <1>3, KeptWhere
<1> QED
  BY <1>5, <1>6, <1>7, <1>8, <1>9, <1>10 DEF Places

\* Only where a thread stands changes.
LEMMA StandPlaces ==
  ASSUME TypeOK, Places, Idle',
         UNCHANGED <<pending, hand, batch, ops, done, abandoned, lost>>
  PROVE  Places' /\ Kept
<1>1. Settled' = Settled
  BY DEF Settled
<1>2. Records' /\ OnePlace' /\ SettledOnce' /\ Numbered'
  BY <1>1 DEF Places, Records, OnePlace, SettledOnce, Numbered
<1>3. Kept
  BY <1>1, KeptWhere
<1> QED
  BY <1>2, <1>3 DEF Places

\* The whole pending set goes to the claimant, with its own batch behind it.
LEMMA ClaimPlaces ==
  ASSUME TypeOK, Places, NEW t \in Threads, NEW extra \in Seq(Entry),
         Claim(t, extra), pc[t] \notin {"exec", "run"},
         \/ extra = <<>> /\ hand' = hand
         \/ extra = hand[t] /\ hand' = [hand EXCEPT ![t] = <<>>],
         UNCHANGED <<ops, done, abandoned, lost>>
  PROVE  Places' /\ Kept
<1>1. /\ pending' = <<>>
      /\ batch' = [batch EXCEPT ![t] = pending \o extra]
      /\ pc' = [pc EXCEPT ![t] = "exec"]
      /\ batch[t] = <<>>
  BY DEF Claim, Take, Places, Idle
<1>2. Apart(pending) /\ Apart(extra) /\ TicketsOf(pending) \cap TicketsOf(extra) = {}
  BY NoTickets DEF Places, Records, OnePlace
<1>3. /\ TicketsOf(pending \o extra) = TicketsOf(pending) \cup TicketsOf(extra)
      /\ Apart(pending \o extra)
  BY <1>2, ConcatTickets DEF TypeOK
<1>4. /\ batch'[t] = pending \o extra
      /\ \A u \in Threads \ {t} : batch'[u] = batch[u]
      /\ TicketsOf(batch[t]) = {} /\ TicketsOf(pending') = {} /\ Apart(pending')
  BY <1>1, NoTickets DEF TypeOK
<1>5. /\ \A u \in Threads \ {t} : hand'[u] = hand[u]
      /\ TicketsOf(hand[t]) = TicketsOf(hand'[t]) \cup TicketsOf(extra)
      /\ TicketsOf(hand'[t]) \cap TicketsOf(extra) = {}
      /\ Apart(hand'[t])
      /\ hand[t] = <<>> => hand'[t] = <<>>
  <2>1. CASE extra = <<>> /\ hand' = hand
    BY <2>1, NoTickets DEF Places, Records
  <2>2. CASE extra = hand[t] /\ hand' = [hand EXCEPT ![t] = <<>>]
    BY <2>2, NoTickets DEF TypeOK
  <2> QED
    BY <2>1, <2>2
<1>6. Settled' = Settled
  BY DEF Settled
<1>7. Idle'
  BY <1>1, <1>4, <1>5 DEF Places, Idle, TypeOK
<1>8. Records'
  BY <1>3, <1>4, <1>5 DEF Places, Records
<1>9. OnePlace'
  <2>1. /\ TicketsOf(batch'[t]) = TicketsOf(pending) \cup TicketsOf(extra)
        /\ TicketsOf(extra) \subseteq TicketsOf(hand[t])
        /\ \A u \in Threads : TicketsOf(hand'[u]) \subseteq TicketsOf(hand[u])
    BY <1>3, <1>4, <1>5
  <2>2. \A u \in Threads : /\ TicketsOf(pending) \cap TicketsOf(hand[u]) = {}
                           /\ TicketsOf(pending) \cap TicketsOf(batch[u]) = {}
    BY DEF Places, OnePlace
  <2>3. \A u, v \in Threads : TicketsOf(hand[u]) \cap TicketsOf(batch[v]) = {}
    BY DEF Places, OnePlace
  <2>4. \A u, v \in Threads : u # v =>
          /\ TicketsOf(hand[u]) \cap TicketsOf(hand[v]) = {}
          /\ TicketsOf(batch[u]) \cap TicketsOf(batch[v]) = {}
    BY DEF Places, OnePlace
  <2>5. ASSUME NEW u \in Threads
        PROVE  TicketsOf(hand'[u]) \cap TicketsOf(batch'[t]) = {}
    <3>1. TicketsOf(hand'[u]) \cap TicketsOf(pending) = {}
      BY <2>1, <2>2
    <3>2. TicketsOf(hand'[u]) \cap TicketsOf(extra) = {}
      <4>1. CASE u = t
        BY <1>5, <4>1
      <4>2. CASE u # t
        BY <2>1, <2>4, <4>2
      <4> QED
        BY <4>1, <4>2
    <3> QED
      BY <2>1, <3>1, <3>2
  <2>6. ASSUME NEW u \in Threads, NEW v \in Threads
        PROVE  TicketsOf(hand'[u]) \cap TicketsOf(batch'[v]) = {}
    <3>1. CASE v # t
      <4>1. batch'[v] = batch[v]
        BY <1>4, <3>1
      <4> QED
        BY <2>1, <2>3, <4>1
    <3>2. CASE v = t
      BY <2>5, <3>2
    <3> QED
      BY <3>1, <3>2
  <2>7. ASSUME NEW u \in Threads, u # t
        PROVE  TicketsOf(batch'[u]) \cap TicketsOf(batch'[t]) = {}
    <3>1. batch'[u] = batch[u]
      BY <1>4, <2>7
    <3>2. TicketsOf(batch[u]) \cap TicketsOf(extra) = {}
      BY <2>1, <2>3
    <3> QED
      BY <2>1, <2>2, <3>1, <3>2
  <2>8. ASSUME NEW u \in Threads, NEW v \in Threads, u # v
        PROVE  TicketsOf(batch'[u]) \cap TicketsOf(batch'[v]) = {}
    <3>1. CASE u # t /\ v # t
      <4>1. batch'[u] = batch[u] /\ batch'[v] = batch[v]
        BY <1>4, <3>1
      <4> QED
        BY <2>4, <2>8, <4>1
    <3>2. CASE u = t
      BY <2>7, <2>8, <3>2
    <3>3. CASE v = t
      BY <2>7, <2>8, <3>3
    <3> QED
      BY <3>1, <3>2, <3>3
  <2>9. \A u, v \in Threads : u # v =>
          TicketsOf(hand'[u]) \cap TicketsOf(hand'[v]) = {}
    BY <2>1, <2>4
  <2>10. TicketsOf(pending') = {}
    BY <1>4
  <2> QED
    BY <2>6, <2>8, <2>9, <2>10 DEF OnePlace
<1>10. SettledOnce'
  BY <1>3, <1>4, <1>5, <1>6 DEF Places, SettledOnce
<1>11. Numbered'
  BY <1>3, <1>4, <1>5, <1>6 DEF Places, Numbered
<1>12. Kept
  BY <1>3, <1>4, <1>5, <1>6, KeptWhere
<1> QED
  BY <1>7, <1>8, <1>9, <1>10, <1>11, <1>12 DEF Places

\* The batch in hand goes to its thread alone.
LEMMA JoinPlaces ==
  ASSUME TypeOK, Places, NEW t \in Threads, JoinInline(t)
  PROVE  Places' /\ Kept
<1>1. /\ batch' = [batch EXCEPT ![t] = hand[t]]
      /\ hand' = [hand EXCEPT ![t] = <<>>]
      /\ pc' = [pc EXCEPT ![t] = "exec"]
      /\ batch[t] = <<>>
      /\ UNCHANGED <<pending, ops, done, abandoned, lost>>
  BY DEF JoinInline, shared, history, Places, Idle
<1>2. /\ batch'[t] = hand[t] /\ TicketsOf(batch[t]) = {}
      /\ \A u \in Threads \ {t} : batch'[u] = batch[u]
      /\ hand'[t] = <<>> /\ TicketsOf(hand'[t]) = {} /\ Apart(hand'[t])
      /\ \A u \in Threads \ {t} : hand'[u] = hand[u]
  BY <1>1, NoTickets DEF TypeOK
<1>3. Settled' = Settled
  BY <1>1 DEF Settled
<1>4. Idle'
  BY <1>1, <1>2 DEF Places, Idle, TypeOK
<1>5. Records'
  BY <1>1, <1>2 DEF Places, Records
<1>6. OnePlace'
  <2>1. \A u \in Threads : /\ TicketsOf(pending) \cap TicketsOf(hand[u]) = {}
                           /\ TicketsOf(pending) \cap TicketsOf(batch[u]) = {}
    BY DEF Places, OnePlace
  <2>2. \A u, v \in Threads : TicketsOf(hand[u]) \cap TicketsOf(batch[v]) = {}
    BY DEF Places, OnePlace
  <2>3. \A u, v \in Threads : u # v =>
          /\ TicketsOf(hand[u]) \cap TicketsOf(hand[v]) = {}
          /\ TicketsOf(batch[u]) \cap TicketsOf(batch[v]) = {}
    BY DEF Places, OnePlace
  <2>4. \A u \in Threads : TicketsOf(hand'[u]) \subseteq TicketsOf(hand[u])
    BY <1>2
  <2>5. \A u \in Threads : u # t =>
          /\ TicketsOf(hand'[u]) \cap TicketsOf(batch'[t]) = {}
          /\ TicketsOf(batch'[u]) \cap TicketsOf(batch'[t]) = {}
    BY <1>2, <2>2, <2>3
  <2>6. \A u \in Threads : /\ TicketsOf(pending) \cap TicketsOf(hand'[u]) = {}
                           /\ TicketsOf(pending) \cap TicketsOf(batch'[u]) = {}
    BY <1>2, <2>1
  <2>7. ASSUME NEW u \in Threads, NEW v \in Threads
        PROVE  TicketsOf(hand'[u]) \cap TicketsOf(batch'[v]) = {}
    <3>1. CASE u = t
      BY <1>2, <3>1
    <3>2. CASE u # t /\ v = t
      BY <2>5, <3>2
    <3>3. CASE v # t
      <4>1. batch'[v] = batch[v]
        BY <1>2, <3>3
      <4> QED
        BY <2>2, <2>4, <4>1
    <3> QED
      BY <3>1, <3>2, <3>3
  <2>8. ASSUME NEW u \in Threads, NEW v \in Threads, u # v
        PROVE  TicketsOf(batch'[u]) \cap TicketsOf(batch'[v]) = {}
    <3>1. CASE u = t
      BY <2>5, <2>8, <3>1
    <3>2. CASE v = t
      BY <2>5, <2>8, <3>2
    <3>3. CASE u # t /\ v # t
      <4>1. batch'[u] = batch[u] /\ batch'[v] = batch[v]
        BY <1>2, <3>3
      <4> QED
        BY <2>3, <2>8, <4>1
    <3> QED
      BY <3>1, <3>2, <3>3
  <2>9. \A u, v \in Threads : u # v =>
          TicketsOf(hand'[u]) \cap TicketsOf(hand'[v]) = {}
    BY <2>3, <2>4
  <2> QED
    BY <1>1, <2>6, <2>7, <2>8, <2>9 DEF OnePlace
<1>7. SettledOnce'
  BY <1>1, <1>2, <1>3 DEF Places, SettledOnce
<1>8. Numbered'
  BY <1>1, <1>2, <1>3 DEF Places, Numbered
<1>9. Kept
  BY <1>1, <1>2, <1>3, KeptWhere
<1> QED
  BY <1>4, <1>5, <1>6, <1>7, <1>8, <1>9 DEF Places

\* The record at the front of a running batch is in no other place.
LEMMA FrontApart ==
  ASSUME TypeOK, Places, NEW t \in Threads, Running(t), Step(t)
  PROVE  LET T == Head(batch[t]).tickets
         IN  /\ batch'[t] = Tail(batch[t])
             /\ \A u \in Threads \ {t} : batch'[u] = batch[u]
             /\ TicketsOf(batch[t]) = T \cup TicketsOf(batch'[t])
             /\ Apart(batch'[t])
             /\ T \cap (TicketsOf(pending) \cup Settled) = {}
             /\ \A u \in Threads :
                  T \cap (TicketsOf(hand[u]) \cup TicketsOf(batch'[u])) = {}
<1> DEFINE T == Head(batch[t]).tickets
<1>1. batch[t] \in Seq(Entry) /\ batch[t] # <<>>
  BY DEF TypeOK, Running
<1>2. /\ TicketsOf(batch[t]) = T \cup TicketsOf(Tail(batch[t]))
      /\ Apart(Tail(batch[t]))
      /\ T \cap TicketsOf(Tail(batch[t])) = {}
  BY <1>1, TailTickets DEF Places, Records
<1>3. batch'[t] = Tail(batch[t]) /\ \A u \in Threads \ {t} : batch'[u] = batch[u]
  BY DEF Step, TypeOK
<1> HIDE DEF T
<1>4. T \cap (TicketsOf(pending) \cup Settled) = {}
  BY <1>2 DEF Places, OnePlace, SettledOnce
<1>5. \A u \in Threads : T \cap (TicketsOf(hand[u]) \cup TicketsOf(batch'[u])) = {}
  BY <1>2, <1>3 DEF Places, OnePlace
<1> QED
  BY <1>2, <1>3, <1>4, <1>5 DEF T

\* Running a record: its tickets, and those of a command published on the way,
\* go to the pending set or are settled.
LEMMA RunPlaces ==
  ASSUME TypeOK, Places, NEW t \in Threads, Running(t), Step(t),
         UNCHANGED <<pc, hand>>,
         NEW N, \A tk \in N : tk.by = t /\ tk.n = ops[t] + 1,
         \/ N = {} /\ ops' = ops
         \/ ops' = [ops EXCEPT ![t] = @ + 1],
         TicketsOf(pending') \cup Settled' =
           TicketsOf(pending) \cup Settled \cup Head(batch[t]).tickets \cup N,
         Apart(pending'),
         TicketsOf(pending') \cap Settled' = {},
         done' \cap abandoned' = {} /\ done' \cap lost' = {}
            /\ abandoned' \cap lost' = {}
  PROVE  Places' /\ Kept
<1> DEFINE T == Head(batch[t]).tickets
<1>1. /\ batch'[t] = Tail(batch[t])
      /\ \A u \in Threads \ {t} : batch'[u] = batch[u]
      /\ TicketsOf(batch[t]) = T \cup TicketsOf(batch'[t])
      /\ Apart(batch'[t])
      /\ T \cap (TicketsOf(pending) \cup Settled) = {}
      /\ \A u \in Threads :
           T \cap (TicketsOf(hand[u]) \cup TicketsOf(batch'[u])) = {}
  BY FrontApart
<1>2. TicketsOf(pending') \cup Settled' = TicketsOf(pending) \cup Settled \cup T \cup N
  OBVIOUS
<1> HIDE DEF T
<1>3. ops[t] \in Nat /\ \A u \in Threads : ops'[u] = ops[u] \/ (u = t /\ ops'[t] = ops[t] + 1)
  BY DEF TypeOK
<1>4. \A u \in Threads : N \cap (TicketsOf(hand[u]) \cup TicketsOf(batch[u])) = {}
  BY <1>3 DEF Places, Numbered
<1>5. \A u \in Threads : TicketsOf(batch'[u]) \subseteq TicketsOf(batch[u])
  BY <1>1
<1>6. Idle'
  BY <1>1 DEF Places, Idle, Running, TypeOK
<1>7. Records'
  BY <1>1 DEF Places, Records
<1>8. OnePlace'
  <2> USE DEF Places, OnePlace
  <2>1. \A u \in Threads : TicketsOf(pending') \cap TicketsOf(hand[u]) = {}
    BY <1>1, <1>2, <1>4 DEF SettledOnce
  <2>2. \A u \in Threads : TicketsOf(pending') \cap TicketsOf(batch'[u]) = {}
    BY <1>1, <1>2, <1>4, <1>5 DEF SettledOnce
  <2>3. \A u, v \in Threads : TicketsOf(hand[u]) \cap TicketsOf(batch'[v]) = {}
    BY <1>5
  <2>4. \A u, v \in Threads : u # v => TicketsOf(batch'[u]) \cap TicketsOf(batch'[v]) = {}
    BY <1>5
  <2> QED
    BY <2>1, <2>2, <2>3, <2>4
<1>9. SettledOnce'
  <2>1. \A u \in Threads : TicketsOf(hand[u]) \cap Settled' = {}
    BY <1>1, <1>2, <1>4 DEF Places, SettledOnce, OnePlace
  <2>2. \A u \in Threads : TicketsOf(batch'[u]) \cap Settled' = {}
    BY <1>1, <1>2, <1>4, <1>5 DEF Places, SettledOnce, OnePlace
  <2> QED
    BY <2>1, <2>2 DEF SettledOnce
<1>10. Numbered'
  <2>1. \A tk \in Ticket : tk.n <= ops[tk.by] => tk.n <= ops'[tk.by]
    <3> SUFFICES ASSUME NEW tk \in Ticket, tk.n <= ops[tk.by]
                 PROVE  tk.n <= ops'[tk.by]
      OBVIOUS
    <3>1. tk.by \in Threads /\ tk.n \in Nat
      BY DEF Ticket
    <3> QED
      BY <1>3, <3>1
  <2>2. \A tk \in N : tk.n <= ops'[tk.by]
    BY <1>3 DEF TypeOK
  <2>3. \A tk \in TicketsOf(pending) \cup Settled \cup T : tk.n <= ops'[tk.by]
    BY <1>1, <2>1, TicketsTyped DEF Places, Numbered
  <2>4. \A u \in Threads : \A tk \in TicketsOf(hand[u]) \cup TicketsOf(batch'[u]) :
          tk.n <= ops'[tk.by]
    BY <1>5, <2>1, TicketsTyped DEF Places, Numbered
  <2> QED
    BY <1>2, <2>2, <2>3, <2>4 DEF Numbered
<1>11. Kept
  <2>1. \A tk \in TicketsOf(pending) \cup Settled :
          tk \in TicketsOf(pending') \/ tk \in Settled'
    BY <1>2
  <2>2. \A u \in Threads : \A tk \in TicketsOf(hand[u]) \cup TicketsOf(batch[u]) :
          \/ tk \in TicketsOf(pending') \/ tk \in Settled'
          \/ tk \in TicketsOf(hand'[u]) \cup TicketsOf(batch'[u])
    BY <1>1, <1>2
  <2> QED
    BY <2>1, <2>2, KeptWhere
<1> QED
  BY <1>6, <1>7, <1>8, <1>9, <1>10, <1>11 DEF Places

LEMMA RunCommandPlaces ==
  ASSUME TypeOK, Places, NEW t \in Threads, RunCommand(t)
  PROVE  Places' /\ Kept
<1> DEFINE T == Head(batch[t]).tickets
<1>1. /\ Running(t) /\ Step(t) /\ done' = done \cup T
      /\ UNCHANGED <<pending, pc, hand, ops, abandoned, lost>>
  BY DEF RunCommand, shared
<1>2. T \cap (TicketsOf(pending) \cup Settled) = {}
  BY <1>1, FrontApart
<1> HIDE DEF T
<1>3. Settled' = Settled \cup T
  BY <1>1 DEF Settled
<1>4. /\ Apart(pending')
      /\ TicketsOf(pending') \cup Settled' = TicketsOf(pending) \cup Settled \cup T \cup {}
      /\ TicketsOf(pending') \cap Settled' = {}
  BY <1>1, <1>2, <1>3 DEF Places, Records, SettledOnce
<1>5. done' \cap abandoned' = {} /\ done' \cap lost' = {} /\ abandoned' \cap lost' = {}
  BY <1>1, <1>2 DEF Places, SettledOnce, Settled
<1> QED
  BY <1>1, <1>4, <1>5, RunPlaces DEF T

LEMMA RunPublishingPlaces ==
  ASSUME TypeOK, Places, NEW t \in Threads, NEW c \in NestedCommands,
         RunPublishing(t, c)
  PROVE  Places' /\ Kept
<1> DEFINE T == Head(batch[t]).tickets
           N == {NewTicket(t, c)}
<1>1. /\ Running(t) /\ Step(t)
      /\ \/ done' = done \cup T \cup N /\ abandoned' = abandoned
         \/ done' = done \cup T /\ abandoned' = abandoned \cup N
      /\ ops' = [ops EXCEPT ![t] = @ + 1]
      /\ UNCHANGED <<pending, pc, hand, lost>>
  BY DEF RunPublishing, Count, shared
<1>2. T \cap (TicketsOf(pending) \cup Settled) = {}
  BY <1>1, FrontApart
<1>3. \A tk \in N : tk.by = t /\ tk.n = ops[t] + 1
  BY DEF NewTicket
<1>4. N \cap (TicketsOf(pending) \cup Settled \cup T) = {}
  <2>1. T \subseteq TicketsOf(batch[t])
    BY <1>1, FrontApart
  <2> HIDE DEF N, T
  <2>2. ops[t] \in Nat
    BY DEF TypeOK
  <2> QED
    BY <1>3, <2>1, <2>2 DEF Places, Numbered
<1> HIDE DEF T, N
<1>5. Settled' = Settled \cup T \cup N
  BY <1>1 DEF Settled
<1>6. /\ Apart(pending')
      /\ TicketsOf(pending') \cup Settled' = TicketsOf(pending) \cup Settled \cup T \cup N
      /\ TicketsOf(pending') \cap Settled' = {}
  BY <1>1, <1>2, <1>4, <1>5 DEF Places, Records, SettledOnce
<1>7. done' \cap abandoned' = {} /\ done' \cap lost' = {} /\ abandoned' \cap lost' = {}
  BY <1>1, <1>2, <1>4 DEF Places, SettledOnce, Settled
<1> QED
  BY <1>1, <1>3, <1>6, <1>7, RunPlaces DEF T

LEMMA RunAgainPlaces ==
  ASSUME TypeOK, Places, NEW t \in Threads, RunAgain(t)
  PROVE  Places' /\ Kept
<1> DEFINE e     == Head(batch[t])
           T     == e.tickets
           cmd   == [e.cmd EXCEPT !.attempt = IF t = Owner THEN @ + 1 ELSE @]
           again == [cmd |-> cmd, tickets |-> T, stale |-> FALSE]
<1>1. /\ Running(t) /\ Step(t)
      /\ t = Owner => cmd.attempt < MaxAttempts
      /\ \/ abandoned' = abandoned \cup T /\ UNCHANGED <<pending, lost>>
         \/ pending' = Push(pending, again) /\ UNCHANGED <<abandoned, lost>>
         \/ lost' = lost \cup T /\ UNCHANGED <<pending, abandoned>>
      /\ UNCHANGED <<pc, hand, ops, done>>
  BY DEF RunAgain
<1>2. T \cap (TicketsOf(pending) \cup Settled) = {}
  BY <1>1, FrontApart
<1>3. again \in Entry /\ again.tickets = T
  <2>1. e \in Entry
    BY <1>1, HeadTailProperties DEF TypeOK, Running
  <2>2. e.cmd \in Command /\ T \in SUBSET Ticket
    BY <2>1 DEF Entry
  <2> HIDE DEF e, T
  <2>3. cmd \in Command
    BY <1>1, <2>2, BoundsAssumption DEF Command
  <2> HIDE DEF cmd
  <2> QED
    BY <2>2, <2>3 DEF Entry
<1> HIDE DEF T, again
<1>4. CASE pending' = Push(pending, again) /\ UNCHANGED <<abandoned, lost>>
  <2>1. /\ TicketsOf(pending') = TicketsOf(pending) \cup T
        /\ Apart(pending')
    BY <1>2, <1>3, <1>4, PushTickets DEF TypeOK, Places, Records
  <2>2. Settled' = Settled
    BY <1>1, <1>4 DEF Settled
  <2>3. /\ TicketsOf(pending') \cup Settled' =
             TicketsOf(pending) \cup Settled \cup T \cup {}
        /\ TicketsOf(pending') \cap Settled' = {}
    BY <1>2, <2>1, <2>2 DEF Places, SettledOnce
  <2>4. done' \cap abandoned' = {} /\ done' \cap lost' = {} /\ abandoned' \cap lost' = {}
    BY <1>1, <1>4 DEF Places, SettledOnce
  <2> QED
    BY <1>1, <2>1, <2>3, <2>4, RunPlaces DEF T
<1>5. CASE /\ pending' = pending
           /\ \/ abandoned' = abandoned \cup T /\ lost' = lost
              \/ lost' = lost \cup T /\ abandoned' = abandoned
  <2>1. Settled' = Settled \cup T
    BY <1>1, <1>5 DEF Settled
  <2>2. /\ Apart(pending')
        /\ TicketsOf(pending') \cup Settled' =
             TicketsOf(pending) \cup Settled \cup T \cup {}
        /\ TicketsOf(pending') \cap Settled' = {}
    BY <1>2, <1>5, <2>1 DEF Places, Records, SettledOnce
  <2>3. done' \cap abandoned' = {} /\ done' \cap lost' = {} /\ abandoned' \cap lost' = {}
    BY <1>1, <1>2, <1>5 DEF Places, SettledOnce, Settled
  <2> QED
    BY <1>1, <2>2, <2>3, RunPlaces DEF T
<1> QED
  BY <1>1, <1>4, <1>5

LEMMA ShutdownPlaces ==
  ASSUME TypeOK, Places, Shutdown
  PROVE  Places' /\ Kept
<1>1. /\ abandoned' = abandoned \cup TicketsOf(pending)
      /\ pending' = <<>>
      /\ UNCHANGED <<pc, hand, batch, ops, done, lost>>
  BY DEF Shutdown, threads
<1>2. TicketsOf(pending') = {} /\ Apart(pending')
  BY <1>1, NoTickets
<1>3. Settled' = Settled \cup TicketsOf(pending)
  BY <1>1 DEF Settled
<1>4. Idle' /\ Records' /\ OnePlace'
  BY <1>1, <1>2 DEF Places, Idle, Records, OnePlace
<1>5. SettledOnce'
  <2>1. /\ TicketsOf(pending') \cap Settled' = {}
        /\ \A t \in Threads : /\ TicketsOf(hand'[t]) \cap Settled' = {}
                              /\ TicketsOf(batch'[t]) \cap Settled' = {}
    BY <1>1, <1>2, <1>3 DEF Places, SettledOnce, OnePlace
  <2>2. done' \cap abandoned' = {} /\ done' \cap lost' = {} /\ abandoned' \cap lost' = {}
    BY <1>1 DEF Places, SettledOnce, Settled
  <2> QED
    BY <2>1, <2>2 DEF SettledOnce
<1>6. Numbered'
  BY <1>1, <1>2, <1>3 DEF Places, Numbered
<1>7. Kept
  BY <1>1, <1>3, KeptWhere
<1> QED
  BY <1>4, <1>5, <1>6, <1>7 DEF Places

LEMMA AgePlaces ==
  ASSUME TypeOK, Places, Age
  PROVE  Places' /\ Kept
<1>1. UNCHANGED <<pc, hand, batch, ops, done, abandoned, lost>>
  BY DEF Age, threads, history
<1>2. TicketsOf(pending') = TicketsOf(pending) /\ Apart(pending')
  BY AgeTickets DEF TypeOK, Places, Records
<1>3. Settled' = Settled
  BY <1>1 DEF Settled
<1>4. Places'
  BY <1>1, <1>2, <1>3
  DEF Places, Idle, Records, OnePlace, SettledOnce, Numbered
<1>5. Kept
  BY <1>1, <1>2, <1>3, KeptWhere
<1> QED
  BY <1>4, <1>5

LEMMA PlacesStep == Inv /\ Places /\ [Next]_vars => Places' /\ Kept
<1> SUFFICES ASSUME Inv, Places, [Next]_vars PROVE Places' /\ Kept
  OBVIOUS
<1>0. TypeOK /\ Hands
  BY DEF Inv
<1>1. ASSUME NEW t \in Threads, NEW b \in Batches, Submit(t, b)
      PROVE  Places' /\ Kept
  BY <1>0, <1>1, SubmitPlaces
<1>2. ASSUME NEW t \in Threads, Drain(t) \/ FlushStale(t)
      PROVE  Places' /\ Kept
  <2>1. /\ Claim(t, <<>>) /\ pc[t] \notin {"exec", "run"} /\ hand' = hand
        /\ UNCHANGED <<ops, done, abandoned, lost>>
    BY <1>2 DEF Drain, FlushStale, history
  <2>2. <<>> \in Seq(Entry)
    BY EmptySeq
  <2> QED
    BY <1>0, <2>1, <2>2, ClaimPlaces
<1>3. ASSUME NEW t \in Threads, Proceed(t)
      PROVE  Places' /\ Kept
  <2>1. CASE Abandon(t)
    BY <1>0, <2>1, AbandonPlaces
  <2>2. CASE PushAccepted(t)
    BY <1>0, <2>2, PushAcceptedPlaces
  <2>3. CASE PushRejected(t)
    <3>1. UNCHANGED <<pending, hand, batch, ops, done, abandoned, lost>>
      BY <2>3 DEF PushRejected, shared, history
    <3>2. Idle'
      BY <1>0, <2>3 DEF PushRejected, Places, Idle, TypeOK
    <3> QED
      BY <1>0, <3>1, <3>2, StandPlaces
  <2>4. CASE ClaimInline(t)
    <3>1. /\ Claim(t, hand[t]) /\ pc[t] \notin {"exec", "run"}
          /\ hand' = [hand EXCEPT ![t] = <<>>]
          /\ UNCHANGED <<ops, done, abandoned, lost>>
      BY <2>4 DEF ClaimInline, history
    <3>2. hand[t] \in Seq(Entry)
      BY <1>0 DEF TypeOK
    <3> QED
      BY <1>0, <3>1, <3>2, ClaimPlaces
  <2>5. CASE JoinInline(t)
    BY <1>0, <2>5, JoinPlaces
  <2>6. CASE AcquireExec(t)
    <3>1. UNCHANGED <<pending, hand, batch, ops, done, abandoned, lost>>
      BY <2>6 DEF AcquireExec, history
    <3>2. Idle'
      BY <1>0, <2>6 DEF AcquireExec, Places, Idle, TypeOK
    <3> QED
      BY <1>0, <3>1, <3>2, StandPlaces
  <2>7. CASE Run(t)
    BY <1>0, <2>7, RunCommandPlaces, RunPublishingPlaces, RunAgainPlaces DEF Run
  <2>8. CASE FinishBatch(t)
    <3>1. UNCHANGED <<pending, hand, batch, ops, done, abandoned, lost>>
      BY <2>8 DEF FinishBatch, history
    <3>2. Idle'
      BY <1>0, <2>8 DEF FinishBatch, Return, Places, Idle, TypeOK
    <3> QED
      BY <1>0, <3>1, <3>2, StandPlaces
  <2>9. CASE ReleaseExecuting(t)
    <3>1. UNCHANGED <<pending, hand, batch, ops, done, abandoned, lost>>
      BY <2>9 DEF ReleaseExecuting, history
    <3>2. Idle'
      BY <1>0, <2>9 DEF ReleaseExecuting, Return, Places, Idle, TypeOK
    <3> QED
      BY <1>0, <3>1, <3>2, StandPlaces
  <2> QED
    BY <1>3, <2>1, <2>2, <2>3, <2>4, <2>5, <2>6, <2>7, <2>8, <2>9 DEF Proceed
<1>4. CASE Shutdown
  BY <1>0, <1>4, ShutdownPlaces
<1>5. CASE Age
  BY <1>0, <1>5, AgePlaces
<1>6. CASE UNCHANGED vars
  <2>1. UNCHANGED <<pending, hand, batch, ops, done, abandoned, lost>>
    BY <1>6 DEF vars, shared, threads, history
  <2>2. Idle'
    BY <1>6 DEF vars, shared, threads, history, Places, Idle
  <2> QED
    BY <1>0, <2>1, <2>2, StandPlaces
<1> QED
  BY <1>1, <1>2, <1>3, <1>4, <1>5, <1>6 DEF Next

\* A submitted command is in one record of one place, or settled in one way and
\* nowhere else: no merge, claim, fallback, retry or shutdown duplicates it
\* (pushBatch, claim, runPendingThen, runBatch, shutdown).
THEOREM ExactlyOnceAlways == Spec => []ExactlyOnce
BY InvInit, InvStep, PlacesInit, PlacesStep, PlacesImplyExactlyOnce, PTL DEF Spec

\* No step makes a submitted command disappear without a record of what became
\* of it (pushBatch merging, claim swapping the pending set out, shutdown).
THEOREM NothingVanishesAlways == Spec => NothingVanishes
<1>1. Inv /\ Places /\ [Next]_vars =>
        [(Live \cup done \cup abandoned \cup lost)
            \subseteq (Live \cup done \cup abandoned \cup lost)']_vars
  BY PlacesStep DEF Kept
<1> QED
  BY <1>1, InvInit, InvStep, PlacesInit, PlacesStep, PTL DEF Spec, NothingVanishes

-----------------------------------------------------------------------------
(***************************************************************************)
(* What coalescing keeps of a command.                                     *)
(***************************************************************************)

\* The snapshot of a record is one that was submitted.
Originates(c, d) == c.kind = "SyncPackage0" => c.gen = d.gen /\ c.ids = d.ids

\* A record does what each submission it stands for asked, and is one of them.
EntryCovers(e) ==
  /\ \A tk \in e.tickets : Covers(e.cmd, tk.cmd)
  /\ \E tk \in e.tickets : Originates(e.cmd, tk.cmd)

CoversAll(q) == \A i \in 1 .. Len(q) : EntryCovers(q[i])

\* The merged command does at least what either of the two does.
LEMMA MergedCovers ==
  ASSUME NEW c \in Command, NEW d \in Command, NEW x \in Command,
         \/ sameWork(c, d)
         \/ c.kind = d.kind /\ c.kind \in {"InjectPackage0", "SyncPackage0"},
         Covers(c, x) \/ Covers(d, x)
  PROVE  Covers(Merged(c, d), x)
<1>0. c.kind \in Kind /\ c.kind = d.kind
  BY DEF Command, sameWork
<1>1. CASE c.kind = "InjectPackage0"
  <2>1. Merged(c, d) = [c EXCEPT !.ids = @ \cup d.ids]
    BY <1>0, <1>1 DEF Merged
  <2>2. /\ Merged(c, d).kind = c.kind /\ Merged(c, d).ids = c.ids \cup d.ids
    BY <2>1 DEF Command
  <2> QED
    BY <1>0, <1>1, <2>2 DEF Covers
<1>2. CASE c.kind = "SyncPackage0"
  <2>1. CASE d.gen > c.gen
    <3>1. Merged(c, d) = carryPendingSnapshotWork(c, d)
      BY <1>0, <1>2, <2>1 DEF Merged
    <3>2. Merged(c, d).kind = c.kind /\ Merged(c, d).gen = d.gen
      BY <1>0, <3>1 DEF carryPendingSnapshotWork, Command
    <3> QED
      BY <1>0, <1>2, <2>1, <3>2 DEF Covers, Command
  <2>2. CASE ~(d.gen > c.gen)
    <3>1. Merged(c, d) = c
      BY <1>0, <1>2, <2>2 DEF Merged
    <3> QED
      BY <1>0, <1>2, <2>2, <3>1 DEF Covers, Command
  <2> QED
    BY <2>1, <2>2
<1>3. CASE c.kind \in {"ReconcileLicenses", "InstallApp", "EnsureCompat"}
  <2>1. Merged(c, d) = c
    BY <1>0, <1>3 DEF Merged
  <2>2. sameWork(c, d)
    BY <1>3
  <2> QED
    BY <1>0, <1>3, <2>1, <2>2 DEF Covers, sameWork
<1> QED
  BY <1>0, <1>1, <1>2, <1>3 DEF Kind

LEMMA MergedOriginates ==
  ASSUME NEW c \in Command, NEW d \in Command, c.kind = d.kind
  PROVE  \/ \A x : Originates(c, x) => Originates(Merged(c, d), x)
         \/ \A x : Originates(d, x) => Originates(Merged(c, d), x)
<1>1. CASE c.kind = "SyncPackage0" /\ d.gen > c.gen
  <2>1. Merged(c, d) = carryPendingSnapshotWork(c, d)
    BY <1>1 DEF Merged
  <2>2. Merged(c, d).gen = d.gen /\ Merged(c, d).ids = d.ids
    BY <2>1 DEF carryPendingSnapshotWork, Command
  <2> QED
    BY <1>1, <2>2 DEF Originates
<1>2. CASE c.kind = "SyncPackage0" /\ ~(d.gen > c.gen)
  <2>1. Merged(c, d) = c
    BY <1>2 DEF Merged
  <2> QED
    BY <2>1
<1>3. CASE c.kind # "SyncPackage0"
  <2>1. Merged(c, d).kind = c.kind
    BY <1>3 DEF Merged, Command
  <2> QED
    BY <1>3, <2>1 DEF Originates
<1> QED
  BY <1>1, <1>2, <1>3

LEMMA CoalesceCovers ==
  ASSUME NEW q \in Seq(Entry), NEW e \in Entry, EntryCovers(e),
         NEW i \in 1 .. Len(q), i \in Absorbing(q, e.cmd), EntryCovers(q[i])
  PROVE  EntryCovers(Coalesce(q[i], e))
<1> DEFINE f == q[i]
<1>1. f \in Entry
  BY ElementOfSeq
<1>2. \/ sameWork(f.cmd, e.cmd)
      \/ f.cmd.kind = e.cmd.kind /\ f.cmd.kind \in {"InjectPackage0", "SyncPackage0"}
  BY DEF Absorbing
<1> HIDE DEF f
<1>3. /\ Coalesce(f, e).cmd = Merged(f.cmd, e.cmd)
      /\ Coalesce(f, e).tickets = f.tickets \cup e.tickets
  BY <1>1, CoalesceType DEF Coalesce, Entry
<1>4. ASSUME NEW tk \in f.tickets \cup e.tickets
      PROVE  Covers(Merged(f.cmd, e.cmd), tk.cmd)
  <2>1. f.cmd \in Command /\ e.cmd \in Command /\ tk.cmd \in Command
    BY <1>1 DEF Entry, Ticket
  <2>2. Covers(f.cmd, tk.cmd) \/ Covers(e.cmd, tk.cmd)
    BY DEF EntryCovers, f
  <2> QED
    BY <1>2, <2>1, <2>2, MergedCovers
<1>5. \E tk \in f.tickets \cup e.tickets : Originates(Merged(f.cmd, e.cmd), tk.cmd)
  <2>1. f.cmd \in Command /\ e.cmd \in Command /\ f.cmd.kind = e.cmd.kind
    BY <1>1, <1>2 DEF Entry, sameWork
  <2>2. PICK x \in f.tickets : Originates(f.cmd, x.cmd)
    BY DEF EntryCovers, f
  <2>3. PICK y \in e.tickets : Originates(e.cmd, y.cmd)
    BY DEF EntryCovers
  <2> QED
    BY <2>1, <2>2, <2>3, MergedOriginates
<1> QED
  BY <1>3, <1>4, <1>5 DEF EntryCovers, f

LEMMA PushCovers ==
  ASSUME NEW q \in Seq(Entry), NEW e \in Entry, CoversAll(q), EntryCovers(e)
  PROVE  CoversAll(Push(q, e))
<1>1. CASE Push(q, e) = Append(q, e)
  <2>1. /\ Len(q) \in Nat /\ Len(Append(q, e)) = Len(q) + 1
        /\ \A j \in 1 .. Len(q) + 1 :
             Append(q, e)[j] = IF j <= Len(q) THEN q[j] ELSE e
    BY LenProperties, AppendProperties
  <2> QED
    BY <1>1, <2>1 DEF CoversAll
<1>2. ASSUME NEW i \in 1 .. Len(q), i \in Absorbing(q, e.cmd),
             Push(q, e) = [q EXCEPT ![i] = Coalesce(q[i], e)]
      PROVE  CoversAll(Push(q, e))
  <2>1. Coalesce(q[i], e) \in Entry
    BY ElementOfSeq, CoalesceType
  <2>2. EntryCovers(Coalesce(q[i], e))
    BY <1>2, CoalesceCovers DEF CoversAll
  <2> DEFINE f == Coalesce(q[i], e)
  <2> HIDE DEF f
  <2>3. /\ Len([q EXCEPT ![i] = f]) = Len(q)
        /\ \A j \in 1 .. Len(q) : [q EXCEPT ![i] = f][j] = IF j = i THEN f ELSE q[j]
    BY <2>1, ReplaceType DEF f
  <2>4. CoversAll([q EXCEPT ![i] = f])
    BY <2>2, <2>3 DEF CoversAll, f
  <2> QED
    BY <1>2, <2>4 DEF f
<1> QED
  BY <1>1, <1>2, PushCases

LEMMA PushBatchCovers ==
  ASSUME NEW q \in Seq(Entry), NEW b \in Seq(Entry), Len(b) \in {1, 2},
         CoversAll(q), CoversAll(b)
  PROVE  CoversAll(PushBatch(q, b))
<1>1. /\ b[1] \in Entry /\ EntryCovers(b[1])
      /\ Push(q, b[1]) \in Seq(Entry) /\ CoversAll(Push(q, b[1]))
  <2>1. 1 \in 1 .. Len(b)
    BY LenProperties
  <2>2. b[1] \in Entry /\ EntryCovers(b[1])
    BY <2>1, ElementOfSeq DEF CoversAll
  <2> QED
    BY <2>2, PushType, PushCovers
<1>2. CASE Len(b) = 1
  BY <1>1, <1>2 DEF PushBatch
<1>3. CASE Len(b) = 2
  <2>1. 2 \in 1 .. Len(b)
    BY <1>3
  <2>2. b[2] \in Entry /\ EntryCovers(b[2])
    BY <2>1, ElementOfSeq DEF CoversAll
  <2>3. CoversAll(Push(Push(q, b[1]), b[2]))
    BY <1>1, <2>2, PushCovers
  <2> QED
    BY <1>3, <2>3 DEF PushBatch
<1> QED
  BY <1>2, <1>3

LEMMA ConcatCovers ==
  ASSUME NEW q \in Seq(Entry), NEW r \in Seq(Entry), CoversAll(q), CoversAll(r)
  PROVE  CoversAll(q \o r)
<1>1. /\ Len(q \o r) = Len(q) + Len(r) /\ Len(q) \in Nat /\ Len(r) \in Nat
      /\ \A i \in 1 .. Len(q) + Len(r) :
           (q \o r)[i] = IF i <= Len(q) THEN q[i] ELSE r[i - Len(q)]
  BY ConcatProperties, LenProperties
<1>2. \A i \in 1 .. Len(q) + Len(r) : i \in 1 .. Len(q) \/ i - Len(q) \in 1 .. Len(r)
  BY <1>1
<1> QED
  BY <1>1, <1>2 DEF CoversAll

LEMMA TailCovers ==
  ASSUME NEW q \in Seq(Entry), q # <<>>, CoversAll(q)
  PROVE  CoversAll(Tail(q)) /\ EntryCovers(Head(q))
<1>1. /\ Len(Tail(q)) = Len(q) - 1 /\ Len(q) \in Nat \ {0} /\ Head(q) = q[1]
      /\ \A i \in 1 .. Len(Tail(q)) : Tail(q)[i] = q[i + 1]
  BY HeadTailProperties, EmptySeq
<1> QED
  BY <1>1 DEF CoversAll

Work ==
  /\ CoversAll(pending)
  /\ \A t \in Threads : CoversAll(hand[t]) /\ CoversAll(batch[t])

LEMMA WorkImpliesCovered ==
  ASSUME TypeOK, Work
  PROVE  WorkCovered
<1>1. /\ \A x \in DOMAIN Queues :
           \/ x = <<"pending", NoThread>>
           \/ \E t \in Threads : x = <<"hand", t>> \/ x = <<"batch", t>>
      /\ Queues[<<"pending", NoThread>>] = pending
      /\ \A t \in Threads : Queues[<<"hand", t>>] = hand[t]
                            /\ Queues[<<"batch", t>>] = batch[t]
  BY DEF Queues
<1>2. \A x \in DOMAIN Queues : CoversAll(Queues[x]) /\ Queues[x] \in Seq(Entry)
  BY <1>1 DEF Work, TypeOK
<1> HIDE DEF Queues
<1>3. \A x \in DOMAIN Queues : DOMAIN Queues[x] = 1 .. Len(Queues[x])
  BY <1>2, LenProperties
<1> QED
  BY <1>2, <1>3 DEF WorkCovered, CoversAll, EntryCovers

LEMMA NothingCovers == CoversAll(<<>>)
BY DEF CoversAll

LEMMA WorkInit == Init => Work
BY NothingCovers DEF Init, Work

LEMMA WorkStep == Inv /\ Work /\ [Next]_vars => Work'
<1> SUFFICES ASSUME Inv, Work, [Next]_vars PROVE Work'
  OBVIOUS
<1>0. TypeOK /\ Hands
  BY DEF Inv
<1>1. ASSUME NEW t \in Threads, NEW b \in Batches, Submit(t, b)
      PROVE  Work'
  <2> DEFINE h == [i \in DOMAIN b |-> NewEntry(t, b[i])]
  <2>1. /\ hand' = [hand EXCEPT ![t] = h]
        /\ UNCHANGED <<pending, batch>>
    BY <1>1 DEF Submit, shared
  <2>2. CoversAll(h)
    <3>1. b \in Seq(Command) /\ DOMAIN b = 1 .. Len(b) /\ Len(b) \in Nat
      BY ClientAssumption, LenProperties
    <3>2. ASSUME NEW i \in 1 .. Len(b)
          PROVE  EntryCovers(NewEntry(t, b[i]))
      <4>1. b[i] \in Command
        BY <3>1, ElementOfSeq
      <4>2. Covers(b[i], b[i])
        BY <4>1 DEF Covers, Command
      <4> QED
        <5> DEFINE tk == NewTicket(t, b[i])
        <5>1. /\ NewEntry(t, b[i]).tickets = {tk} /\ NewEntry(t, b[i]).cmd = b[i]
              /\ tk.cmd = b[i]
          BY DEF NewEntry, NewTicket
        <5> HIDE DEF tk
        <5> QED
          BY <4>2, <5>1 DEF EntryCovers, Originates
    <3>3. Len(h) = Len(b) /\ \A i \in 1 .. Len(b) : h[i] = NewEntry(t, b[i])
      BY <3>1
    <3> QED
      BY <3>2, <3>3 DEF CoversAll
  <2> HIDE DEF h
  <2> QED
    BY <1>0, <2>1, <2>2 DEF Work, TypeOK
<1>2. ASSUME NEW t \in Threads, NEW extra \in Seq(Entry), CoversAll(extra),
             Claim(t, extra), hand' = hand \/ hand' = [hand EXCEPT ![t] = <<>>]
      PROVE  Work'
  <2>1. CoversAll(pending \o extra)
    BY <1>0, <1>2, ConcatCovers DEF Work, TypeOK
  <2> QED
    BY <1>0, <1>2, <2>1, NothingCovers DEF Work, Claim, Take, TypeOK
<1>3. ASSUME NEW t \in Threads, Drain(t) \/ FlushStale(t)
      PROVE  Work'
  <2>1. Claim(t, <<>>) /\ hand' = hand /\ <<>> \in Seq(Entry)
    BY <1>3, EmptySeq DEF Drain, FlushStale
  <2> QED
    BY <1>2, <2>1, NothingCovers
<1>4. ASSUME NEW t \in Threads, Proceed(t)
      PROVE  Work'
  <2>1. CASE Abandon(t)
    BY <1>0, <2>1, NothingCovers DEF Abandon, Work, TypeOK, shared
  <2>2. CASE PushAccepted(t)
    <3>1. hand[t] \in Seq(Entry) /\ Len(hand[t]) \in {1, 2}
      BY <1>0, <2>2, HandLength DEF PushAccepted
    <3>2. CoversAll(PushBatch(pending, hand[t]))
      BY <1>0, <3>1, PushBatchCovers DEF Work, TypeOK
    <3> QED
      BY <1>0, <2>2, <3>2, NothingCovers DEF PushAccepted, Work, TypeOK
  <2>3. CASE ClaimInline(t)
    <3>1. hand[t] \in Seq(Entry) /\ CoversAll(hand[t])
      BY <1>0 DEF TypeOK, Work
    <3> QED
      BY <1>2, <2>3, <3>1 DEF ClaimInline
  <2>4. CASE JoinInline(t)
    BY <1>0, <2>4, NothingCovers DEF JoinInline, Work, TypeOK, shared
  <2>5. CASE Run(t)
    <3> DEFINE e     == Head(batch[t])
               cmd   == [e.cmd EXCEPT !.attempt = IF t = Owner THEN @ + 1 ELSE @]
               again == [cmd |-> cmd, tickets |-> e.tickets, stale |-> FALSE]
    <3>1. /\ Running(t) /\ Step(t) /\ hand' = hand
          /\ \/ pending' = pending
             \/ /\ t = Owner => cmd.attempt < MaxAttempts
                /\ pending' = Push(pending, again)
      BY <2>5 DEF Run, RunCommand, RunPublishing, RunAgain, shared
    <3>2. batch[t] \in Seq(Entry) /\ batch[t] # <<>>
      BY <1>0, <3>1 DEF Running, TypeOK
    <3>3. CoversAll(Tail(batch[t])) /\ EntryCovers(e) /\ e \in Entry
      BY <3>2, TailCovers, HeadTailProperties DEF Work
    <3>4. CoversAll(pending')
      <4>1. CASE pending' = pending
        BY <4>1 DEF Work
      <4>2. CASE /\ t = Owner => cmd.attempt < MaxAttempts
                 /\ pending' = Push(pending, again)
        <5> HIDE DEF e
        <5>1. e.cmd \in Command /\ e.tickets \in SUBSET Ticket
          BY <3>3 DEF Entry
        <5>2. /\ cmd \in Command
              /\ cmd.kind = e.cmd.kind /\ cmd.ids = e.cmd.ids /\ cmd.gen = e.cmd.gen
          BY <4>2, <5>1, BoundsAssumption DEF Command
        <5> HIDE DEF cmd
        <5>3. again \in Entry
          BY <5>1, <5>2 DEF Entry
        <5>4. EntryCovers(again)
          BY <3>3, <5>2 DEF EntryCovers, Covers, Originates
        <5> HIDE DEF again
        <5> QED
          BY <1>0, <4>2, <5>3, <5>4, PushCovers DEF Work, TypeOK
      <4> QED
        BY <3>1, <4>1, <4>2
    <3> QED
      BY <1>0, <3>1, <3>3, <3>4 DEF Work, Step, TypeOK
  <2>6. CASE PushRejected(t) \/ AcquireExec(t) \/ FinishBatch(t) \/ ReleaseExecuting(t)
    BY <2>6 DEF PushRejected, AcquireExec, FinishBatch, ReleaseExecuting, Work, shared
  <2> QED
    BY <1>4, <2>1, <2>2, <2>3, <2>4, <2>5, <2>6 DEF Proceed
<1>5. CASE Shutdown
  BY <1>5, NothingCovers DEF Shutdown, Work, threads
<1>6. CASE Age
  <2> DEFINE i == First(Fresh)
             e == [pending[i] EXCEPT !.stale = TRUE]
  <2>1. pending' = [pending EXCEPT ![i] = e] /\ UNCHANGED <<hand, batch>>
    BY <1>6 DEF Age, threads
  <2>2. pending \in Seq(Entry)
    BY <1>0 DEF TypeOK
  <2>3. CASE i \in 1 .. Len(pending)
    <3>1. pending[i] \in Entry /\ EntryCovers(pending[i])
      BY <2>2, <2>3, ElementOfSeq DEF Work, CoversAll
    <3>2. e \in Entry /\ EntryCovers(e)
      BY <3>1 DEF Entry, EntryCovers
    <3> HIDE DEF i, e
    <3>3. /\ Len([pending EXCEPT ![i] = e]) = Len(pending)
          /\ \A j \in 1 .. Len(pending) :
               [pending EXCEPT ![i] = e][j] = IF j = i THEN e ELSE pending[j]
      BY <2>2, <3>2, ReplaceType
    <3>4. CoversAll([pending EXCEPT ![i] = e])
      BY <3>2, <3>3 DEF Work, CoversAll
    <3> QED
      BY <2>1, <3>4 DEF Work
  <2>4. CASE i \notin 1 .. Len(pending)
    <3>1. pending' = pending
      BY <2>1, <2>2, <2>4, LenProperties
    <3> QED
      BY <2>1, <3>1 DEF Work
  <2> QED
    BY <2>3, <2>4
<1>7. CASE UNCHANGED vars
  BY <1>7 DEF vars, shared, threads, Work
<1> QED
  BY <1>1, <1>3, <1>4, <1>5, <1>6, <1>7 DEF Next

\* The record a submission ended up in does at least what was submitted: ids
\* are added up, a newer snapshot stands for an older one and the other kinds
\* only absorb the same work (applyPush, sameWork, carryPendingSnapshotWork).
THEOREM WorkCoveredAlways == Spec => []WorkCovered
<1>1. Inv /\ Work => WorkCovered
  BY WorkImpliesCovered DEF Inv
<1> QED
  BY <1>1, InvInit, InvStep, WorkInit, WorkStep, PTL DEF Spec

-----------------------------------------------------------------------------
(***************************************************************************)
(* Injections and broadcasts.  A pending set with a broadcast has an       *)
(* injection before it: without that, a broadcast would be absorbed ahead  *)
(* of the injection submitted with it.                                     *)
(***************************************************************************)

Has(q, kind) == \E i \in 1 .. Len(q) : q[i].cmd.kind = kind

Follows(q) ==
  \A i \in 1 .. Len(q) : q[i].cmd.kind = "InjectPackage0" =>
    \E j \in 1 .. Len(q) : i < j /\ q[j].cmd.kind = "ReconcileLicenses"

Paired(q) == Follows(q) /\ (Has(q, "ReconcileLicenses") => Has(q, "InjectPackage0"))

Hot == {"InjectPackage0", "ReconcileLicenses"}

HotHand(h) ==
  h # <<>> => IF Len(h) = 2
              THEN /\ h[1].cmd.kind = "InjectPackage0"
                   /\ h[2].cmd.kind = "ReconcileLicenses"
              ELSE h[1].cmd.kind \notin Hot

\* A push appends a record of a kind no pending record of which absorbs it, or
\* leaves the kinds of the pending records alone.
LEMMA PushKinds ==
  ASSUME NEW q \in Seq(Entry), NEW e \in Entry
  PROVE  \/ /\ e.cmd.kind \in Hot => ~Has(q, e.cmd.kind)
            /\ Len(Push(q, e)) = Len(q) + 1
            /\ \A j \in 1 .. Len(q) : Push(q, e)[j] = q[j]
            /\ Push(q, e)[Len(q) + 1] = e
         \/ /\ Has(q, e.cmd.kind)
            /\ Len(Push(q, e)) = Len(q)
            /\ \A j \in 1 .. Len(q) : Push(q, e)[j].cmd.kind = q[j].cmd.kind
<1>1. ASSUME Absorbing(q, e.cmd) = {}, Push(q, e) = Append(q, e)
      PROVE  /\ e.cmd.kind \in Hot => ~Has(q, e.cmd.kind)
             /\ Len(Push(q, e)) = Len(q) + 1
             /\ \A j \in 1 .. Len(q) : Push(q, e)[j] = q[j]
             /\ Push(q, e)[Len(q) + 1] = e
  <2>1. /\ Len(q) \in Nat /\ Len(Append(q, e)) = Len(q) + 1
        /\ \A j \in 1 .. Len(q) + 1 :
             Append(q, e)[j] = IF j <= Len(q) THEN q[j] ELSE e
    BY LenProperties, AppendProperties
  <2>2. e.cmd.kind \in Hot => ~Has(q, e.cmd.kind)
    BY <1>1, LenProperties DEF Absorbing, sameWork, Has, Hot
  <2> QED
    BY <1>1, <2>1, <2>2
<1>2. ASSUME NEW i \in 1 .. Len(q), i \in Absorbing(q, e.cmd),
             Push(q, e) = [q EXCEPT ![i] = Coalesce(q[i], e)]
      PROVE  /\ Has(q, e.cmd.kind)
             /\ Len(Push(q, e)) = Len(q)
             /\ \A j \in 1 .. Len(q) : Push(q, e)[j].cmd.kind = q[j].cmd.kind
  <2> DEFINE c == q[i].cmd
             f == Coalesce(q[i], e)
  <2>1. q[i] \in Entry /\ c \in Command /\ e.cmd \in Command
    <3>1. q[i] \in Entry
      BY ElementOfSeq
    <3> QED
      BY <3>1 DEF Entry
  <2>2. c.kind = e.cmd.kind
    BY <1>2 DEF Absorbing, sameWork
  <2>3. Merged(c, e.cmd).kind = c.kind
    <3> HIDE DEF c
    <3> QED
      BY <2>1, <2>2 DEF Merged, carryPendingSnapshotWork, Command
  <2>4. f \in Entry /\ f.cmd.kind = c.kind
    BY <2>1, <2>3, CoalesceType
  <2> HIDE DEF f
  <2>5. /\ Len([q EXCEPT ![i] = f]) = Len(q)
        /\ \A j \in 1 .. Len(q) : [q EXCEPT ![i] = f][j] = IF j = i THEN f ELSE q[j]
    BY <2>4, ReplaceType
  <2> QED
    BY <1>2, <2>2, <2>4, <2>5 DEF Has, f
<1> QED
  BY <1>1, <1>2, PushCases

LEMMA PushOtherPaired ==
  ASSUME NEW q \in Seq(Entry), NEW e \in Entry, e.cmd.kind \notin Hot, Paired(q)
  PROVE  Paired(Push(q, e))
<1> DEFINE r == Push(q, e)
<1>1. Len(q) \in Nat
  BY LenProperties
<1>2. /\ Len(r) = Len(q) \/ (Len(r) = Len(q) + 1 /\ r[Len(q) + 1] = e)
      /\ \A j \in 1 .. Len(q) : r[j].cmd.kind = q[j].cmd.kind
  BY PushKinds
<1> HIDE DEF r
<1>3. \A j \in 1 .. Len(r) : r[j].cmd.kind \in Hot => j \in 1 .. Len(q)
  BY <1>1, <1>2
<1>4. \A j \in 1 .. Len(q) : j \in 1 .. Len(r)
  BY <1>1, <1>2
<1>5. Follows(r)
  BY <1>2, <1>3, <1>4 DEF Paired, Follows, Hot
<1>6. Has(r, "ReconcileLicenses") => Has(r, "InjectPackage0")
  BY <1>2, <1>3, <1>4 DEF Paired, Has, Hot
<1> QED
  BY <1>5, <1>6 DEF Paired, r

\* A hot-add is absorbed by the pair that is pending, or becomes that pair.
LEMMA PushHotPaired ==
  ASSUME NEW q \in Seq(Entry), NEW e \in Entry, NEW f \in Entry,
         e.cmd.kind = "InjectPackage0", f.cmd.kind = "ReconcileLicenses",
         Paired(q)
  PROVE  Paired(Push(Push(q, e), f))
<1> DEFINE r == Push(q, e)
           s == Push(r, f)
<1>1. Len(q) \in Nat /\ r \in Seq(Entry) /\ Len(r) \in Nat
  BY LenProperties, PushType
<1>2. CASE Has(q, "InjectPackage0")
  <2>1. Len(r) = Len(q) /\ \A j \in 1 .. Len(q) : r[j].cmd.kind = q[j].cmd.kind
    BY <1>2, PushKinds DEF Hot
  <2> HIDE DEF r
  <2>2. Has(r, "ReconcileLicenses")
    BY <1>2, <2>1 DEF Has, Paired, Follows
  <2>3. Len(s) = Len(r) /\ \A j \in 1 .. Len(r) : s[j].cmd.kind = r[j].cmd.kind
    BY <1>1, <2>2, PushKinds DEF Hot
  <2> HIDE DEF s
  <2>4. Len(s) = Len(q) /\ \A j \in 1 .. Len(q) : s[j].cmd.kind = q[j].cmd.kind
    BY <2>1, <2>3
  <2>5. Paired(s)
    BY <2>4 DEF Paired, Follows, Has
  <2> QED
    BY <2>5 DEF s, r
<1>3. CASE ~Has(q, "InjectPackage0")
  <2>1. /\ Len(r) = Len(q) + 1
        /\ \A j \in 1 .. Len(q) : r[j] = q[j]
        /\ r[Len(q) + 1] = e
    BY <1>3, PushKinds
  <2> HIDE DEF r
  <2>2. ~Has(r, "ReconcileLicenses")
    <3>1. ~Has(q, "ReconcileLicenses")
      BY <1>3 DEF Paired
    <3> QED
      BY <1>1, <2>1, <3>1 DEF Has
  <2>3. /\ Len(s) = Len(r) + 1
        /\ \A j \in 1 .. Len(r) : s[j] = r[j]
        /\ s[Len(r) + 1] = f
    BY <1>1, <2>2, PushKinds
  <2> HIDE DEF s
  <2>4. /\ Len(s) = Len(q) + 2
        /\ s[Len(q) + 1].cmd.kind = "InjectPackage0"
        /\ s[Len(q) + 2].cmd.kind = "ReconcileLicenses"
    BY <1>1, <2>1, <2>3
  <2>5. Has(s, "InjectPackage0")
    BY <1>1, <2>4 DEF Has
  <2>6. Follows(s)
    <3>1. \A i \in 1 .. Len(s) : s[i].cmd.kind = "InjectPackage0" => i < Len(q) + 2
      BY <1>1, <2>4
    <3>2. Len(q) + 2 \in 1 .. Len(s)
      BY <1>1, <2>4
    <3> QED
      BY <2>4, <3>1, <3>2 DEF Follows
  <2> QED
    BY <2>5, <2>6 DEF Paired, s, r
<1> QED
  BY <1>2, <1>3

LEMMA PushBatchPaired ==
  ASSUME NEW q \in Seq(Entry), NEW b \in Seq(Entry), Len(b) \in {1, 2},
         Paired(q), HotHand(b)
  PROVE  Paired(PushBatch(q, b))
<1>1. /\ Len(b) = 1 \/ Len(b) = 2
      /\ b # <<>> /\ b[1] \in Entry
      /\ Len(b) = 2 => b[2] \in Entry
  BY BatchRecords
<1>2. CASE Len(b) = 1
  BY <1>1, <1>2, PushOtherPaired DEF HotHand, PushBatch
<1>3. CASE Len(b) = 2
  BY <1>1, <1>3, PushHotPaired DEF HotHand, PushBatch
<1> QED
  BY <1>1, <1>2, <1>3

LEMMA ConcatFollows ==
  ASSUME NEW q \in Seq(Entry), NEW r \in Seq(Entry), Follows(q), Follows(r)
  PROVE  Follows(q \o r)
<1> DEFINE s == q \o r
<1>1. /\ Len(s) = Len(q) + Len(r) /\ Len(q) \in Nat /\ Len(r) \in Nat
      /\ \A i \in 1 .. Len(s) : s[i] = IF i <= Len(q) THEN q[i] ELSE r[i - Len(q)]
  BY ConcatProperties, LenProperties
<1> HIDE DEF s
<1>2. ASSUME NEW i \in 1 .. Len(s), s[i].cmd.kind = "InjectPackage0"
      PROVE  \E j \in 1 .. Len(s) : i < j /\ s[j].cmd.kind = "ReconcileLicenses"
  <2>1. CASE i \in 1 .. Len(q)
    <3>1. PICK j \in 1 .. Len(q) : i < j /\ q[j].cmd.kind = "ReconcileLicenses"
      BY <1>1, <1>2, <2>1 DEF Follows
    <3> QED
      BY <1>1, <3>1
  <2>2. CASE i - Len(q) \in 1 .. Len(r)
    <3>1. s[i] = r[i - Len(q)]
      BY <1>1, <2>2
    <3>2. PICK j \in 1 .. Len(r) : /\ i - Len(q) < j
                                   /\ r[j].cmd.kind = "ReconcileLicenses"
      BY <1>2, <2>2, <3>1 DEF Follows
    <3>3. Len(q) + j \in 1 .. Len(s) /\ ~(Len(q) + j <= Len(q))
          /\ (Len(q) + j) - Len(q) = j /\ i < Len(q) + j
      BY <1>1, <3>2
    <3>4. s[Len(q) + j] = r[j]
      BY <1>1, <3>3
    <3> QED
      BY <3>2, <3>3, <3>4
  <2> QED
    BY <1>1, <2>1, <2>2
<1> QED
  BY <1>2 DEF Follows, s

LEMMA TailFollows ==
  ASSUME NEW q \in Seq(Entry), q # <<>>, Follows(q)
  PROVE  /\ Follows(Tail(q))
         /\ Head(q).cmd.kind = "InjectPackage0" => Has(Tail(q), "ReconcileLicenses")
         /\ Has(q, "ReconcileLicenses") /\ Head(q).cmd.kind # "ReconcileLicenses"
              => Has(Tail(q), "ReconcileLicenses")
<1> DEFINE r == Tail(q)
<1>1. /\ Len(r) = Len(q) - 1 /\ Len(q) \in Nat \ {0} /\ Head(q) = q[1]
      /\ \A i \in 1 .. Len(r) : r[i] = q[i + 1]
  BY HeadTailProperties, EmptySeq
<1> HIDE DEF r
<1>2. \A j \in 1 .. Len(q) : 1 < j => j - 1 \in 1 .. Len(r) /\ r[j - 1] = q[j]
  BY <1>1
<1>3. \A j \in 1 .. Len(q) : 1 < j /\ q[j].cmd.kind = "ReconcileLicenses"
        => Has(r, "ReconcileLicenses")
  BY <1>2 DEF Has
<1>4. Follows(r)
  <2> SUFFICES ASSUME NEW i \in 1 .. Len(r), r[i].cmd.kind = "InjectPackage0"
               PROVE  \E j \in 1 .. Len(r) : i < j /\ r[j].cmd.kind = "ReconcileLicenses"
    BY DEF Follows
  <2>1. i + 1 \in 1 .. Len(q) /\ q[i + 1].cmd.kind = "InjectPackage0"
    BY <1>1
  <2>2. PICK j \in 1 .. Len(q) : i + 1 < j /\ q[j].cmd.kind = "ReconcileLicenses"
    BY <2>1 DEF Follows
  <2>3. j - 1 \in 1 .. Len(r) /\ i < j - 1 /\ r[j - 1] = q[j]
    BY <1>1, <1>2, <2>2
  <2> QED
    BY <2>2, <2>3
<1>5. Head(q).cmd.kind = "InjectPackage0" => Has(r, "ReconcileLicenses")
  BY <1>1, <1>3 DEF Follows
<1>6. Has(q, "ReconcileLicenses") /\ Head(q).cmd.kind # "ReconcileLicenses"
        => Has(r, "ReconcileLicenses")
  BY <1>1, <1>3 DEF Has
<1> QED
  BY <1>4, <1>5, <1>6 DEF r

LEMMA HotHandFollows ==
  ASSUME NEW h \in Seq(Entry), Len(h) \in 0 .. 2, HotHand(h)
  PROVE  Follows(h)
<1>1. CASE h = <<>>
  BY <1>1 DEF Follows
<1>2. CASE h # <<>>
  <2>1. Len(h) \in {1, 2}
    BY <1>2, EmptySeq
  <2> QED
    BY <1>2, <2>1 DEF HotHand, Follows, Hot
<1> QED
  BY <1>1, <1>2

\* What is owed once an injection has run: the running thread still has a
\* broadcast ahead of it.
Owed ==
  unreconciled # {} =>
    \E t \in Threads : pc[t] = "run" /\ Has(batch[t], "ReconcileLicenses")

Announcing ==
  /\ Paired(pending)
  /\ \A t \in Threads : HotHand(hand[t]) /\ Follows(batch[t])
  /\ Owed

LEMMA AnnouncingImpliesBroadcast ==
  ASSUME TypeOK, Hands, Announcing
  PROVE  InjectionIsBroadcast
<1>1. /\ \A x \in DOMAIN Queues :
           \/ x = <<"pending", NoThread>>
           \/ \E t \in Threads : x = <<"hand", t>> \/ x = <<"batch", t>>
      /\ Queues[<<"pending", NoThread>>] = pending
      /\ \A t \in Threads : Queues[<<"hand", t>>] = hand[t]
                            /\ Queues[<<"batch", t>>] = batch[t]
  BY DEF Queues
<1>2. \A t \in Threads : Follows(hand[t])
  BY HotHandFollows DEF TypeOK, Hands, Announcing
<1>3. \A x \in DOMAIN Queues : Follows(Queues[x]) /\ Queues[x] \in Seq(Entry)
  BY <1>1, <1>2 DEF Announcing, Paired, TypeOK
<1> HIDE DEF Queues
<1>4. \A x \in DOMAIN Queues : DOMAIN Queues[x] = 1 .. Len(Queues[x])
  BY <1>3, LenProperties
<1>5. \A x \in DOMAIN Queues : BroadcastFollows(Queues[x])
  BY <1>3, <1>4 DEF BroadcastFollows, Follows
<1>6. \A t \in Threads : DOMAIN batch[t] = 1 .. Len(batch[t])
  BY LenProperties DEF TypeOK
<1> QED
  BY <1>5, <1>6 DEF InjectionIsBroadcast, Announcing, Owed, Has

LEMMA NothingFollows == Paired(<<>>) /\ Follows(<<>>) /\ HotHand(<<>>)
BY DEF Paired, Follows, Has, HotHand

LEMMA AnnouncingInit == Init => Announcing
BY NothingFollows DEF Init, Announcing, Owed

\* A step that runs nothing leaves what is owed with its thread.
LEMMA OwedKept ==
  ASSUME Announcing, UNCHANGED unreconciled,
         \A t \in Threads : pc[t] = "run" /\ Has(batch[t], "ReconcileLicenses")
            => pc'[t] = "run" /\ batch'[t] = batch[t]
  PROVE  Owed'
BY DEF Announcing, Owed

LEMMA RunAnnouncing ==
  ASSUME TypeOK, Ownership, Announcing, NEW t \in Threads, Run(t)
  PROVE  Announcing'
<1> DEFINE e     == Head(batch[t])
           cmd   == [e.cmd EXCEPT !.attempt = IF t = Owner THEN @ + 1 ELSE @]
           again == [cmd |-> cmd, tickets |-> e.tickets, stale |-> FALSE]
<1>1. /\ Running(t) /\ Step(t) /\ UNCHANGED <<pc, hand>>
      /\ \/ pending' = pending
         \/ /\ e.cmd.kind = "EnsureCompat"
            /\ t = Owner => cmd.attempt < MaxAttempts
            /\ pending' = Push(pending, again)
      /\ \/ unreconciled' = UnreconciledAfter(e.cmd)
         \/ e.cmd.kind = "EnsureCompat" /\ unreconciled' = unreconciled
  BY DEF Run, RunCommand, RunPublishing, RunAgain, shared
<1>2. batch[t] \in Seq(Entry) /\ batch[t] # <<>>
  BY <1>1 DEF Running, TypeOK
<1>3. /\ e \in Entry
      /\ Follows(Tail(batch[t]))
      /\ e.cmd.kind = "InjectPackage0" => Has(Tail(batch[t]), "ReconcileLicenses")
      /\ Has(batch[t], "ReconcileLicenses") /\ e.cmd.kind # "ReconcileLicenses"
           => Has(Tail(batch[t]), "ReconcileLicenses")
  BY <1>2, TailFollows, HeadTailProperties DEF Announcing
<1>4. batch'[t] = Tail(batch[t]) /\ \A u \in Threads \ {t} : batch'[u] = batch[u]
  BY <1>1 DEF Step, TypeOK
<1>5. pc[t] = "run" /\ \A u \in Threads : pc[u] = "run" => u = t
  BY <1>1 DEF Running, Ownership
<1> HIDE DEF e
<1>6. Paired(pending')
  <2>1. CASE pending' = pending
    BY <2>1 DEF Announcing
  <2>2. CASE /\ e.cmd.kind = "EnsureCompat"
             /\ t = Owner => cmd.attempt < MaxAttempts
             /\ pending' = Push(pending, again)
    <3>1. e.cmd \in Command /\ e.tickets \in SUBSET Ticket
      BY <1>3 DEF Entry
    <3>2. cmd \in Command /\ cmd.kind = "EnsureCompat"
      BY <2>2, <3>1, BoundsAssumption DEF Command
    <3> HIDE DEF cmd
    <3>3. again \in Entry /\ again.cmd.kind \notin Hot
      BY <3>1, <3>2 DEF Entry, Hot
    <3> HIDE DEF again
    <3> QED
      BY <2>2, <3>3, PushOtherPaired DEF Announcing, TypeOK
  <2> QED
    BY <1>1, <2>1, <2>2
<1>7. Owed'
  <2>1. CASE e.cmd.kind = "ReconcileLicenses"
    BY <1>1, <2>1 DEF UnreconciledAfter, Owed
  <2>2. CASE e.cmd.kind = "InjectPackage0"
    BY <1>1, <1>3, <1>4, <1>5, <2>2 DEF Owed
  <2>3. CASE e.cmd.kind \notin Hot
    <3>1. unreconciled' = unreconciled
      BY <1>1, <2>3 DEF UnreconciledAfter, Hot
    <3>2. unreconciled # {} => Has(batch[t], "ReconcileLicenses")
      BY <1>5 DEF Announcing, Owed
    <3> QED
      BY <1>1, <1>3, <1>4, <1>5, <2>3, <3>1, <3>2 DEF Owed, Hot
  <2> QED
    BY <2>1, <2>2, <2>3 DEF Hot
<1> QED
  BY <1>1, <1>3, <1>4, <1>6, <1>7 DEF Announcing

LEMMA AnnouncingStep == Inv /\ Ownership /\ Announcing /\ [Next]_vars => Announcing'
<1> SUFFICES ASSUME Inv, Ownership, Announcing, [Next]_vars PROVE Announcing'
  OBVIOUS
<1>0. TypeOK /\ Hands
  BY DEF Inv
<1>1. ASSUME NEW t \in Threads, NEW b \in Batches, Submit(t, b)
      PROVE  Announcing'
  <2> DEFINE h == [i \in DOMAIN b |-> NewEntry(t, b[i])]
  <2>1. /\ pc[t] = "out" /\ pc' = [pc EXCEPT ![t] = "hand"]
        /\ hand' = [hand EXCEPT ![t] = h]
        /\ UNCHANGED <<pending, batch, unreconciled>>
    BY <1>1 DEF Submit, shared, history
  <2>2. HotHand(h)
    <3>1. b \in Seq(Command) /\ DOMAIN b = 1 .. Len(b) /\ Len(b) \in {1, 2}
      BY ClientAssumption, LenProperties
    <3>2. Len(h) = Len(b) /\ \A i \in 1 .. Len(b) : h[i].cmd = b[i]
      BY <3>1 DEF NewEntry
    <3>3. IF Len(b) = 2
          THEN b[1].kind = "InjectPackage0" /\ b[2].kind = "ReconcileLicenses"
          ELSE b[1].kind \notin Hot
      BY HotAddAssumption DEF Hot
    <3> HIDE DEF h
    <3> QED
      BY <3>1, <3>2, <3>3 DEF HotHand
  <2> HIDE DEF h
  <2>3. Owed'
    BY <1>0, <2>1, OwedKept DEF TypeOK
  <2> QED
    BY <1>0, <2>1, <2>2, <2>3 DEF Announcing, TypeOK
<1>2. ASSUME NEW t \in Threads, NEW extra \in Seq(Entry), Follows(extra),
             Claim(t, extra), pc[t] # "run", UNCHANGED unreconciled,
             hand' = hand \/ hand' = [hand EXCEPT ![t] = <<>>]
      PROVE  Announcing'
  <2>1. Follows(pending \o extra)
    BY <1>0, <1>2, ConcatFollows DEF Announcing, Paired, TypeOK
  <2>2. /\ pending' = <<>> /\ batch' = [batch EXCEPT ![t] = pending \o extra]
        /\ pc' = [pc EXCEPT ![t] = "exec"]
    BY <1>2 DEF Claim, Take
  <2>3. Owed'
    BY <1>0, <1>2, <2>2, OwedKept DEF TypeOK
  <2> QED
    BY <1>0, <1>2, <2>1, <2>2, <2>3, NothingFollows DEF Announcing, TypeOK
<1>3. ASSUME NEW t \in Threads, Drain(t) \/ FlushStale(t)
      PROVE  Announcing'
  <2>1. /\ Claim(t, <<>>) /\ hand' = hand /\ <<>> \in Seq(Entry)
        /\ pc[t] # "run" /\ UNCHANGED unreconciled
    BY <1>3, EmptySeq DEF Drain, FlushStale, history
  <2> QED
    BY <1>2, <2>1, NothingFollows
<1>4. ASSUME NEW t \in Threads, Proceed(t)
      PROVE  Announcing'
  <2>1. CASE Abandon(t)
    <3>1. /\ pc[t] = "hand" /\ pc' = [pc EXCEPT ![t] = "out"]
          /\ hand' = [hand EXCEPT ![t] = <<>>]
          /\ UNCHANGED <<pending, batch, unreconciled>>
      BY <2>1 DEF Abandon, shared
    <3>2. Owed'
      BY <1>0, <3>1, OwedKept DEF TypeOK
    <3> QED
      BY <1>0, <3>1, <3>2, NothingFollows DEF Announcing, TypeOK
  <2>2. CASE PushAccepted(t)
    <3>1. hand[t] \in Seq(Entry) /\ Len(hand[t]) \in {1, 2} /\ pending \in Seq(Entry)
      BY <1>0, <2>2, HandLength DEF PushAccepted, TypeOK
    <3>2. Paired(PushBatch(pending, hand[t]))
      BY <3>1, PushBatchPaired DEF Announcing
    <3>3. /\ pc[t] # "run" /\ pc' = [pc EXCEPT ![t] = "out"]
          /\ hand' = [hand EXCEPT ![t] = <<>>]
          /\ pending' = PushBatch(pending, hand[t])
          /\ UNCHANGED <<batch, unreconciled>>
      BY <2>2 DEF PushAccepted, history
    <3>4. Owed'
      BY <1>0, <3>3, OwedKept DEF TypeOK
    <3> QED
      BY <1>0, <3>2, <3>3, <3>4, NothingFollows DEF Announcing, TypeOK
  <2>3. CASE ClaimInline(t)
    <3>1. hand[t] \in Seq(Entry) /\ Follows(hand[t])
      BY <1>0, HotHandFollows DEF TypeOK, Hands, Announcing
    <3>2. /\ Claim(t, hand[t]) /\ pc[t] # "run" /\ UNCHANGED unreconciled
          /\ hand' = [hand EXCEPT ![t] = <<>>]
      BY <2>3 DEF ClaimInline, history
    <3> QED
      BY <1>2, <3>1, <3>2
  <2>4. CASE JoinInline(t)
    <3>1. Follows(hand[t])
      BY <1>0, HotHandFollows DEF TypeOK, Hands, Announcing
    <3>2. /\ pc[t] # "run" /\ pc' = [pc EXCEPT ![t] = "exec"]
          /\ hand' = [hand EXCEPT ![t] = <<>>]
          /\ batch' = [batch EXCEPT ![t] = hand[t]]
          /\ UNCHANGED <<pending, unreconciled>>
      BY <2>4 DEF JoinInline, shared, history
    <3>3. Owed'
      BY <1>0, <3>2, OwedKept DEF TypeOK
    <3> QED
      BY <1>0, <3>1, <3>2, <3>3, NothingFollows DEF Announcing, TypeOK
  <2>5. CASE Run(t)
    BY <1>0, <2>5, RunAnnouncing
  <2>6. CASE PushRejected(t) \/ AcquireExec(t) \/ FinishBatch(t) \/ ReleaseExecuting(t)
    <3>1. UNCHANGED <<pending, hand, batch, unreconciled>>
      BY <2>6 DEF PushRejected, AcquireExec, FinishBatch, ReleaseExecuting,
                  shared, history
    <3>2. CASE FinishBatch(t)
      <4>1. ~Has(batch[t], "ReconcileLicenses")
        BY <3>2 DEF FinishBatch, Has
      <4>2. \A u \in Threads \ {t} : pc'[u] = pc[u]
        BY <1>0, <3>2 DEF FinishBatch, Return, TypeOK
      <4> QED
        BY <3>1, <4>1, <4>2, OwedKept DEF Announcing
    <3>3. CASE PushRejected(t) \/ AcquireExec(t) \/ ReleaseExecuting(t)
      <4>1. pc[t] # "run" /\ \A u \in Threads \ {t} : pc'[u] = pc[u]
        BY <1>0, <3>3 DEF PushRejected, AcquireExec, ReleaseExecuting, Return, TypeOK
      <4> QED
        BY <3>1, <4>1, OwedKept DEF Announcing
    <3> QED
      BY <2>6, <3>2, <3>3
  <2> QED
    BY <1>4, <2>1, <2>2, <2>3, <2>4, <2>5, <2>6 DEF Proceed
<1>5. CASE Shutdown
  BY <1>5, NothingFollows DEF Shutdown, Announcing, Owed, threads
<1>6. CASE Age
  <2> DEFINE i == First(Fresh)
             e == [pending[i] EXCEPT !.stale = TRUE]
  <2>1. /\ pending' = [pending EXCEPT ![i] = e]
        /\ UNCHANGED <<pc, hand, batch, unreconciled>>
    BY <1>6 DEF Age, threads, history
  <2>2. pending \in Seq(Entry)
    BY <1>0 DEF TypeOK
  <2>3. Paired(pending')
    <3>1. CASE i \in 1 .. Len(pending)
      <4>1. pending[i] \in Entry
        BY <2>2, <3>1, ElementOfSeq
      <4>2. e \in Entry /\ e.cmd = pending[i].cmd
        BY <4>1 DEF Entry
      <4> HIDE DEF i, e
      <4>3. /\ Len([pending EXCEPT ![i] = e]) = Len(pending)
            /\ \A j \in 1 .. Len(pending) :
                 [pending EXCEPT ![i] = e][j] = IF j = i THEN e ELSE pending[j]
        BY <2>2, <4>2, ReplaceType
      <4>4. /\ Len(pending') = Len(pending)
            /\ \A j \in 1 .. Len(pending) : pending'[j].cmd = pending[j].cmd
        BY <2>1, <4>2, <4>3
      <4> QED
        BY <4>4 DEF Announcing, Paired, Follows, Has
    <3>2. CASE i \notin 1 .. Len(pending)
      <4>1. pending' = pending
        BY <2>1, <2>2, <3>2, LenProperties
      <4> QED
        BY <4>1 DEF Announcing
    <3> QED
      BY <3>1, <3>2
  <2> HIDE DEF i, e
  <2>4. Owed'
    BY <2>1, OwedKept
  <2> QED
    BY <2>1, <2>3, <2>4 DEF Announcing
<1>7. CASE UNCHANGED vars
  BY <1>7 DEF vars, shared, threads, history, Announcing, Owed
<1> QED
  BY <1>1, <1>3, <1>4, <1>5, <1>6, <1>7 DEF Next

\* An injection is followed by a license broadcast wherever it is, and once it
\* has run the same window still has the broadcast ahead of it (submitHotAdd,
\* pushBatch, runBatch).
THEOREM InjectionIsBroadcastAlways == Spec => []InjectionIsBroadcast
<1>1. Inv /\ Announcing => InjectionIsBroadcast
  BY AnnouncingImpliesBroadcast DEF Inv
<1> QED
  BY <1>1, InvInit, InvStep, OwnershipInit, OwnershipStep,
     AnnouncingInit, AnnouncingStep, PTL DEF Spec

-----------------------------------------------------------------------------
(***************************************************************************)
(* What a record that stays pending keeps.                                 *)
(***************************************************************************)

\* The record `new' may be what a push makes of `old'.
Grown(old, new) ==
  /\ old.tickets \subseteq new.tickets
  /\ old.stale => new.stale
  /\ old.cmd.added \cap new.cmd.ids \subseteq new.cmd.added

LEMMA MergedKeeps ==
  ASSUME NEW c \in Command, NEW d \in Command
  PROVE  /\ c.added \cap Merged(c, d).ids \subseteq Merged(c, d).added
         /\ d.kind # "SyncPackage0" => Merged(c, d).added = c.added
<1>1. CASE d.kind = "InjectPackage0"
  BY <1>1 DEF Merged, Command
<1>2. CASE d.kind = "SyncPackage0" /\ d.gen > c.gen
  <2>1. Merged(c, d) = carryPendingSnapshotWork(c, d)
    BY <1>2 DEF Merged
  <2>2. /\ Merged(c, d).ids = d.ids
        /\ Merged(c, d).added = (c.added \cup d.added) \cap d.ids
    BY <2>1 DEF carryPendingSnapshotWork, Command
  <2> QED
    BY <1>2, <2>2
<1>3. CASE d.kind # "InjectPackage0" /\ ~(d.kind = "SyncPackage0" /\ d.gen > c.gen)
  BY <1>3 DEF Merged
<1> QED
  BY <1>1, <1>2, <1>3

LEMMA PushGrows ==
  ASSUME NEW q \in Seq(Entry), NEW e \in Entry, NEW i \in 1 .. Len(q)
  PROVE  /\ i \in 1 .. Len(Push(q, e))
         /\ Grown(q[i], Push(q, e)[i])
         /\ e.cmd.kind # "SyncPackage0" => Push(q, e)[i].cmd.added = q[i].cmd.added
<1>1. CASE Push(q, e) = Append(q, e)
  <2>1. /\ Len(q) \in Nat /\ Len(Append(q, e)) = Len(q) + 1
        /\ Append(q, e)[i] = q[i]
    BY LenProperties, AppendProperties
  <2> QED
    BY <1>1, <2>1 DEF Grown
<1>2. ASSUME NEW k \in 1 .. Len(q), Push(q, e) = [q EXCEPT ![k] = Coalesce(q[k], e)]
      PROVE  /\ i \in 1 .. Len(Push(q, e))
             /\ Grown(q[i], Push(q, e)[i])
             /\ e.cmd.kind # "SyncPackage0"
                  => Push(q, e)[i].cmd.added = q[i].cmd.added
  <2> DEFINE old == q[k]
             f   == Coalesce(old, e)
  <2>1. old \in Entry
    BY ElementOfSeq
  <2> HIDE DEF old
  <2>2. /\ f \in Entry
        /\ f.cmd = Merged(old.cmd, e.cmd)
        /\ f.tickets = old.tickets \cup e.tickets
        /\ f.stale = old.stale
    BY <2>1, CoalesceType DEF Coalesce, Entry
  <2>3. old.cmd \in Command /\ e.cmd \in Command
    BY <2>1 DEF Entry
  <2> HIDE DEF f
  <2>4. /\ Grown(old, f)
        /\ e.cmd.kind # "SyncPackage0" => f.cmd.added = old.cmd.added
    BY <2>2, <2>3, MergedKeeps DEF Grown
  <2>5. /\ Len([q EXCEPT ![k] = f]) = Len(q)
        /\ [q EXCEPT ![k] = f][i] = IF i = k THEN f ELSE q[i]
    BY <2>2, ReplaceType
  <2>6. Len(Push(q, e)) = Len(q) /\ Push(q, e)[i] = IF i = k THEN f ELSE q[i]
    BY <1>2, <2>5 DEF f, old
  <2>7. CASE i = k
    BY <2>4, <2>6, <2>7 DEF old
  <2>8. CASE i # k
    BY <2>6, <2>8 DEF Grown
  <2> QED
    BY <2>7, <2>8
<1> QED
  BY <1>1, <1>2, PushCases

LEMMA PushBatchGrows ==
  ASSUME NEW q \in Seq(Entry), NEW b \in Seq(Entry), Len(b) \in {1, 2}, HotHand(b),
         NEW i \in 1 .. Len(q)
  PROVE  i \in 1 .. Len(PushBatch(q, b)) /\ Grown(q[i], PushBatch(q, b)[i])
<1>1. /\ Len(b) = 1 \/ Len(b) = 2
      /\ b # <<>> /\ b[1] \in Entry
      /\ Len(b) = 2 => b[2] \in Entry
  BY BatchRecords
<1> DEFINE r == Push(q, b[1])
           s == Push(r, b[2])
<1>2. /\ i \in 1 .. Len(r) /\ Grown(q[i], r[i]) /\ r \in Seq(Entry)
      /\ b[1].cmd.kind # "SyncPackage0" => r[i].cmd.added = q[i].cmd.added
  BY <1>1, PushGrows, PushType
<1>3. CASE Len(b) = 1
  BY <1>2, <1>3 DEF PushBatch
<1>4. CASE Len(b) = 2
  <2>1. /\ b[1].cmd.kind = "InjectPackage0"
        /\ b[2].cmd.kind = "ReconcileLicenses"
    BY <1>1, <1>4 DEF HotHand
  <2> HIDE DEF r
  <2>2. /\ i \in 1 .. Len(s) /\ Grown(r[i], s[i])
        /\ b[2].cmd.kind # "SyncPackage0" => s[i].cmd.added = r[i].cmd.added
    BY <1>1, <1>2, <1>4, PushGrows
  <2> HIDE DEF s
  <2>3. Grown(q[i], s[i])
    BY <1>2, <2>1, <2>2 DEF Grown
  <2> QED
    BY <1>4, <2>2, <2>3 DEF PushBatch, r, s
<1> QED
  BY <1>1, <1>3, <1>4

Keeps ==
  \A i \in DOMAIN pending : \A j \in DOMAIN pending' :
    LET old == pending[i]
        new == pending'[j]
    IN  /\ old.tickets \subseteq new.tickets
        /\ ~\E t \in Threads : pc[t] = "run" /\ batch'[t] # batch[t]
        => /\ old.stale => new.stale
           /\ old.cmd.added \cap new.cmd.ids \subseteq new.cmd.added

\* Tickets tell which record is which, so it is enough to follow the places.
LEMMA KeepsWhere ==
  ASSUME pending \in Seq(Entry), Work, pending' \in Seq(Entry), Apart(pending'),
         \A i \in 1 .. Len(pending) :
           i \in 1 .. Len(pending') /\ Grown(pending[i], pending'[i])
  PROVE  Keeps
<1>1. DOMAIN pending = 1 .. Len(pending) /\ DOMAIN pending' = 1 .. Len(pending')
  BY LenProperties
<1>2. ASSUME NEW i \in 1 .. Len(pending), NEW j \in 1 .. Len(pending'),
             pending[i].tickets \subseteq pending'[j].tickets
      PROVE  Grown(pending[i], pending'[j])
  <2>1. PICK tk \in pending[i].tickets : TRUE
    BY DEF Work, CoversAll, EntryCovers
  <2>2. tk \in pending'[i].tickets /\ tk \in pending'[j].tickets
    BY <1>2, <2>1 DEF Grown
  <2>3. i = j
    BY <1>1, <2>2 DEF Apart
  <2> QED
    BY <2>3
<1> QED
  BY <1>1, <1>2 DEF Keeps, Grown

LEMMA KeepsStep ==
  Inv /\ Places /\ Work /\ Announcing /\ [Next]_vars => Keeps
<1> SUFFICES ASSUME Inv, Places, Work, Announcing, [Next]_vars PROVE Keeps
  OBVIOUS
<1>0. /\ TypeOK /\ Hands /\ TypeOK' /\ Apart(pending') /\ Apart(pending)
      /\ pending \in Seq(Entry) /\ pending' \in Seq(Entry)
  BY InvStep, PlacesStep DEF Inv, Places, Records, TypeOK
<1>1. CASE pending' = pending
  <2>1. \A i \in 1 .. Len(pending) :
          i \in 1 .. Len(pending') /\ Grown(pending[i], pending'[i])
    BY <1>1 DEF Grown
  <2> QED
    BY <1>0, <2>1, KeepsWhere
<1>2. CASE pending' = <<>>
  BY <1>2 DEF Keeps
<1>3. CASE Age
  <2> DEFINE i == First(Fresh)
             e == [pending[i] EXCEPT !.stale = TRUE]
  <2>1. pending' = [pending EXCEPT ![i] = e]
    BY <1>3 DEF Age
  <2>2. CASE i \in 1 .. Len(pending)
    <3>1. pending[i] \in Entry
      BY <1>0, <2>2, ElementOfSeq
    <3>2. e \in Entry /\ Grown(pending[i], e)
      BY <3>1 DEF Entry, Grown
    <3> HIDE DEF i, e
    <3>3. /\ Len([pending EXCEPT ![i] = e]) = Len(pending)
          /\ \A j \in 1 .. Len(pending) :
               [pending EXCEPT ![i] = e][j] = IF j = i THEN e ELSE pending[j]
      BY <1>0, <3>2, ReplaceType
    <3>4. \A j \in 1 .. Len(pending) :
            j \in 1 .. Len(pending') /\ Grown(pending[j], pending'[j])
      BY <2>1, <3>2, <3>3 DEF Grown
    <3> QED
      BY <1>0, <3>4, KeepsWhere
  <2>3. CASE i \notin 1 .. Len(pending)
    <3>1. pending' = pending
      BY <1>0, <2>1, <2>3, LenProperties
    <3> QED
      BY <1>1, <3>1
  <2> QED
    BY <2>2, <2>3
<1>4. ASSUME NEW t \in Threads, PushAccepted(t)
      PROVE  Keeps
  <2>1. hand[t] \in Seq(Entry) /\ Len(hand[t]) \in {1, 2}
    BY <1>0, <1>4, HandLength DEF PushAccepted
  <2>2. pending' = PushBatch(pending, hand[t]) /\ HotHand(hand[t])
    BY <1>4 DEF PushAccepted, Announcing
  <2>3. \A i \in 1 .. Len(pending) :
          i \in 1 .. Len(pending') /\ Grown(pending[i], pending'[i])
    BY <1>0, <2>1, <2>2, PushBatchGrows
  <2> QED
    BY <1>0, <2>3, KeepsWhere
<1>5. ASSUME NEW t \in Threads, Run(t)
      PROVE  Keeps
  <2>1. pc[t] = "run" /\ batch[t] # <<>> /\ batch'[t] = Tail(batch[t])
        /\ batch[t] \in Seq(Entry)
    BY <1>0, <1>5 DEF Run, RunCommand, RunPublishing, RunAgain, Running, Step, TypeOK
  <2>2. batch'[t] # batch[t]
    <3> DEFINE q == batch[t]
    <3>1. q \in Seq(Entry) /\ q # <<>> /\ batch'[t] = Tail(q)
      BY <2>1
    <3> HIDE DEF q
    <3>2. Len(Tail(q)) = Len(q) - 1 /\ Len(q) \in Nat
      BY <3>1, HeadTailProperties, LenProperties
    <3>3. Tail(q) # q
      BY <3>2
    <3> QED
      BY <3>1, <3>3 DEF q
  <2> QED
    BY <2>1, <2>2 DEF Keeps
<1>6. ASSUME NEW t \in Threads, NEW b \in Batches, Submit(t, b)
      PROVE  pending' = pending
  BY <1>6 DEF Submit, shared
<1>7. ASSUME NEW t \in Threads, Drain(t) \/ FlushStale(t)
      PROVE  pending' = <<>>
  BY <1>7 DEF Drain, FlushStale, Claim, Take
<1>8. ASSUME NEW t \in Threads, Proceed(t), ~PushAccepted(t), ~Run(t)
      PROVE  pending' = pending \/ pending' = <<>>
  BY <1>8 DEF Proceed, Abandon, PushRejected, ClaimInline, Claim, Take, JoinInline,
              AcquireExec, FinishBatch, ReleaseExecuting, shared
<1>9. CASE Shutdown
  BY <1>2, <1>9 DEF Shutdown
<1>10. CASE UNCHANGED vars
  BY <1>1, <1>10 DEF vars, shared
<1> QED
  BY <1>1, <1>2, <1>3, <1>4, <1>5, <1>6, <1>7, <1>8, <1>9, <1>10 DEF Next

\* A record that stays pending never gets younger, and a superseded snapshot's
\* added ids are carried as far as its successor has them (applyPush keeping
\* enqueuedUs, carryPendingSnapshotWork).
THEOREM CoalescingKeepsAlways == Spec => CoalescingKeeps
<1>1. Inv /\ Places /\ Work /\ Announcing /\ [Next]_vars =>
        [\A i \in DOMAIN pending : \A j \in DOMAIN pending' :
           LET old == pending[i]
               new == pending'[j]
           IN  /\ old.tickets \subseteq new.tickets
               /\ ~\E t \in Threads : pc[t] = "run" /\ batch'[t] # batch[t]
               => /\ old.stale => new.stale
                  /\ old.cmd.added \cap new.cmd.ids \subseteq new.cmd.added]_vars
  BY KeepsStep DEF Keeps
<1> QED
  BY <1>1, InvInit, InvStep, OwnershipInit, OwnershipStep, PlacesInit, PlacesStep,
     WorkInit, WorkStep, AnnouncingInit, AnnouncingStep, PTL
  DEF Spec, CoalescingKeeps

-----------------------------------------------------------------------------
(***************************************************************************)
(* The queue implements the handoff.  The line of the handoff is read off  *)
(* the records of the claimed batch and of the pending set.                *)
(***************************************************************************)

LineOf(q) == [i \in DOMAIN q |-> q[i].tickets]

\* The records behind the line.
Behind == ClaimedBatch \o pending

LEMMA LineIs == Line = LineOf(Behind) /\ Line' = LineOf(Behind')
BY DEF Line, LineOf, Behind

LEMMA LineOfType ==
  ASSUME NEW q \in Seq(Entry)
  PROVE  /\ LineOf(q) \in Seq(SUBSET Ticket)
         /\ Len(LineOf(q)) = Len(q)
         /\ DOMAIN LineOf(q) = 1 .. Len(q)
         /\ \A i \in 1 .. Len(q) : LineOf(q)[i] = q[i].tickets
         /\ Handoff!All(LineOf(q)) = TicketsOf(q)
         /\ Apart(q) => Handoff!Distinct(LineOf(q))
<1>1. /\ DOMAIN q = 1 .. Len(q) /\ Len(q) \in Nat
      /\ \A i \in 1 .. Len(q) : q[i].tickets \in SUBSET Ticket
  <2>1. \A i \in 1 .. Len(q) : q[i] \in Entry
    BY ElementOfSeq
  <2> QED
    BY <2>1, LenProperties DEF Entry
<1>2. /\ DOMAIN LineOf(q) = 1 .. Len(q)
      /\ \A i \in 1 .. Len(q) : LineOf(q)[i] = q[i].tickets
  BY <1>1 DEF LineOf
<1>3. LineOf(q) \in Seq(SUBSET Ticket) /\ Len(LineOf(q)) = Len(q)
  BY <1>1 DEF LineOf
<1>4. Handoff!All(LineOf(q)) = TicketsOf(q)
  BY <1>1, <1>2 DEF Handoff!All, TicketsOf
<1>5. Apart(q) => Handoff!Distinct(LineOf(q))
  BY <1>1, <1>2 DEF Handoff!Distinct, Apart
<1> QED
  BY <1>2, <1>3, <1>4, <1>5

LEMMA LineOfTail ==
  ASSUME NEW q \in Seq(Entry), q # <<>>
  PROVE  /\ LineOf(q) # <<>>
         /\ Head(LineOf(q)) = Head(q).tickets
         /\ Tail(LineOf(q)) = LineOf(Tail(q))
<1> DEFINE r == LineOf(q)
           s == LineOf(Tail(q))
<1>1. /\ Tail(q) \in Seq(Entry) /\ Len(Tail(q)) = Len(q) - 1
      /\ \A i \in 1 .. Len(Tail(q)) : Tail(q)[i] = q[i + 1]
      /\ Len(q) \in Nat \ {0} /\ Head(q) = q[1]
  BY HeadTailProperties, EmptySeq
<1>2. /\ r \in Seq(SUBSET Ticket) /\ Len(r) = Len(q)
      /\ \A i \in 1 .. Len(q) : r[i] = q[i].tickets
  BY LineOfType
<1>3. /\ s \in Seq(SUBSET Ticket) /\ Len(s) = Len(q) - 1
      /\ \A i \in 1 .. Len(q) - 1 : s[i] = q[i + 1].tickets
  <2> DEFINE u == Tail(q)
  <2>1. /\ u \in Seq(Entry) /\ Len(u) = Len(q) - 1
        /\ \A i \in 1 .. Len(q) - 1 : u[i] = q[i + 1]
    BY <1>1
  <2> HIDE DEF u
  <2>2. /\ LineOf(u) \in Seq(SUBSET Ticket) /\ Len(LineOf(u)) = Len(u)
        /\ \A i \in 1 .. Len(u) : LineOf(u)[i] = u[i].tickets
    BY <2>1, LineOfType
  <2> QED
    BY <2>1, <2>2 DEF u
<1> HIDE DEF r, s
<1>4. r # <<>> /\ Head(r) = r[1]
  BY <1>1, <1>2, EmptySeq
<1>5. /\ Tail(r) \in Seq(SUBSET Ticket) /\ Len(Tail(r)) = Len(q) - 1
      /\ \A i \in 1 .. Len(q) - 1 : Tail(r)[i] = r[i + 1]
  BY <1>2, <1>4, HeadTailProperties
<1>6. \A i \in 1 .. Len(q) - 1 : i + 1 \in 1 .. Len(q)
  BY <1>1
<1>7. Tail(r) = s
  BY <1>2, <1>3, <1>5, <1>6, SeqEqual
<1> QED
  BY <1>1, <1>2, <1>4, <1>7 DEF r, s

LEMMA TailConcat ==
  ASSUME NEW q \in Seq(Entry), NEW r \in Seq(Entry), q # <<>>
  PROVE  /\ q \o r # <<>>
         /\ Head(q \o r) = Head(q)
         /\ Tail(q \o r) = Tail(q) \o r
<1> DEFINE s == q \o r
           u == Tail(q)
           v == u \o r
<1>1. /\ s \in Seq(Entry) /\ Len(s) = Len(q) + Len(r)
      /\ \A i \in 1 .. Len(q) + Len(r) : s[i] = IF i <= Len(q) THEN q[i] ELSE r[i - Len(q)]
  BY ConcatProperties
<1>2. /\ u \in Seq(Entry) /\ Len(u) = Len(q) - 1
      /\ \A i \in 1 .. Len(u) : u[i] = q[i + 1]
      /\ Len(q) \in Nat \ {0} /\ Len(r) \in Nat /\ Head(q) = q[1]
  BY HeadTailProperties, EmptySeq, LenProperties
<1>3. /\ v \in Seq(Entry) /\ Len(v) = Len(u) + Len(r)
      /\ \A i \in 1 .. Len(u) + Len(r) : v[i] = IF i <= Len(u) THEN u[i] ELSE r[i - Len(u)]
  BY <1>2, ConcatProperties
<1> HIDE DEF s, u, v
<1>4. s # <<>> /\ Head(s) = s[1] /\ s[1] = q[1]
  BY <1>1, <1>2, EmptySeq
<1>5. /\ Tail(s) \in Seq(Entry) /\ Len(Tail(s)) = Len(s) - 1
      /\ \A i \in 1 .. Len(Tail(s)) : Tail(s)[i] = s[i + 1]
  BY <1>1, <1>4, HeadTailProperties
<1>6. ASSUME NEW i \in 1 .. Len(v)
      PROVE  Tail(s)[i] = v[i]
  <2>1. /\ i + 1 \in 1 .. Len(s) /\ i \in 1 .. Len(Tail(s))
        /\ i + 1 - Len(q) = i - Len(u)
        /\ i + 1 <= Len(q) <=> i <= Len(u)
    BY <1>1, <1>2, <1>3, <1>5
  <2>2. CASE i <= Len(u)
    BY <1>1, <1>2, <1>3, <1>5, <2>1, <2>2
  <2>3. CASE ~(i <= Len(u))
    BY <1>1, <1>2, <1>3, <1>5, <2>1, <2>3
  <2> QED
    BY <2>2, <2>3
<1>7. Len(Tail(s)) = Len(v)
  BY <1>1, <1>2, <1>3, <1>5
<1>8. Tail(s) = v
  BY <1>3, <1>5, <1>6, <1>7, SeqEqual
<1> QED
  BY <1>2, <1>4, <1>8 DEF s, u, v

-----------------------------------------------------------------------------
(***************************************************************************)
(* The steps of the handoff, each from facts about the records behind the  *)
(* line.                                                                   *)
(***************************************************************************)

Dropped == abandoned \cup lost

\* The records of r are those of q, with what they absorbed, and more.
Lengthens(q, r) ==
  /\ Len(q) <= Len(r)
  /\ \A i \in 1 .. Len(q) : q[i].tickets \subseteq r[i].tickets

LEMMA LineExtends ==
  ASSUME NEW q \in Seq(Entry), NEW r \in Seq(Entry), Lengthens(q, r)
  PROVE  Handoff!Extends(LineOf(q), LineOf(r))
<1>1. /\ Len(LineOf(q)) = Len(q) /\ Len(LineOf(r)) = Len(r)
      /\ DOMAIN LineOf(q) = 1 .. Len(q)
      /\ \A i \in 1 .. Len(q) : LineOf(q)[i] = q[i].tickets
      /\ \A i \in 1 .. Len(r) : LineOf(r)[i] = r[i].tickets
  BY LineOfType
<1>2. \A i \in 1 .. Len(q) : i \in 1 .. Len(r)
  BY LenProperties DEF Lengthens
<1> QED
  BY <1>1, <1>2 DEF Handoff!Extends, Lengthens

LEMMA HandoffJoin ==
  ASSUME NEW q \in Seq(Entry), Line = LineOf(q),
         NEW r \in Seq(Entry), Line' = LineOf(r),
         Lengthens(q, r), Apart(r),
         (TicketsOf(r) \ TicketsOf(q)) \cap Settled = {},
         done' = done, Dropped' = Dropped
  PROVE  Handoff!Next
<1>1. /\ Handoff!Extends(Line, Line')
      /\ Handoff!Distinct(Line')
      /\ Handoff!All(Line) = TicketsOf(q) /\ Handoff!All(Line') = TicketsOf(r)
  BY LineExtends, LineOfType
<1>2. Handoff!AllNew(Handoff!All(Line') \ Handoff!All(Line))
  BY <1>1 DEF Handoff!AllNew, Settled
<1>3. Handoff!Join
  BY <1>1, <1>2 DEF Handoff!Join, Dropped
<1> QED
  BY <1>3 DEF Handoff!Next

LEMMA HandoffRequeue ==
  ASSUME NEW q \in Seq(Entry), q # <<>>, Line = LineOf(q),
         NEW r \in Seq(Entry), Line' = LineOf(r),
         Lengthens(Tail(q), r), Apart(r), TicketsOf(r) = TicketsOf(q),
         done' = done, Dropped' = Dropped
  PROVE  Handoff!Next
<1>1. Line # <<>> /\ Tail(Line) = LineOf(Tail(q)) /\ Tail(q) \in Seq(Entry)
  BY LineOfTail, HeadTailProperties
<1>2. /\ Handoff!Extends(Tail(Line), Line')
      /\ Handoff!Distinct(Line')
      /\ Handoff!All(Line') = Handoff!All(Line)
  BY <1>1, LineExtends, LineOfType
<1>3. Handoff!Requeue
  BY <1>1, <1>2 DEF Handoff!Requeue, Dropped
<1> QED
  BY <1>3 DEF Handoff!Next

\* N is new to the system: in no record of the line and settled in no way.
LEMMA HandoffServe ==
  ASSUME NEW q \in Seq(Entry), q # <<>>, Line = LineOf(q), Line' = LineOf(Tail(q)),
         NEW N, N \cap (TicketsOf(q) \cup Settled) = {},
         done \cup Head(q).tickets \subseteq done',
         done' \subseteq done \cup Head(q).tickets \cup N,
         Dropped \subseteq Dropped', Dropped' \subseteq Dropped \cup N
  PROVE  Handoff!Next
<1>1. /\ Line # <<>> /\ Head(Line) = Head(q).tickets /\ Line' = Tail(Line)
      /\ Handoff!All(Line) = TicketsOf(q)
  BY LineOfTail, LineOfType
<1>2. /\ Handoff!AllNew(done' \ (done \cup Head(Line)))
      /\ Handoff!AllNew(Dropped' \ Dropped)
  BY <1>1 DEF Handoff!AllNew, Settled, Dropped
<1>3. Handoff!Serve
  BY <1>1, <1>2 DEF Handoff!Serve, Dropped
<1> QED
  BY <1>3 DEF Handoff!Next

LEMMA HandoffDropFront ==
  ASSUME NEW q \in Seq(Entry), q # <<>>, Line = LineOf(q), Line' = LineOf(Tail(q)),
         done' = done, Dropped' = Dropped \cup Head(q).tickets
  PROVE  Handoff!Next
<1>1. Line # <<>> /\ Head(Line) = Head(q).tickets /\ Line' = Tail(Line)
  BY LineOfTail
<1>2. Handoff!DropFront
  BY <1>1 DEF Handoff!DropFront, Dropped
<1> QED
  BY <1>2 DEF Handoff!Next

\* Work that is not in the line is run or given up.
LEMMA HandoffAside ==
  ASSUME NEW q \in Seq(Entry), Line = LineOf(q), Line' = Line,
         NEW N, N \cap (TicketsOf(q) \cup Settled) = {},
         \/ done' = done \cup N /\ Dropped' = Dropped
         \/ done' = done /\ Dropped' = Dropped \cup N
  PROVE  Handoff!Next
<1>1. Handoff!All(Line) = TicketsOf(q)
  BY LineOfType
<1>2. CASE done' = done \cup N /\ Dropped' = Dropped
  <2>1. Handoff!AllNew(done' \ done)
    BY <1>1, <1>2 DEF Handoff!AllNew, Settled
  <2>2. Handoff!ServeDirect
    BY <1>2, <2>1 DEF Handoff!ServeDirect, Dropped
  <2> QED
    BY <2>2 DEF Handoff!Next
<1>3. CASE done' = done /\ Dropped' = Dropped \cup N
  <2>1. Handoff!AllNew(Dropped' \ Dropped)
    BY <1>1, <1>3 DEF Handoff!AllNew, Settled
  <2>2. Handoff!Refuse
    BY <1>3, <2>1 DEF Handoff!Refuse, Dropped
  <2> QED
    BY <2>2 DEF Handoff!Next
<1> QED
  BY <1>2, <1>3

\* The owner submits nothing of its own, so what it runs is always claimed.
OwnerClaims ==
  /\ pc[Owner] \in {"out", "exec", "run", "release"}
  /\ hand[Owner] = <<>>
  /\ pc[Owner] \in {"exec", "run"} => claimed[Owner]

LEMMA OwnerClaimsInit == Init => OwnerClaims
BY ThreadsAssumption DEF Init, OwnerClaims

LEMMA OwnerClaimsStep == TypeOK /\ OwnerClaims /\ [Next]_vars => OwnerClaims'
<1> SUFFICES ASSUME TypeOK, OwnerClaims, [Next]_vars PROVE OwnerClaims'
  OBVIOUS
<1> USE ThreadsAssumption DEF OwnerClaims, TypeOK
<1>1. ASSUME NEW t \in Threads, NEW b \in Batches, Submit(t, b)
      PROVE  OwnerClaims'
  BY <1>1 DEF Submit
<1>2. ASSUME NEW t \in Threads, Drain(t) \/ FlushStale(t)
      PROVE  OwnerClaims'
  BY <1>2 DEF Drain, FlushStale, Claim, Take
<1>3. ASSUME NEW t \in Threads, Proceed(t)
      PROVE  OwnerClaims'
  <2>1. CASE Abandon(t) \/ PushAccepted(t) \/ PushRejected(t)
    BY <2>1 DEF Abandon, PushAccepted, PushRejected
  <2>2. CASE ClaimInline(t) \/ JoinInline(t)
    BY <2>2 DEF ClaimInline, Claim, Take, JoinInline
  <2>3. CASE AcquireExec(t)
    BY <2>3 DEF AcquireExec
  <2>4. CASE Run(t)
    BY <2>4 DEF Run, RunCommand, RunPublishing, RunAgain
  <2>5. CASE FinishBatch(t) \/ ReleaseExecuting(t)
    BY <2>5 DEF FinishBatch, ReleaseExecuting, Return
  <2> QED
    BY <1>3, <2>1, <2>2, <2>3, <2>4, <2>5 DEF Proceed
<1>4. CASE Shutdown \/ Age \/ UNCHANGED vars
  BY <1>4 DEF Shutdown, Age, threads, vars
<1> QED
  BY <1>1, <1>2, <1>3, <1>4 DEF Next

LEMMA ClaimedBatchIs ==
  ASSUME Ownership
  PROVE  /\ \A t \in Threads : claimed[t] => ClaimedBatch = batch[t]
         /\ (\A t \in Threads : ~claimed[t]) => ClaimedBatch = <<>>
         /\ ~executing => ClaimedBatch = <<>>
BY DEF Ownership, ClaimedBatch

LEMMA ClaimedBatchIsNext ==
  ASSUME Ownership'
  PROVE  /\ \A t \in Threads : claimed'[t] => ClaimedBatch' = batch'[t]
         /\ (\A t \in Threads : ~claimed'[t]) => ClaimedBatch' = <<>>
BY DEF Ownership, ClaimedBatch

\* The records behind the line are well formed and settled in no way.
LineFacts ==
  /\ ClaimedBatch \in Seq(Entry) /\ Behind \in Seq(Entry)
  /\ TicketsOf(Behind) = TicketsOf(ClaimedBatch) \cup TicketsOf(pending)
  /\ TicketsOf(ClaimedBatch) \cap TicketsOf(pending) = {}
  /\ Apart(Behind)
  /\ TicketsOf(Behind) \cap Settled = {}
  /\ \A t \in Threads : /\ TicketsOf(hand[t]) \cap TicketsOf(Behind) = {}
                        /\ ~claimed[t] => TicketsOf(batch[t]) \cap TicketsOf(Behind) = {}

LEMMA LineRecords == TypeOK /\ Ownership /\ Places => LineFacts
<1> SUFFICES ASSUME TypeOK, Ownership, Places PROVE LineFacts
  OBVIOUS
<1> DEFINE c == ClaimedBatch
<1>1. /\ c \in Seq(Entry) /\ Apart(c)
      /\ TicketsOf(c) \cap (TicketsOf(pending) \cup Settled) = {}
      /\ \A t \in Threads : /\ TicketsOf(hand[t]) \cap TicketsOf(c) = {}
                            /\ ~claimed[t] => TicketsOf(batch[t]) \cap TicketsOf(c) = {}
  <2>1. CASE \A t \in Threads : ~claimed[t]
    <3>1. c = <<>>
      BY <2>1, ClaimedBatchIs
    <3> QED
      BY <3>1, EmptySeq, NoTickets
  <2>2. ASSUME NEW t \in Threads, claimed[t]
        PROVE  <1>1!:
    <3>1. c = batch[t]
      BY <2>2, ClaimedBatchIs
    <3> HIDE DEF c
    <3>2. c \in Seq(Entry) /\ Apart(c)
      BY <3>1 DEF TypeOK, Places, Records
    <3>3. TicketsOf(c) \cap (TicketsOf(pending) \cup Settled) = {}
      BY <3>1 DEF Places, OnePlace, SettledOnce
    <3>4. \A u \in Threads : TicketsOf(hand[u]) \cap TicketsOf(c) = {}
      BY <3>1 DEF Places, OnePlace
    <3>5. \A u \in Threads : u # t => TicketsOf(batch[u]) \cap TicketsOf(c) = {}
      BY <3>1 DEF Places, OnePlace
    <3> QED
      BY <2>2, <3>2, <3>3, <3>4, <3>5
  <2> QED
    BY <2>1, <2>2
<1> HIDE DEF c
<1>2. /\ pending \in Seq(Entry) /\ Apart(pending)
      /\ TicketsOf(pending) \cap Settled = {}
      /\ \A t \in Threads : /\ TicketsOf(pending) \cap TicketsOf(hand[t]) = {}
                            /\ TicketsOf(pending) \cap TicketsOf(batch[t]) = {}
  BY DEF TypeOK, Places, Records, OnePlace, SettledOnce
<1> DEFINE q == c \o pending
<1>3. /\ q \in Seq(Entry) /\ Apart(q)
      /\ TicketsOf(q) = TicketsOf(c) \cup TicketsOf(pending)
  BY <1>1, <1>2, ConcatTickets, ConcatProperties
<1>4. Behind = q
  BY DEF Behind, c
<1> HIDE DEF q
<1>5. TicketsOf(q) \cap Settled = {}
  BY <1>1, <1>2, <1>3
<1>6. ASSUME NEW t \in Threads
      PROVE  /\ TicketsOf(hand[t]) \cap TicketsOf(q) = {}
             /\ ~claimed[t] => TicketsOf(batch[t]) \cap TicketsOf(q) = {}
  BY <1>1, <1>2, <1>3
<1> QED
  BY <1>1, <1>3, <1>4, <1>5, <1>6 DEF LineFacts, c

\* Who holds the claim, and its batch, are left alone.
LEMMA ClaimedBatchKept ==
  ASSUME Ownership, claimed' = claimed,
         \A t \in Threads : claimed[t] => batch'[t] = batch[t]
  PROVE  ClaimedBatch' = ClaimedBatch
BY DEF Ownership, ClaimedBatch

-----------------------------------------------------------------------------
(***************************************************************************)
(* What each kind of step does to the line.                                *)
(***************************************************************************)

LEMMA PushLengthens ==
  ASSUME NEW q \in Seq(Entry), NEW e \in Entry
  PROVE  Push(q, e) \in Seq(Entry) /\ Lengthens(q, Push(q, e))
<1> DEFINE r == Push(q, e)
<1>1. r \in Seq(Entry)
  BY PushType
<1>2. \A i \in 1 .. Len(q) : i \in 1 .. Len(r) /\ q[i].tickets \subseteq r[i].tickets
  BY PushGrows DEF Grown
<1> HIDE DEF r
<1>3. Len(q) \in Nat /\ Len(r) \in Nat
  BY <1>1, LenProperties
<1>4. Len(q) <= Len(r)
  <2>1. CASE Len(q) = 0
    BY <1>3, <2>1
  <2>2. CASE Len(q) # 0
    <3>1. Len(q) \in 1 .. Len(q)
      BY <1>3, <2>2
    <3> QED
      BY <1>2, <1>3, <3>1
  <2> QED
    BY <2>1, <2>2
<1> QED
  BY <1>1, <1>2, <1>4 DEF Lengthens, r

LEMMA PushBatchLengthens ==
  ASSUME NEW q \in Seq(Entry), NEW b \in Seq(Entry), Len(b) \in {1, 2}
  PROVE  Lengthens(q, PushBatch(q, b))
<1>1. b[1] \in Entry /\ (Len(b) = 2 => b[2] \in Entry)
  BY BatchRecords
<1> DEFINE r == Push(q, b[1])
<1>2. r \in Seq(Entry) /\ Lengthens(q, r)
  BY <1>1, PushLengthens
<1> HIDE DEF r
<1>3. CASE Len(b) = 2
  <2> DEFINE u == Push(r, b[2])
  <2>1. u \in Seq(Entry) /\ Lengthens(r, u)
    BY <1>1, <1>2, <1>3, PushLengthens
  <2>2. PushBatch(q, b) = u
    BY <1>3 DEF PushBatch, r
  <2> HIDE DEF u
  <2>3. Lengthens(q, u)
    <3>1. Len(q) \in Nat /\ Len(r) \in Nat /\ Len(u) \in Nat
      BY <1>2, <2>1, LenProperties
    <3> QED
      BY <1>2, <2>1, <3>1 DEF Lengthens
  <2> QED
    BY <2>2, <2>3
<1>4. CASE Len(b) # 2
  <2>1. PushBatch(q, b) = r
    BY <1>4 DEF PushBatch, r
  <2> QED
    BY <1>2, <2>1
<1> QED
  BY <1>3, <1>4

LEMMA ConcatLengthens ==
  ASSUME NEW c \in Seq(Entry), NEW q \in Seq(Entry), NEW r \in Seq(Entry),
         Lengthens(q, r)
  PROVE  Lengthens(c \o q, c \o r)
<1> DEFINE u == c \o q
           v == c \o r
<1>1. /\ u \in Seq(Entry) /\ Len(u) = Len(c) + Len(q)
      /\ \A i \in 1 .. Len(c) + Len(q) : u[i] = IF i <= Len(c) THEN c[i] ELSE q[i - Len(c)]
  BY ConcatProperties
<1>2. /\ v \in Seq(Entry) /\ Len(v) = Len(c) + Len(r)
      /\ \A i \in 1 .. Len(c) + Len(r) : v[i] = IF i <= Len(c) THEN c[i] ELSE r[i - Len(c)]
  BY ConcatProperties
<1> HIDE DEF u, v
<1>3. Len(c) \in Nat /\ Len(q) \in Nat /\ Len(r) \in Nat /\ Len(q) <= Len(r)
  BY LenProperties DEF Lengthens
<1>4. ASSUME NEW i \in 1 .. Len(u)
      PROVE  u[i].tickets \subseteq v[i].tickets
  <2>1. i \in 1 .. Len(c) + Len(q) /\ i \in 1 .. Len(c) + Len(r)
    BY <1>1, <1>3
  <2>2. CASE i <= Len(c)
    BY <1>1, <1>2, <2>1, <2>2
  <2>3. CASE ~(i <= Len(c))
    <3>1. i - Len(c) \in 1 .. Len(q)
      BY <1>3, <2>1, <2>3
    <3>2. q[i - Len(c)].tickets \subseteq r[i - Len(c)].tickets
      BY <3>1 DEF Lengthens
    <3> QED
      BY <1>1, <1>2, <2>1, <2>3, <3>2
  <2> QED
    BY <2>2, <2>3
<1>5. Len(u) <= Len(v)
  BY <1>1, <1>2, <1>3
<1> QED
  BY <1>4, <1>5 DEF Lengthens, u, v

\* The line and its history are left alone.
LEMMA QuietStep ==
  ASSUME ClaimedBatch' = ClaimedBatch, pending' = pending,
         UNCHANGED <<done, abandoned, lost>>
  PROVE  UNCHANGED Handoff!handoff
<1>1. Behind' = Behind
  BY DEF Behind
<1>2. Line' = Line
  BY <1>1, LineIs
<1> QED
  BY <1>2 DEF Handoff!handoff

\* The pending set is added to behind a claimed batch that stays.
LEMMA PendingStep ==
  ASSUME LineFacts, LineFacts', pending \in Seq(Entry), pending' \in Seq(Entry),
         ClaimedBatch' = ClaimedBatch, Lengthens(pending, pending'),
         UNCHANGED <<done, abandoned, lost>>
  PROVE  Handoff!Next
<1>1. Behind \in Seq(Entry) /\ Behind' \in Seq(Entry) /\ Apart(Behind')
  BY DEF LineFacts
<1>2. Lengthens(Behind, Behind')
  <2>1. ClaimedBatch \in Seq(Entry)
    BY DEF LineFacts
  <2> QED
    BY <2>1, ConcatLengthens DEF Behind
<1>3. TicketsOf(Behind') \cap Settled = {}
  BY DEF LineFacts, Settled
<1>4. (TicketsOf(Behind') \ TicketsOf(Behind)) \cap Settled = {}
  BY <1>3
<1>5. Dropped' = Dropped
  BY DEF Dropped
<1> QED
  BY <1>1, <1>2, <1>4, <1>5, LineIs, HandoffJoin

\* Work outside the line is run or given up.
LEMMA AsideStep ==
  ASSUME LineFacts, ClaimedBatch' = ClaimedBatch, pending' = pending,
         NEW N, N \cap (TicketsOf(Behind) \cup Settled) = {},
         \/ done' = done \cup N /\ Dropped' = Dropped
         \/ done' = done /\ Dropped' = Dropped \cup N
  PROVE  Handoff!Next
<1>1. Line' = Line /\ Line = LineOf(Behind)
  BY LineIs DEF Behind
<1>2. Behind \in Seq(Entry)
  BY DEF LineFacts
<1> QED
  BY <1>1, <1>2, HandoffAside

\* A claim turns the pending set into the claimed batch; a fallback's own
\* batch joins the line behind it.
LEMMA ClaimLineStep ==
  ASSUME TypeOK, Ownership, Ownership', LineFacts, LineFacts',
         NEW t \in Threads, NEW extra \in Seq(Entry), Claim(t, extra),
         UNCHANGED <<done, abandoned, lost>>
  PROVE  Handoff!Next
<1>1. pending \in Seq(Entry)
  BY DEF TypeOK
<1>2. Behind = pending
  <2>1. ClaimedBatch = <<>>
    BY ClaimedBatchIs DEF Claim
  <2> QED
    BY <1>1, <2>1, ConcatEmptySeq DEF Behind
<1> DEFINE r == pending \o extra
<1>3. /\ r \in Seq(Entry) /\ Len(r) = Len(pending) + Len(extra)
      /\ \A i \in 1 .. Len(pending) + Len(extra) :
           r[i] = IF i <= Len(pending) THEN pending[i] ELSE extra[i - Len(pending)]
  BY <1>1, ConcatProperties
<1>4. Behind' = r
  <2>1. /\ claimed'[t] /\ batch'[t] = r /\ pending' = <<>>
    BY DEF Claim, Take, TypeOK
  <2>2. ClaimedBatch' = r
    BY <2>1, ClaimedBatchIsNext
  <2> HIDE DEF r
  <2> QED
    BY <1>3, <2>1, <2>2, ConcatEmptySeq DEF Behind
<1> HIDE DEF r
<1>5. Lengthens(pending, r)
  <2>1. Len(pending) \in Nat /\ Len(extra) \in Nat
    BY <1>1, LenProperties
  <2> QED
    BY <1>3, <2>1 DEF Lengthens
<1>6. Apart(r) /\ TicketsOf(r) \cap Settled = {}
  BY <1>4 DEF LineFacts, Settled
<1>7. Line = LineOf(pending) /\ Line' = LineOf(r)
  BY <1>2, <1>4, LineIs
<1>8. Dropped' = Dropped
  BY DEF Dropped
<1> QED
  BY <1>1, <1>3, <1>5, <1>6, <1>7, <1>8, HandoffJoin

\* The holder of the claim takes the front of the line off it.
LEMMA FrontStep ==
  ASSUME TypeOK, Ownership, Ownership', LineFacts,
         NEW t \in Threads, claimed[t], claimed' = claimed, Running(t), Step(t)
  PROVE  /\ batch[t] \in Seq(Entry) /\ batch[t] # <<>>
         /\ ClaimedBatch = batch[t] /\ ClaimedBatch' = Tail(batch[t])
         /\ Behind \in Seq(Entry) /\ Behind # <<>>
         /\ Head(Behind) = Head(batch[t])
         /\ Tail(Behind) = Tail(batch[t]) \o pending
<1>1. batch[t] \in Seq(Entry) /\ batch[t] # <<>> /\ pending \in Seq(Entry)
  BY DEF TypeOK, Running
<1>2. ClaimedBatch = batch[t]
  BY ClaimedBatchIs
<1>3. ClaimedBatch' = Tail(batch[t])
  <2>1. claimed'[t] /\ batch'[t] = Tail(batch[t])
    BY DEF Step, TypeOK
  <2> QED
    BY <2>1, ClaimedBatchIsNext
<1>4. Behind = batch[t] \o pending
  BY <1>2 DEF Behind
<1>5. Behind \in Seq(Entry)
  BY DEF LineFacts
<1> QED
  BY <1>1, <1>2, <1>3, <1>4, <1>5, TailConcat

LEMMA ServeStep ==
  ASSUME TypeOK, Ownership, Ownership', LineFacts,
         NEW t \in Threads, claimed[t], claimed' = claimed, Running(t), Step(t),
         pending' = pending,
         NEW N, N \cap (TicketsOf(Behind) \cup Settled) = {},
         done \cup Head(batch[t]).tickets \subseteq done',
         done' \subseteq done \cup Head(batch[t]).tickets \cup N,
         Dropped \subseteq Dropped', Dropped' \subseteq Dropped \cup N
  PROVE  Handoff!Next
<1>1. /\ ClaimedBatch' = Tail(batch[t])
      /\ Behind \in Seq(Entry) /\ Behind # <<>>
      /\ Head(Behind) = Head(batch[t])
      /\ Tail(Behind) = Tail(batch[t]) \o pending
  BY FrontStep
<1>2. Behind' = Tail(Behind)
  BY <1>1 DEF Behind
<1>3. Line = LineOf(Behind) /\ Line' = LineOf(Tail(Behind))
  BY <1>2, LineIs
<1> QED
  BY <1>1, <1>3, HandoffServe

LEMMA DropFrontStep ==
  ASSUME TypeOK, Ownership, Ownership', LineFacts,
         NEW t \in Threads, claimed[t], claimed' = claimed, Running(t), Step(t),
         pending' = pending, done' = done,
         Dropped' = Dropped \cup Head(batch[t]).tickets
  PROVE  Handoff!Next
<1>1. /\ ClaimedBatch' = Tail(batch[t])
      /\ Behind \in Seq(Entry) /\ Behind # <<>>
      /\ Head(Behind) = Head(batch[t])
      /\ Tail(Behind) = Tail(batch[t]) \o pending
  BY FrontStep
<1>2. Behind' = Tail(Behind)
  BY <1>1 DEF Behind
<1>3. Line = LineOf(Behind) /\ Line' = LineOf(Tail(Behind))
  BY <1>2, LineIs
<1> QED
  BY <1>1, <1>3, HandoffDropFront

LEMMA RequeueStep ==
  ASSUME TypeOK, Ownership, Ownership', LineFacts, LineFacts',
         NEW t \in Threads, claimed[t], claimed' = claimed, Running(t), Step(t),
         NEW e \in Entry, e.tickets = Head(batch[t]).tickets,
         pending' = Push(pending, e),
         UNCHANGED <<done, abandoned, lost>>
  PROVE  Handoff!Next
<1> DEFINE r == Behind'
<1>1. /\ batch[t] \in Seq(Entry) /\ batch[t] # <<>>
      /\ ClaimedBatch = batch[t] /\ ClaimedBatch' = Tail(batch[t])
      /\ Behind \in Seq(Entry) /\ Behind # <<>>
      /\ Tail(Behind) = Tail(batch[t]) \o pending
  BY FrontStep
<1>2. pending \in Seq(Entry) /\ Tail(batch[t]) \in Seq(Entry)
  BY <1>1, HeadTailProperties DEF TypeOK
<1>3. /\ pending' \in Seq(Entry) /\ Lengthens(pending, pending')
      /\ TicketsOf(pending') = TicketsOf(pending) \cup Head(batch[t]).tickets
  BY <1>2, PushLengthens, PushTickets
<1>4. Lengthens(Tail(Behind), r)
  BY <1>1, <1>2, <1>3, ConcatLengthens DEF Behind
<1>5. TicketsOf(r) = TicketsOf(Behind)
  <2>1. TicketsOf(r) = TicketsOf(Tail(batch[t])) \cup TicketsOf(pending')
    BY <1>1 DEF LineFacts
  <2>2. TicketsOf(Behind) = TicketsOf(batch[t]) \cup TicketsOf(pending)
    BY <1>1 DEF LineFacts
  <2>3. TicketsOf(batch[t]) = Head(batch[t]).tickets \cup TicketsOf(Tail(batch[t]))
    BY <1>1, TailTickets
  <2> QED
    BY <1>3, <2>1, <2>2, <2>3
<1>6. r \in Seq(Entry) /\ Apart(r)
  BY DEF LineFacts
<1>7. Line = LineOf(Behind) /\ Line' = LineOf(r) /\ Dropped' = Dropped
  BY LineIs DEF Dropped
<1> HIDE DEF r
<1> QED
  BY <1>1, <1>4, <1>5, <1>6, <1>7, HandoffRequeue

\* A shutdown closes the line behind the claimed batch.
LEMMA CloseStep ==
  ASSUME TypeOK, LineFacts, LineFacts', ClaimedBatch' = ClaimedBatch, Shutdown
  PROVE  Handoff!Next
<1> DEFINE c == ClaimedBatch
           q == c \o pending
<1>1. /\ c \in Seq(Entry) /\ pending \in Seq(Entry)
      /\ TicketsOf(c) \cap TicketsOf(pending) = {}
  BY DEF TypeOK, LineFacts
<1>2. /\ q \in Seq(Entry) /\ Len(q) = Len(c) + Len(pending)
      /\ \A i \in 1 .. Len(c) + Len(pending) :
           q[i] = IF i <= Len(c) THEN c[i] ELSE pending[i - Len(c)]
      /\ TicketsOf(q) = TicketsOf(c) \cup TicketsOf(pending)
  BY <1>1, ConcatProperties, ConcatTickets
<1>3. Line = LineOf(q)
  BY LineIs DEF Behind
<1>4. Line' = LineOf(c)
  <2>1. Behind' = c
    BY <1>1, ConcatEmptySeq DEF Behind, Shutdown
  <2> QED
    BY <2>1, LineIs
<1> HIDE DEF c, q
<1>5. Len(c) \in Nat /\ Len(pending) \in Nat
  BY <1>1, LenProperties
<1>6. /\ Line \in Seq(SUBSET Ticket) /\ Len(Line) = Len(q)
      /\ \A i \in 1 .. Len(q) : Line[i] = q[i].tickets
      /\ Handoff!All(Line) = TicketsOf(q)
  BY <1>2, <1>3, LineOfType
<1>7. /\ Line' \in Seq(SUBSET Ticket) /\ Len(Line') = Len(c)
      /\ \A i \in 1 .. Len(c) : Line'[i] = c[i].tickets
      /\ Handoff!All(Line') = TicketsOf(c)
  BY <1>1, <1>4, LineOfType
<1>8. Line' = SubSeq(Line, 1, Len(Line'))
  <2> DEFINE u == SubSeq(Line, 1, Len(c))
  <2>1. /\ u \in Seq(SUBSET Ticket) /\ Len(u) = Len(c)
        /\ \A i \in 1 .. Len(c) : u[i] = Line[i]
    BY <1>2, <1>5, <1>6, SubSeqProperties
  <2> HIDE DEF u
  <2>2. \A i \in 1 .. Len(c) : u[i] = Line'[i]
    BY <1>2, <1>5, <1>6, <1>7, <2>1
  <2>3. u = Line'
    BY <1>7, <2>1, <2>2, SeqEqual
  <2> QED
    BY <1>7, <2>3 DEF u
<1>9. Dropped' = Dropped \cup (Handoff!All(Line) \ Handoff!All(Line'))
  BY <1>1, <1>2, <1>6, <1>7 DEF Shutdown, Dropped
<1>10. Handoff!Close
  <2>1. Len(Line') <= Len(Line)
    BY <1>2, <1>5, <1>6, <1>7
  <2> QED
    BY <1>8, <1>9, <2>1 DEF Handoff!Close, Dropped, Shutdown
<1> QED
  BY <1>10 DEF Handoff!Next

-----------------------------------------------------------------------------
(***************************************************************************)
(* Every step of the queue is one of the handoff, or leaves the line alone.*)
(***************************************************************************)

Ordered == Inv /\ Ownership /\ Places /\ OwnerClaims

Handing == Ordered /\ LineFacts

LEMMA HandoffInit == Init => Handoff!Init
<1> SUFFICES ASSUME Init PROVE Handoff!Init
  OBVIOUS
<1>1. ClaimedBatch = <<>>
  BY OwnershipInit, ClaimedBatchIs DEF Init
<1>2. Behind = <<>>
  <2>1. <<>> \in Seq(Entry)
    BY EmptySeq
  <2> QED
    BY <1>1, <2>1, ConcatEmptySeq DEF Init, Behind
<1>3. Line = <<>>
  <2>1. Behind \in Seq(Entry) /\ Len(Behind) = 0
    BY <1>2, EmptySeq
  <2>2. LineOf(Behind) \in Seq(SUBSET Ticket) /\ Len(LineOf(Behind)) = 0
    BY <2>1, LineOfType
  <2> QED
    BY <2>2, EmptySeq, LineIs
<1> QED
  BY <1>3 DEF Handoff!Init, Init

LEMMA RunHandoff ==
  ASSUME Handing, Handing', NEW t \in Threads, Run(t)
  PROVE  Handoff!Next
<1>0. /\ TypeOK /\ Ownership /\ Ownership' /\ LineFacts /\ LineFacts'
      /\ pending \in Seq(Entry) /\ pending' \in Seq(Entry)
  BY DEF Handing, Ordered, Inv, TypeOK
<1> DEFINE e == Head(batch[t])
<1>1. /\ Running(t) /\ Step(t) /\ claimed' = claimed
      /\ batch[t] \in Seq(Entry) /\ batch[t] # <<>>
      /\ e \in Entry
  <2>1. Running(t) /\ Step(t) /\ claimed' = claimed
    BY DEF Run, RunCommand, RunPublishing, RunAgain
  <2>2. batch[t] \in Seq(Entry) /\ batch[t] # <<>>
    BY <1>0, <2>1 DEF Running, TypeOK
  <2> QED
    BY <2>1, <2>2, HeadTailProperties
<1>2. TicketsOf(batch[t]) = e.tickets \cup TicketsOf(Tail(batch[t]))
  BY <1>1, TailTickets
<1> HIDE DEF e
<1>3. ~claimed[t] => /\ ClaimedBatch' = ClaimedBatch
                     /\ e.tickets \cap (TicketsOf(Behind) \cup Settled) = {}
  <2> SUFFICES ASSUME ~claimed[t]
               PROVE  /\ ClaimedBatch' = ClaimedBatch
                      /\ e.tickets \cap (TicketsOf(Behind) \cup Settled) = {}
    OBVIOUS
  <2>1. ClaimedBatch' = ClaimedBatch
    BY <1>0, <1>1, ClaimedBatchKept DEF Step, TypeOK
  <2>2. TicketsOf(batch[t]) \cap TicketsOf(Behind) = {}
    BY <1>0 DEF LineFacts
  <2>3. TicketsOf(batch[t]) \cap Settled = {}
    BY DEF Handing, Ordered, Places, SettledOnce
  <2> QED
    BY <1>2, <2>1, <2>2, <2>3
<1>4. CASE RunCommand(t)
  <2>1. pending' = pending /\ done' = done \cup e.tickets /\ Dropped' = Dropped
    BY <1>4 DEF RunCommand, shared, Dropped, e
  <2>2. CASE claimed[t]
    <3> DEFINE N == {}
    <3>1. /\ N \cap (TicketsOf(Behind) \cup Settled) = {}
          /\ done \cup Head(batch[t]).tickets \subseteq done'
          /\ done' \subseteq done \cup Head(batch[t]).tickets \cup N
          /\ Dropped \subseteq Dropped' /\ Dropped' \subseteq Dropped \cup N
      BY <2>1 DEF e
    <3> HIDE DEF N
    <3> QED
      BY <1>0, <1>1, <2>1, <2>2, <3>1, ServeStep
  <2>3. CASE ~claimed[t]
    BY <1>0, <1>3, <2>1, <2>3, AsideStep
  <2> QED
    BY <2>2, <2>3
<1>5. ASSUME NEW c \in NestedCommands, RunPublishing(t, c)
      PROVE  Handoff!Next
  <2> DEFINE N == {NewTicket(t, c)}
  <2>1. claimed[t]
    BY <1>5 DEF RunPublishing, Running, Handing, Ordered, OwnerClaims
  <2>2. pending' = pending
    BY <1>5 DEF RunPublishing, shared
  <2>3. /\ done \cup e.tickets \subseteq done'
        /\ done' \subseteq done \cup e.tickets \cup N
        /\ Dropped \subseteq Dropped' /\ Dropped' \subseteq Dropped \cup N
    BY <1>5 DEF RunPublishing, Dropped, e
  <2>4. N \cap (TicketsOf(Behind) \cup Settled) = {}
    <3>1. TicketsOf(Behind) = TicketsOf(batch[t]) \cup TicketsOf(pending)
      BY <1>0, <2>1, ClaimedBatchIs DEF LineFacts
    <3>2. \A tk \in TicketsOf(Behind) \cup Settled : tk.n <= ops[tk.by]
      BY <3>1 DEF Handing, Ordered, Places, Numbered
    <3>3. NewTicket(t, c).by = t /\ NewTicket(t, c).n = ops[t] + 1
      BY DEF NewTicket
    <3>4. ops[t] \in Nat
      BY <1>0 DEF TypeOK
    <3> QED
      BY <3>2, <3>3, <3>4
  <2> HIDE DEF N
  <2> QED
    BY <1>0, <1>1, <2>1, <2>2, <2>3, <2>4, ServeStep DEF e
<1>6. CASE RunAgain(t)
  <2> DEFINE cmd   == [e.cmd EXCEPT !.attempt = IF t = Owner THEN @ + 1 ELSE @]
             again == [cmd |-> cmd, tickets |-> e.tickets, stale |-> FALSE]
  <2>1. /\ done' = done /\ (t = Owner => cmd.attempt < MaxAttempts)
        /\ \/ /\ pending' = pending
              /\ Dropped' = Dropped \cup e.tickets
           \/ /\ pending' = Push(pending, again)
              /\ abandoned' = abandoned /\ lost' = lost
    BY <1>6 DEF RunAgain, Dropped, e
  <2>2. again \in Entry /\ again.tickets = e.tickets
    <3>1. e.cmd \in Command /\ e.tickets \in SUBSET Ticket
      BY <1>1 DEF Entry
    <3>2. cmd \in Command
      BY <2>1, <3>1, BoundsAssumption DEF Command
    <3> QED
      BY <3>1, <3>2 DEF Entry
  <2> HIDE DEF again
  <2>3. CASE claimed[t] /\ pending' = pending /\ Dropped' = Dropped \cup e.tickets
    BY <1>0, <1>1, <2>1, <2>3, DropFrontStep DEF e
  <2>4. CASE /\ claimed[t] /\ pending' = Push(pending, again)
             /\ abandoned' = abandoned /\ lost' = lost
    BY <1>0, <1>1, <2>1, <2>2, <2>4, RequeueStep DEF e
  <2>5. CASE ~claimed[t] /\ pending' = pending /\ Dropped' = Dropped \cup e.tickets
    BY <1>0, <1>3, <2>1, <2>5, AsideStep
  <2>6. CASE /\ ~claimed[t] /\ pending' = Push(pending, again)
             /\ abandoned' = abandoned /\ lost' = lost
    <3>1. Lengthens(pending, pending')
      BY <1>0, <2>2, <2>6, PushLengthens
    <3> QED
      BY <1>0, <1>3, <2>1, <2>6, <3>1, PendingStep
  <2> QED
    BY <2>1, <2>3, <2>4, <2>5, <2>6
<1> QED
  BY <1>4, <1>5, <1>6 DEF Run

LEMMA HandoffStep ==
  Handing /\ Handing' /\ [Next]_vars => [Handoff!Next]_(Handoff!handoff)
<1> SUFFICES ASSUME Handing, Handing', [Next]_vars
             PROVE  Handoff!Next \/ UNCHANGED Handoff!handoff
  OBVIOUS
<1>0. /\ TypeOK /\ Hands /\ Ownership /\ Ownership' /\ LineFacts /\ LineFacts'
      /\ pending \in Seq(Entry) /\ pending' \in Seq(Entry)
  BY DEF Handing, Ordered, Inv, TypeOK
<1>1. ASSUME NEW t \in Threads, NEW b \in Batches, Submit(t, b)
      PROVE  UNCHANGED Handoff!handoff
  <2>1. /\ claimed' = claimed /\ batch' = batch /\ pending' = pending
        /\ UNCHANGED <<done, abandoned, lost>>
    BY <1>1 DEF Submit, shared, history
  <2> QED
    BY <1>0, <2>1, ClaimedBatchKept, QuietStep
<1>2. ASSUME NEW t \in Threads, Drain(t) \/ FlushStale(t)
      PROVE  Handoff!Next
  <2>1. Claim(t, <<>>) /\ UNCHANGED <<done, abandoned, lost>> /\ <<>> \in Seq(Entry)
    BY <1>2, EmptySeq DEF Drain, FlushStale, history
  <2> QED
    BY <1>0, <2>1, ClaimLineStep
<1>3. ASSUME NEW t \in Threads, Proceed(t)
      PROVE  Handoff!Next \/ UNCHANGED Handoff!handoff
  <2>1. CASE Abandon(t)
    <3>1. /\ claimed' = claimed /\ batch' = batch /\ pending' = pending
          /\ done' = done /\ Dropped' = Dropped \cup TicketsOf(hand[t])
      BY <2>1 DEF Abandon, shared, Dropped
    <3>2. ClaimedBatch' = ClaimedBatch
      BY <1>0, <3>1, ClaimedBatchKept
    <3>3. TicketsOf(hand[t]) \cap (TicketsOf(Behind) \cup Settled) = {}
      BY <1>0 DEF LineFacts, Handing, Ordered, Places, SettledOnce
    <3> QED
      BY <1>0, <3>1, <3>2, <3>3, AsideStep
  <2>2. CASE PushAccepted(t)
    <3>1. /\ claimed' = claimed /\ batch' = batch
          /\ pending' = PushBatch(pending, hand[t])
          /\ UNCHANGED <<done, abandoned, lost>>
      BY <2>2 DEF PushAccepted, history
    <3>2. hand[t] \in Seq(Entry) /\ Len(hand[t]) \in {1, 2}
      BY <1>0, <2>2, HandLength DEF PushAccepted
    <3>3. Lengthens(pending, pending')
      BY <1>0, <3>1, <3>2, PushBatchLengthens
    <3>4. ClaimedBatch' = ClaimedBatch
      BY <1>0, <3>1, ClaimedBatchKept
    <3> QED
      BY <1>0, <3>1, <3>3, <3>4, PendingStep
  <2>3. CASE PushRejected(t)
    <3>1. /\ claimed' = claimed /\ batch' = batch /\ pending' = pending
          /\ UNCHANGED <<done, abandoned, lost>>
      BY <2>3 DEF PushRejected, shared, history
    <3> QED
      BY <1>0, <3>1, ClaimedBatchKept, QuietStep
  <2>4. CASE ClaimInline(t)
    <3>1. /\ Claim(t, hand[t]) /\ UNCHANGED <<done, abandoned, lost>>
          /\ hand[t] \in Seq(Entry)
      BY <1>0, <2>4 DEF ClaimInline, history, TypeOK
    <3> QED
      BY <1>0, <3>1, ClaimLineStep
  <2>5. CASE JoinInline(t)
    <3>1. /\ claimed' = claimed /\ pending' = pending
          /\ UNCHANGED <<done, abandoned, lost>>
      BY <2>5 DEF JoinInline, shared, history
    <3>2. \A u \in Threads : claimed[u] => batch'[u] = batch[u]
      BY <1>0, <2>5 DEF JoinInline, Ownership, TypeOK
    <3> QED
      BY <1>0, <3>1, <3>2, ClaimedBatchKept, QuietStep
  <2>6. CASE AcquireExec(t)
    <3>1. /\ claimed' = claimed /\ batch' = batch /\ pending' = pending
          /\ UNCHANGED <<done, abandoned, lost>>
      BY <2>6 DEF AcquireExec, history
    <3> QED
      BY <1>0, <3>1, ClaimedBatchKept, QuietStep
  <2>7. CASE Run(t)
    BY <2>7, RunHandoff
  <2>8. CASE FinishBatch(t)
    <3>1. /\ claimed' = claimed /\ batch' = batch /\ pending' = pending
          /\ UNCHANGED <<done, abandoned, lost>>
      BY <2>8 DEF FinishBatch, history
    <3> QED
      BY <1>0, <3>1, ClaimedBatchKept, QuietStep
  <2>9. CASE ReleaseExecuting(t)
    <3>1. /\ claimed' = [claimed EXCEPT ![t] = FALSE] /\ pending' = pending
          /\ UNCHANGED <<done, abandoned, lost>>
      BY <2>9 DEF ReleaseExecuting, history
    <3>2. claimed[t] /\ batch[t] = <<>>
      BY <2>9 DEF ReleaseExecuting, Handing, Ordered, Ownership, Places, Idle
    <3>3. ClaimedBatch = <<>>
      BY <1>0, <3>2, ClaimedBatchIs
    <3>4. \A u \in Threads : ~claimed'[u]
      BY <1>0, <3>1, <3>2 DEF Ownership, TypeOK
    <3>5. ClaimedBatch' = <<>>
      BY <1>0, <3>4, ClaimedBatchIsNext
    <3> QED
      BY <3>1, <3>3, <3>5, QuietStep
  <2> QED
    BY <1>3, <2>1, <2>2, <2>3, <2>4, <2>5, <2>6, <2>7, <2>8, <2>9 DEF Proceed
<1>4. CASE Shutdown
  <2>1. claimed' = claimed /\ batch' = batch
    BY <1>4 DEF Shutdown, threads
  <2> QED
    BY <1>0, <1>4, <2>1, ClaimedBatchKept, CloseStep
<1>5. CASE Age
  <2> DEFINE i == First(Fresh)
             e == [pending[i] EXCEPT !.stale = TRUE]
  <2>1. /\ pending' = [pending EXCEPT ![i] = e]
        /\ claimed' = claimed /\ batch' = batch
        /\ UNCHANGED <<done, abandoned, lost>>
    BY <1>5 DEF Age, threads, history
  <2>2. ClaimedBatch' = ClaimedBatch
    BY <1>0, <2>1, ClaimedBatchKept
  <2>3. CASE i \in 1 .. Len(pending)
    <3>1. pending[i] \in Entry
      BY <1>0, <2>3, ElementOfSeq
    <3>2. e \in Entry /\ e.tickets = pending[i].tickets
      BY <3>1 DEF Entry
    <3> HIDE DEF i, e
    <3>3. /\ Len([pending EXCEPT ![i] = e]) = Len(pending)
          /\ \A j \in 1 .. Len(pending) :
               [pending EXCEPT ![i] = e][j] = IF j = i THEN e ELSE pending[j]
      BY <1>0, <3>2, ReplaceType
    <3>4. Lengthens(pending, pending')
      <4>1. Len(pending) \in Nat
        BY <1>0, LenProperties
      <4> QED
        BY <2>1, <3>2, <3>3, <4>1 DEF Lengthens
    <3> QED
      BY <1>0, <2>1, <2>2, <3>4, PendingStep
  <2>4. CASE i \notin 1 .. Len(pending)
    <3>1. pending' = pending
      BY <1>0, <2>1, <2>4, LenProperties
    <3> QED
      BY <2>1, <2>2, <3>1, QuietStep
  <2> QED
    BY <2>3, <2>4
<1>6. CASE UNCHANGED vars
  <2>1. /\ claimed' = claimed /\ batch' = batch /\ pending' = pending
        /\ UNCHANGED <<done, abandoned, lost>>
    BY <1>6 DEF vars, shared, threads, history
  <2> QED
    BY <1>0, <2>1, ClaimedBatchKept, QuietStep
<1> QED
  BY <1>1, <1>2, <1>3, <1>4, <1>5, <1>6 DEF Next

\* The queue, with its claims, its fallbacks run beside another thread's batch,
\* its retries and its shutdown, is an exactly-once handoff served from the
\* front of one line (the guarantees of ownerqueue.hpp's header comment).
THEOREM ImplementsHandoffAlways == Spec => ImplementsHandoff
<1>1. Init => Ordered
  BY InvInit, OwnershipInit, PlacesInit, OwnerClaimsInit DEF Ordered
<1>2. Ordered /\ [Next]_vars => Ordered'
  <2> SUFFICES ASSUME Ordered, [Next]_vars PROVE Ordered'
    OBVIOUS
  <2>1. Inv' /\ Ownership' /\ Places' /\ OwnerClaims'
    BY InvStep, OwnershipStep, PlacesStep, OwnerClaimsStep DEF Ordered, Inv
  <2> QED
    BY <2>1 DEF Ordered
<1>3. Ordered => LineFacts
  BY LineRecords DEF Ordered, Inv
<1>4. Ordered /\ LineFacts /\ (Ordered /\ LineFacts)' /\ [Next]_vars
        => [Handoff!Next]_(Handoff!handoff)
  BY HandoffStep DEF Handing
<1> QED
  BY <1>1, <1>2, <1>3, <1>4, HandoffInit, PTL
  DEF Spec, ImplementsHandoff, Handoff!Spec

-----------------------------------------------------------------------------
(***************************************************************************)
(* Room.  Commands about one subject share a record, so the pending set is *)
(* no longer than there are subjects, and a queue with a slot for each     *)
(* always takes back a compatibility step that has to wait.                *)
(***************************************************************************)

\* What a command is about: the target of an install or of a compatibility
\* step; all injections, snapshots and broadcasts are about one thing each.
Subject(c) ==
  [kind |-> c.kind,
   ids  |-> IF c.kind \in {"InstallApp", "EnsureCompat"} THEN c.ids ELSE {},
   gen  |-> IF c.kind = "EnsureCompat" THEN c.gen ELSE 0]

\* Commands among which records stay: merging two about one subject, or trying
\* one again, leads to another of them.
Closed(K) ==
  /\ K \subseteq Command
  /\ \A c, d \in K : Subject(c) = Subject(d) => Merged(c, d) \in K
  /\ \A c \in K : \A n \in 0 .. MaxAttempts - 1 : [c EXCEPT !.attempt = n] \in K

\* A slot for every subject that commands of K are about.
Slots(S, K) ==
  /\ IsFiniteSet(S) /\ Cardinality(S) <= Capacity
  /\ \A c \in K : Subject(c) \in S

AllIn(K, q) == \A i \in 1 .. Len(q) : q[i].cmd \in K

Spread(q) ==
  \A i, j \in 1 .. Len(q) : Subject(q[i].cmd) = Subject(q[j].cmd) => i = j

SortedIn(K) ==
  /\ Spread(pending) /\ AllIn(K, pending)
  /\ \A t \in Threads : AllIn(K, hand[t]) /\ AllIn(K, batch[t])

LEMMA SubjectsAgree ==
  ASSUME NEW c \in Command, NEW d \in Command
  PROVE  Subject(c) = Subject(d) <=>
           \/ sameWork(c, d)
           \/ c.kind = d.kind /\ d.kind \in {"InjectPackage0", "SyncPackage0"}
<1>1. Subject(c) = Subject(d) <=>
        /\ c.kind = d.kind
        /\ c.kind \in {"InstallApp", "EnsureCompat"} => c.ids = d.ids
        /\ c.kind = "EnsureCompat" => c.gen = d.gen
  BY DEF Subject
<1>2. c.kind \in Kind
  BY DEF Command
<1> QED
  BY <1>1, <1>2 DEF sameWork, Kind

\* A record absorbs exactly the commands about its subject.
LEMMA AbsorbsSubject ==
  ASSUME NEW q \in Seq(Entry), NEW c \in Command, NEW i \in 1 .. Len(q)
  PROVE  i \in Absorbing(q, c) <=> Subject(q[i].cmd) = Subject(c)
<1>1. q[i].cmd \in Command
  <2>1. q[i] \in Entry
    BY ElementOfSeq
  <2> QED
    BY <2>1 DEF Entry
<1>2. i \in DOMAIN q
  BY LenProperties
<1> QED
  BY <1>1, <1>2, SubjectsAgree DEF Absorbing

LEMMA MergedSubject ==
  ASSUME NEW c \in Command, NEW d \in Command, Subject(c) = Subject(d)
  PROVE  /\ Subject(Merged(c, d)) = Subject(c)
         /\ c.kind = "EnsureCompat" => Merged(c, d) = c
<1>0. c.kind = d.kind
  BY DEF Subject
<1>1. CASE c.kind = "InjectPackage0"
  <2>1. Merged(c, d).kind = c.kind
    BY <1>0, <1>1 DEF Merged, Command
  <2> QED
    BY <1>1, <2>1 DEF Subject
<1>2. CASE c.kind = "SyncPackage0"
  <2>1. Merged(c, d).kind = c.kind
    BY <1>0, <1>2 DEF Merged, carryPendingSnapshotWork, Command
  <2> QED
    BY <1>2, <2>1 DEF Subject
<1>3. CASE c.kind \notin {"InjectPackage0", "SyncPackage0"}
  BY <1>0, <1>3 DEF Merged
<1> QED
  BY <1>1, <1>2, <1>3

\* A push keeps the records about different subjects, and brings the one it is
\* about.
LEMMA PushSpread ==
  ASSUME NEW K, Closed(K), NEW q \in Seq(Entry), NEW e \in Entry,
         AllIn(K, q), e.cmd \in K
  PROVE  /\ Spread(q) => Spread(Push(q, e))
         /\ AllIn(K, Push(q, e))
<1>0. e.cmd \in Command /\ Len(q) \in Nat
  BY LenProperties DEF Entry
<1>1. CASE Absorbing(q, e.cmd) = {} /\ Push(q, e) = Append(q, e)
  <2>1. /\ Len(Append(q, e)) = Len(q) + 1
        /\ \A j \in 1 .. Len(q) + 1 :
             Append(q, e)[j] = IF j <= Len(q) THEN q[j] ELSE e
    BY LenProperties, AppendProperties
  <2>2. \A i \in 1 .. Len(q) : Subject(q[i].cmd) # Subject(e.cmd)
    BY <1>0, <1>1, AbsorbsSubject
  <2>3. Spread(q) => Spread(Push(q, e))
    BY <1>0, <1>1, <2>1, <2>2 DEF Spread
  <2>4. AllIn(K, Push(q, e))
    BY <1>0, <1>1, <2>1 DEF AllIn
  <2> QED
    BY <2>3, <2>4
<1>2. ASSUME NEW i \in 1 .. Len(q), i \in Absorbing(q, e.cmd),
             Push(q, e) = [q EXCEPT ![i] = Coalesce(q[i], e)]
      PROVE  /\ Spread(q) => Spread(Push(q, e))
             /\ AllIn(K, Push(q, e))
  <2> DEFINE f == Coalesce(q[i], e)
  <2>1. q[i] \in Entry /\ f \in Entry /\ f.cmd = Merged(q[i].cmd, e.cmd)
    BY ElementOfSeq, CoalesceType
  <2>2. q[i].cmd \in Command /\ Subject(q[i].cmd) = Subject(e.cmd)
    BY <1>0, <1>2, <2>1, AbsorbsSubject DEF Entry
  <2>3. Subject(f.cmd) = Subject(q[i].cmd)
    BY <1>0, <2>1, <2>2, MergedSubject
  <2>4. f.cmd \in K
    BY <2>1, <2>2 DEF Closed, AllIn
  <2>5. Push(q, e) = [q EXCEPT ![i] = f]
    BY <1>2
  <2> HIDE DEF f
  <2>6. /\ Len([q EXCEPT ![i] = f]) = Len(q)
        /\ \A j \in 1 .. Len(q) : [q EXCEPT ![i] = f][j] = IF j = i THEN f ELSE q[j]
    BY <2>1, ReplaceType
  <2>7. AllIn(K, [q EXCEPT ![i] = f])
    BY <2>4, <2>6 DEF AllIn
  <2>8. \A j \in 1 .. Len(q) :
          Subject([q EXCEPT ![i] = f][j].cmd) = Subject(q[j].cmd)
    BY <2>3, <2>6
  <2>9. Spread(q) => Spread([q EXCEPT ![i] = f])
    BY <2>6, <2>8 DEF Spread
  <2> QED
    BY <2>5, <2>7, <2>9
<1> QED
  BY <1>1, <1>2, PushCases

LEMMA FirstOfFew ==
  ASSUME NEW n \in {1, 2}
  PROVE  1 \in 1 .. n
OBVIOUS

LEMMA PushBatchSpread ==
  ASSUME NEW K, Closed(K), NEW q \in Seq(Entry), NEW b \in Seq(Entry),
         Len(b) \in {1, 2}, AllIn(K, q), AllIn(K, b), Spread(q)
  PROVE  /\ Spread(PushBatch(q, b))
         /\ AllIn(K, PushBatch(q, b))
<1>1. b[1] \in Entry /\ b[1].cmd \in K
  <2>1. 1 \in 1 .. Len(b)
    BY FirstOfFew
  <2> QED
    BY <2>1, ElementOfSeq DEF AllIn
<1>2. /\ Push(q, b[1]) \in Seq(Entry)
      /\ Spread(Push(q, b[1])) /\ AllIn(K, Push(q, b[1]))
  BY <1>1, PushType, PushSpread
<1>3. CASE Len(b) = 1
  BY <1>2, <1>3 DEF PushBatch
<1>4. CASE Len(b) = 2
  <2>1. 2 \in 1 .. Len(b)
    BY <1>4
  <2>2. b[2] \in Entry /\ b[2].cmd \in K
    BY <2>1, ElementOfSeq DEF AllIn
  <2> QED
    BY <1>2, <1>4, <2>2, PushSpread DEF PushBatch
<1> QED
  BY <1>3, <1>4

LEMMA ConcatIn ==
  ASSUME NEW K, NEW q \in Seq(Entry), NEW r \in Seq(Entry), AllIn(K, q), AllIn(K, r)
  PROVE  AllIn(K, q \o r)
<1>1. /\ Len(q \o r) = Len(q) + Len(r) /\ Len(q) \in Nat /\ Len(r) \in Nat
      /\ \A i \in 1 .. Len(q) + Len(r) :
           (q \o r)[i] = IF i <= Len(q) THEN q[i] ELSE r[i - Len(q)]
  BY ConcatProperties, LenProperties
<1>2. ASSUME NEW i \in 1 .. Len(q) + Len(r)
      PROVE  (q \o r)[i].cmd \in K
  <2>1. CASE i <= Len(q)
    BY <1>1, <2>1 DEF AllIn
  <2>2. CASE ~(i <= Len(q))
    <3>1. i - Len(q) \in 1 .. Len(r) /\ (q \o r)[i] = r[i - Len(q)]
      BY <1>1, <2>2
    <3> QED
      BY <3>1 DEF AllIn
  <2> QED
    BY <2>1, <2>2
<1> QED
  BY <1>1, <1>2 DEF AllIn

LEMMA TailIn ==
  ASSUME NEW K, NEW q \in Seq(Entry), q # <<>>, AllIn(K, q)
  PROVE  AllIn(K, Tail(q)) /\ Head(q).cmd \in K
<1>1. /\ Len(Tail(q)) = Len(q) - 1 /\ Len(q) \in Nat \ {0} /\ Head(q) = q[1]
      /\ \A i \in 1 .. Len(Tail(q)) : Tail(q)[i] = q[i + 1]
  BY HeadTailProperties, EmptySeq
<1> QED
  BY <1>1 DEF AllIn

\* Records about different subjects leave a slot for one more subject.
LEMMA SlotFree ==
  ASSUME NEW K, NEW S, Slots(S, K), NEW q \in Seq(Entry), AllIn(K, q), Spread(q),
         NEW e \in Entry, e.cmd \in K, Absorbing(q, e.cmd) = {}
  PROVE  Len(q) < Capacity
<1> DEFINE R == S \ {Subject(e.cmd)}
           f == [i \in 1 .. Len(q) |-> Subject(q[i].cmd)]
<1>0. e.cmd \in Command /\ Len(q) \in Nat
  BY LenProperties DEF Entry
<1>1. \A i \in 1 .. Len(q) : Subject(q[i].cmd) # Subject(e.cmd)
  BY <1>0, AbsorbsSubject
<1>2. \A i \in 1 .. Len(q) : Subject(q[i].cmd) \in R
  BY <1>1 DEF AllIn, Slots
<1>3. IsFiniteSet(R) /\ Cardinality(R) = Cardinality(S) - 1
  BY FS_RemoveElement DEF Slots
<1>4. f \in Injection(1 .. Len(q), R)
  <2> HIDE DEF R
  <2> QED
    BY <1>2 DEF Injection, IsInjective, Spread
<1> HIDE DEF f
<1>5. Cardinality(1 .. Len(q)) <= Cardinality(R)
  BY <1>3, <1>4, FS_Injection
<1>6. Cardinality(1 .. Len(q)) = Len(q)
  <2>1. 1 \in Int /\ Len(q) \in Int
    BY <1>0
  <2>2. Cardinality(1 .. Len(q)) = IF 1 > Len(q) THEN 0 ELSE Len(q) - 1 + 1
    BY <2>1, FS_Interval
  <2> QED
    BY <1>0, <2>2
<1>7. Cardinality(S) \in Nat /\ Cardinality(S) <= Capacity
  BY FS_CardinalityType DEF Slots
<1> QED
  BY <1>0, <1>3, <1>5, <1>6, <1>7, BoundsAssumption

\* A command finds its record or a free slot, unless its id lists are too long.
LEMMA RoomToPush ==
  ASSUME NEW K, Closed(K), NEW S, Slots(S, K), NEW q \in Seq(Entry), NEW e \in Entry,
         AllIn(K, q), Spread(q), e.cmd \in K,
         \A c \in K : c.kind = e.cmd.kind => WithinIdCap(c)
  PROVE  CanPush(q, e)
<1> DEFINE hits == Absorbing(q, e.cmd)
<1>0. e.cmd \in Command /\ Len(q) \in Nat /\ hits \in SUBSET (1 .. Len(q))
  BY LenProperties DEF Entry, Absorbing
<1>1. CASE hits = {}
  <2>1. Len(q) < Capacity
    BY <1>1, SlotFree
  <2> QED
    BY <1>1, <2>1 DEF CanPush
<1>2. CASE hits # {}
  <2>1. First(hits) \in hits
    <3>1. hits \in SUBSET Nat
      BY <1>0
    <3> HIDE DEF hits
    <3> QED
      BY <1>2, <3>1, FirstIsIn
  <2>2. PICK i \in 1 .. Len(q) : i = First(hits) /\ i \in hits
    BY <1>0, <2>1
  <2>3. q[i].cmd \in Command /\ Subject(q[i].cmd) = Subject(e.cmd)
    <3>1. q[i] \in Entry
      BY ElementOfSeq
    <3> QED
      BY <1>0, <2>2, <3>1, AbsorbsSubject DEF Entry
  <2>4. Merged(q[i].cmd, e.cmd) \in K
    BY <2>3 DEF Closed, AllIn
  <2>5. Merged(q[i].cmd, e.cmd).kind = e.cmd.kind
    BY <1>0, <2>3, MergedSubject DEF Subject
  <2> QED
    BY <1>2, <2>2, <2>4, <2>5 DEF CanPush
<1> QED
  BY <1>1, <1>2

\* So does a batch that is about to be pushed.
LEMMA RoomToPushBatch ==
  ASSUME NEW K, Closed(K), NEW S, Slots(S, K), NEW q \in Seq(Entry),
         NEW b \in Seq(Entry), Len(b) \in {1, 2},
         AllIn(K, q), AllIn(K, b), Spread(q), \A c \in K : WithinIdCap(c)
  PROVE  CanPushBatch(q, b)
<1>1. b[1] \in Entry /\ b[1].cmd \in K
  <2>1. 1 \in 1 .. Len(b)
    BY FirstOfFew
  <2> QED
    BY <2>1, ElementOfSeq DEF AllIn
<1>2. /\ CanPush(q, b[1]) /\ Push(q, b[1]) \in Seq(Entry)
      /\ Spread(Push(q, b[1])) /\ AllIn(K, Push(q, b[1]))
  BY <1>1, RoomToPush, PushType, PushSpread
<1>3. CASE Len(b) = 2
  <2>1. 2 \in 1 .. Len(b)
    BY <1>3
  <2>2. b[2] \in Entry /\ b[2].cmd \in K
    BY <2>1, ElementOfSeq DEF AllIn
  <2>3. CanPush(Push(q, b[1]), b[2])
    BY <1>2, <2>2, RoomToPush
  <2> QED
    BY <1>2, <2>3 DEF CanPushBatch
<1> QED
  BY <1>2, <1>3 DEF CanPushBatch

LEMMA NothingIn ==
  ASSUME NEW K
  PROVE  AllIn(K, <<>>) /\ Spread(<<>>)
BY DEF AllIn, Spread

LEMMA SubmittedIn ==
  ASSUME NEW K, NEW t \in Threads, NEW b \in Batches, \A i \in DOMAIN b : b[i] \in K
  PROVE  AllIn(K, [i \in DOMAIN b |-> NewEntry(t, b[i])])
<1> DEFINE h == [i \in DOMAIN b |-> NewEntry(t, b[i])]
<1>1. b \in Seq(Command) /\ DOMAIN b = 1 .. Len(b) /\ Len(b) \in Nat
  BY ClientAssumption, LenProperties
<1>2. Len(h) = Len(b) /\ \A i \in 1 .. Len(b) : h[i].cmd = b[i]
  BY <1>1 DEF NewEntry
<1> HIDE DEF h
<1> QED
  BY <1>1, <1>2 DEF AllIn, h

\* The step that is pushed again, of a thread that runs one.
Again(t) ==
  [cmd |-> [Head(batch[t]).cmd EXCEPT !.attempt = IF t = Owner THEN @ + 1 ELSE @],
   tickets |-> Head(batch[t]).tickets, stale |-> FALSE]

LEMMA AgainIn ==
  ASSUME NEW K, Closed(K), Inv, SortedIn(K), NEW t \in Threads, RunAgain(t)
  PROVE  /\ Again(t) \in Entry /\ Again(t).cmd \in K
         /\ Again(t).cmd.kind = "EnsureCompat"
<1> DEFINE e   == Head(batch[t])
           cmd == [e.cmd EXCEPT !.attempt = IF t = Owner THEN @ + 1 ELSE @]
<1>1. /\ e.cmd.kind = "EnsureCompat"
      /\ t = Owner => cmd.attempt < MaxAttempts
      /\ Again(t) = [cmd |-> cmd, tickets |-> e.tickets, stale |-> FALSE]
      /\ Running(t)
  BY DEF RunAgain, Again
<1>2. batch[t] \in Seq(Entry) /\ batch[t] # <<>>
  BY <1>1 DEF Running, Inv, TypeOK
<1>3. e.cmd \in K /\ e \in Entry
  BY <1>2, TailIn, HeadTailProperties DEF SortedIn
<1> HIDE DEF e
<1>4. e.cmd \in Command /\ e.tickets \in SUBSET Ticket
  BY <1>3 DEF Entry
<1>5. cmd \in Command /\ cmd.kind = e.cmd.kind
  BY <1>1, <1>4, BoundsAssumption DEF Command
<1>6. cmd \in K
  <2>1. /\ cmd = [e.cmd EXCEPT !.attempt = cmd.attempt]
        /\ cmd.attempt \in 0 .. MaxAttempts - 1
    BY <1>4, <1>5 DEF Command
  <2> QED
    BY <1>3, <2>1 DEF Closed
<1> HIDE DEF cmd
<1> QED
  BY <1>1, <1>4, <1>5, <1>6 DEF Entry

\* A step that is no submission leaves what a thread has yet to hand over, or
\* takes it.
LEMMA HandLeft ==
  ASSUME TypeOK, NEW t \in Threads,
         \/ Drain(t) \/ FlushStale(t) \/ Proceed(t)
         \/ Shutdown \/ Age \/ UNCHANGED vars
  PROVE  \A u \in Threads : hand'[u] = hand[u] \/ hand'[u] = <<>>
<1>1. hand' = hand \/ hand' = [hand EXCEPT ![t] = <<>>]
  <2>1. CASE Drain(t) \/ FlushStale(t)
    BY <2>1 DEF Drain, FlushStale
  <2>2. CASE Abandon(t) \/ PushAccepted(t) \/ PushRejected(t)
    BY <2>2 DEF Abandon, PushAccepted, PushRejected, shared
  <2>3. CASE ClaimInline(t) \/ JoinInline(t) \/ AcquireExec(t)
    BY <2>3 DEF ClaimInline, JoinInline, AcquireExec, shared
  <2>4. CASE Run(t)
    BY <2>4 DEF Run, RunCommand, RunPublishing, RunAgain, shared
  <2>5. CASE FinishBatch(t) \/ ReleaseExecuting(t)
    BY <2>5 DEF FinishBatch, ReleaseExecuting
  <2>6. CASE Shutdown \/ Age \/ UNCHANGED vars
    BY <2>6 DEF Shutdown, Age, vars, threads
  <2> QED
    BY <2>1, <2>2, <2>3, <2>4, <2>5, <2>6 DEF Proceed
<1> QED
  BY <1>1 DEF TypeOK

\* A submission puts its commands there.
LEMMA HandFilled ==
  ASSUME NEW K, TypeOK, NEW t \in Threads, NEW b \in Batches, Submit(t, b),
         \A i \in DOMAIN b : b[i] \in K
  PROVE  \A u \in Threads : hand'[u] = hand[u] \/ AllIn(K, hand'[u])
<1> DEFINE h == [i \in DOMAIN b |-> NewEntry(t, b[i])]
<1>1. hand' = [hand EXCEPT ![t] = h]
  BY DEF Submit
<1>2. AllIn(K, h)
  BY SubmittedIn
<1> HIDE DEF h
<1> QED
  BY <1>1, <1>2 DEF TypeOK

\* Records stay about different subjects, and among the commands that are
\* submitted.
LEMMA SortedStep ==
  ASSUME NEW K, Closed(K), Inv, SortedIn(K), [Next]_vars,
         \A t \in Threads : AllIn(K, hand'[t])
  PROVE  SortedIn(K)'
<1>0. TypeOK /\ Hands
  BY DEF Inv
<1>1. ASSUME NEW t \in Threads, NEW b \in Batches, Submit(t, b)
      PROVE  SortedIn(K)'
  BY <1>1 DEF Submit, SortedIn, shared
<1>2. ASSUME NEW t \in Threads, NEW extra \in Seq(Entry), AllIn(K, extra),
             Claim(t, extra), hand' = hand \/ hand' = [hand EXCEPT ![t] = <<>>]
      PROVE  SortedIn(K)'
  <2>1. AllIn(K, pending \o extra)
    BY <1>0, <1>2, ConcatIn DEF SortedIn, TypeOK
  <2> QED
    BY <1>0, <1>2, <2>1, NothingIn DEF SortedIn, Claim, Take, TypeOK
<1>3. ASSUME NEW t \in Threads, Drain(t) \/ FlushStale(t)
      PROVE  SortedIn(K)'
  <2>1. Claim(t, <<>>) /\ hand' = hand /\ <<>> \in Seq(Entry)
    BY <1>3, EmptySeq DEF Drain, FlushStale
  <2> QED
    BY <1>2, <2>1, NothingIn
<1>4. ASSUME NEW t \in Threads, Proceed(t)
      PROVE  SortedIn(K)'
  <2>1. CASE Abandon(t)
    BY <1>0, <2>1, NothingIn DEF Abandon, SortedIn, TypeOK, shared
  <2>2. CASE PushAccepted(t)
    <3>1. hand[t] \in Seq(Entry) /\ Len(hand[t]) \in {1, 2}
      BY <1>0, <2>2, HandLength DEF PushAccepted
    <3>2. /\ AllIn(K, PushBatch(pending, hand[t]))
          /\ Spread(PushBatch(pending, hand[t]))
      BY <1>0, <3>1, PushBatchSpread DEF SortedIn, TypeOK
    <3> QED
      BY <1>0, <2>2, <3>2, NothingIn DEF PushAccepted, SortedIn, TypeOK
  <2>3. CASE ClaimInline(t)
    <3>1. hand[t] \in Seq(Entry) /\ AllIn(K, hand[t])
      BY <1>0 DEF TypeOK, SortedIn
    <3> QED
      BY <1>2, <2>3, <3>1 DEF ClaimInline
  <2>4. CASE JoinInline(t)
    BY <1>0, <2>4, NothingIn DEF JoinInline, SortedIn, TypeOK, shared
  <2>5. CASE Run(t)
    <3>1. /\ Running(t) /\ Step(t) /\ hand' = hand
          /\ \/ pending' = pending
             \/ RunAgain(t) /\ pending' = Push(pending, Again(t))
      BY <2>5 DEF Run, RunCommand, RunPublishing, RunAgain, Again, shared
    <3>2. batch[t] \in Seq(Entry) /\ batch[t] # <<>>
      BY <1>0, <3>1 DEF Running, TypeOK
    <3>3. AllIn(K, Tail(batch[t]))
      BY <3>2, TailIn DEF SortedIn
    <3>4. AllIn(K, pending') /\ Spread(pending')
      <4>1. CASE pending' = pending
        BY <4>1 DEF SortedIn
      <4>2. CASE RunAgain(t) /\ pending' = Push(pending, Again(t))
        <5>1. Again(t) \in Entry /\ Again(t).cmd \in K
          BY <4>2, AgainIn
        <5> QED
          BY <1>0, <4>2, <5>1, PushSpread DEF SortedIn, TypeOK
      <4> QED
        BY <3>1, <4>1, <4>2
    <3> QED
      BY <1>0, <3>1, <3>3, <3>4 DEF SortedIn, Step, TypeOK
  <2>6. CASE PushRejected(t) \/ AcquireExec(t) \/ FinishBatch(t) \/ ReleaseExecuting(t)
    BY <2>6 DEF PushRejected, AcquireExec, FinishBatch, ReleaseExecuting, SortedIn, shared
  <2> QED
    BY <1>4, <2>1, <2>2, <2>3, <2>4, <2>5, <2>6 DEF Proceed
<1>5. CASE Shutdown
  BY <1>5, NothingIn DEF Shutdown, SortedIn, threads
<1>6. CASE Age
  <2> DEFINE i == First(Fresh)
             e == [pending[i] EXCEPT !.stale = TRUE]
  <2>1. pending' = [pending EXCEPT ![i] = e] /\ UNCHANGED <<hand, batch>>
    BY <1>6 DEF Age, threads
  <2>2. pending \in Seq(Entry)
    BY <1>0 DEF TypeOK
  <2>3. CASE i \in 1 .. Len(pending)
    <3>1. pending[i] \in Entry
      BY <2>2, <2>3, ElementOfSeq
    <3>2. e \in Entry /\ e.cmd = pending[i].cmd
      BY <3>1 DEF Entry
    <3> HIDE DEF i, e
    <3>3. /\ Len([pending EXCEPT ![i] = e]) = Len(pending)
          /\ \A j \in 1 .. Len(pending) :
               [pending EXCEPT ![i] = e][j] = IF j = i THEN e ELSE pending[j]
      BY <2>2, <3>2, ReplaceType
    <3>4. \A j \in 1 .. Len(pending) : pending'[j].cmd = pending[j].cmd
      BY <2>1, <3>2, <3>3
    <3>5. Len(pending') = Len(pending)
      BY <2>1, <3>3
    <3>6. Spread(pending') /\ AllIn(K, pending')
      BY <3>4, <3>5 DEF SortedIn, Spread, AllIn
    <3> QED
      BY <2>1, <3>6 DEF SortedIn
  <2>4. CASE i \notin 1 .. Len(pending)
    <3>1. pending' = pending
      BY <2>1, <2>2, <2>4, LenProperties
    <3> QED
      BY <2>1, <3>1 DEF SortedIn
  <2> QED
    BY <2>3, <2>4
<1>7. CASE UNCHANGED vars
  BY <1>7 DEF vars, shared, threads, SortedIn
<1> QED
  BY <1>1, <1>3, <1>4, <1>5, <1>6, <1>7 DEF Next

Subjects == UNION {{Subject(b[i]) : i \in DOMAIN b} : b \in Batches}

\* A slot for every subject, and id lists of compatibility steps in bounds.
Room ==
  /\ IsFiniteSet(Subjects) /\ Cardinality(Subjects) <= Capacity
  /\ \A b \in Batches : \A i \in DOMAIN b :
       b[i].kind = "EnsureCompat" => WithinIdCap(b[i])

\* The commands like those that are submitted.
Usual ==
  {c \in Command : /\ Subject(c) \in Subjects
                   /\ c.kind = "EnsureCompat" => WithinIdCap(c)}

LEMMA UsualClosed == Closed(Usual)
<1>1. ASSUME NEW c \in Usual, NEW d \in Usual, Subject(c) = Subject(d)
      PROVE  Merged(c, d) \in Usual
  <2>1. c \in Command /\ d \in Command
    BY DEF Usual
  <2>2. /\ Merged(c, d) \in Command /\ Subject(Merged(c, d)) = Subject(c)
        /\ c.kind = "EnsureCompat" => Merged(c, d) = c
    BY <1>1, <2>1, MergedType, MergedSubject
  <2>3. Merged(c, d).kind = c.kind
    BY <2>2 DEF Subject
  <2> QED
    BY <2>2, <2>3 DEF Usual
<1>2. ASSUME NEW c \in Usual, NEW n \in 0 .. MaxAttempts - 1
      PROVE  [c EXCEPT !.attempt = n] \in Usual
  <2> DEFINE d == [c EXCEPT !.attempt = n]
  <2>1. c \in Command
    BY DEF Usual
  <2>2. /\ d \in Command /\ d.kind = c.kind /\ d.ids = c.ids
        /\ d.gen = c.gen /\ d.added = c.added
    BY <2>1 DEF Command
  <2> HIDE DEF d
  <2>3. Subject(d) = Subject(c)
    BY <2>2 DEF Subject
  <2>4. d \in Usual
    BY <2>2, <2>3 DEF Usual, WithinIdCap
  <2> QED
    BY <2>4 DEF d
<1> QED
  BY <1>1, <1>2 DEF Closed, Usual

LEMMA SubmittedUsual ==
  ASSUME Room, NEW b \in Batches
  PROVE  \A i \in DOMAIN b : b[i] \in Usual
<1>1. b \in Seq(Command) /\ DOMAIN b = 1 .. Len(b)
  BY ClientAssumption, LenProperties
<1>2. \A i \in DOMAIN b : b[i] \in Command
  BY <1>1, ElementOfSeq
<1> QED
  BY <1>2 DEF Usual, Subjects, Room

Sorted == SortedIn(Usual)

LEMMA HandsUsual ==
  ASSUME Room, Inv, Sorted, [Next]_vars
  PROVE  \A u \in Threads : AllIn(Usual, hand'[u])
<1>0. TypeOK /\ \A u \in Threads : AllIn(Usual, hand[u])
  BY DEF Inv, Sorted, SortedIn
<1>1. ASSUME NEW t \in Threads, NEW b \in Batches, Submit(t, b)
      PROVE  \A u \in Threads : AllIn(Usual, hand'[u])
  BY <1>0, <1>1, HandFilled, SubmittedUsual
<1>2. ASSUME NEW t \in Threads,
             \/ Drain(t) \/ FlushStale(t) \/ Proceed(t)
             \/ Shutdown \/ Age \/ UNCHANGED vars
      PROVE  \A u \in Threads : AllIn(Usual, hand'[u])
  BY <1>0, <1>2, HandLeft, NothingIn
<1> QED
  BY <1>1, <1>2, ThreadsAssumption DEF Next

\* A queue with a slot for every subject never drops a command: the push that
\* puts a compatibility step back, whose result nobody looks at, finds room
\* (ownerwork.cpp, runCommand; ownerqueue.hpp, applyPush).
THEOREM NothingLostAlways == Room => (Spec => []NothingLost)
<1> SUFFICES ASSUME Room PROVE Spec => []NothingLost
  OBVIOUS
<1>1. Init => Sorted /\ NothingLost
  BY NothingIn DEF Init, Sorted, SortedIn, NothingLost
<1>2. Inv /\ Sorted /\ NothingLost /\ [Next]_vars => Sorted' /\ NothingLost'
  <2> SUFFICES ASSUME Inv, Sorted, NothingLost, [Next]_vars PROVE NothingLost'
    BY SortedStep, UsualClosed, HandsUsual DEF Sorted
  <2>1. ASSUME NEW t \in Threads, RunAgain(t) PROVE lost' = lost
    <3>1. CanPush(pending, Again(t))
      <4>1. pending \in Seq(Entry)
        BY DEF Inv, TypeOK
      <4>2. /\ Again(t) \in Entry /\ Again(t).cmd \in Usual
            /\ Again(t).cmd.kind = "EnsureCompat"
        BY <2>1, UsualClosed, AgainIn DEF Sorted
      <4>3. \A c \in Usual : c.kind = "EnsureCompat" => WithinIdCap(c)
        BY DEF Usual
      <4>4. Slots(Subjects, Usual)
        BY DEF Room, Slots, Usual
      <4> QED
        BY <4>1, <4>2, <4>3, <4>4, UsualClosed, RoomToPush DEF Sorted, SortedIn
    <3> QED
      BY <2>1, <3>1 DEF RunAgain, Again
  <2>2. ASSUME NEW t \in Threads,
               \/ \E b \in Batches : Submit(t, b)
               \/ Drain(t) \/ FlushStale(t)
        PROVE  lost' = lost
    BY <2>2 DEF Submit, Drain, FlushStale, history
  <2>3. ASSUME NEW t \in Threads, Proceed(t), ~RunAgain(t) PROVE lost' = lost
    BY <2>3
    DEF Proceed, Abandon, PushAccepted, PushRejected, ClaimInline, JoinInline,
        AcquireExec, Run, RunCommand, RunPublishing, FinishBatch,
        ReleaseExecuting, history
  <2>4. Shutdown \/ Age \/ UNCHANGED vars => lost' = lost
    BY DEF Shutdown, Age, vars, history
  <2> QED
    BY <2>1, <2>2, <2>3, <2>4 DEF Next, NothingLost
<1> QED
  BY <1>1, <1>2, InvInit, InvStep, PTL DEF Spec

=============================================================================
