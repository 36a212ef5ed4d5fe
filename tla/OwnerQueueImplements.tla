------------------------- MODULE OwnerQueueImplements -------------------------
(***************************************************************************)
(* The queue implements the handoff: the line is the batch of the thread   *)
(* that holds the claim, then the pending set.                             *)
(***************************************************************************)
EXTENDS OwnerQueue

ClaimedBatch ==
  IF \E t \in Threads : claimed[t]
  THEN batch[CHOOSE t \in Threads : claimed[t]]
  ELSE <<>>

Line == LET q == ClaimedBatch \o pending IN [i \in DOMAIN q |-> q[i].tickets]

Handoff == INSTANCE OwnerHandoff WITH
  waiting <- Line,
  served  <- done,
  dropped <- abandoned \cup lost

\* Every behaviour of the queue is an exactly-once, in-order handoff.
ImplementsHandoff == Handoff!Spec

=============================================================================
