---------------------------- MODULE OwnerHandoff ----------------------------
(***************************************************************************)
(* What the owner queue is for, with no threads, locks or claims: a line   *)
(* of work handed over exactly once and in order.  Work waiting in line    *)
(* may absorb later work but is served strictly from the front; work that  *)
(* could not join the line is run by its submitter.                        *)
(* (src/utils/ownerqueue.hpp, the guarantees of its header comment.)       *)
(***************************************************************************)
EXTENDS Integers, Sequences

VARIABLES
  waiting,   \* sequence of sets of tickets, the front next to be served
  served,    \* tickets whose work has been run
  dropped    \* tickets refused, or dropped when the queue closed or was full

handoff == <<waiting, served, dropped>>

All(q) == UNION {q[i] : i \in DOMAIN q}

Distinct(q) == \A i, j \in DOMAIN q : i # j => q[i] \cap q[j] = {}

\* Tickets that newly appear in S are new to the whole system.
AllNew(S) == S \cap (All(waiting) \cup served \cup dropped) = {}

\* Every record of q keeps its place and its tickets in r.
Extends(q, r) ==
  /\ Len(q) <= Len(r)
  /\ \A i \in DOMAIN q : q[i] \subseteq r[i]

Init ==
  /\ waiting = <<>>
  /\ served = {}
  /\ dropped = {}

\* New work joins the line, in records of its own or in those waiting.
Join ==
  /\ Extends(waiting, waiting')
  /\ Distinct(waiting')
  /\ AllNew(All(waiting') \ All(waiting))
  /\ UNCHANGED <<served, dropped>>

\* The front of the line is served; serving it may serve new work on the spot.
Serve ==
  /\ waiting # <<>>
  /\ waiting' = Tail(waiting)
  /\ served \cup Head(waiting) \subseteq served'
  /\ AllNew(served' \ (served \cup Head(waiting)))
  /\ dropped \subseteq dropped'
  /\ AllNew(dropped' \ dropped)

\* The front of the line goes back to the end, or into a record like it.
Requeue ==
  /\ waiting # <<>>
  /\ Extends(Tail(waiting), waiting')
  /\ Distinct(waiting')
  /\ All(waiting') = All(waiting)
  /\ UNCHANGED <<served, dropped>>

\* The front of the line cannot go back.
DropFront ==
  /\ waiting # <<>>
  /\ waiting' = Tail(waiting)
  /\ dropped' = dropped \cup Head(waiting)
  /\ UNCHANGED served

\* Work that never joined the line is run, or refused.
ServeDirect ==
  /\ served \subseteq served'
  /\ AllNew(served' \ served)
  /\ UNCHANGED <<waiting, dropped>>

Refuse ==
  /\ dropped \subseteq dropped'
  /\ AllNew(dropped' \ dropped)
  /\ UNCHANGED <<waiting, served>>

\* The line closes behind the records already being served.
Close ==
  /\ Len(waiting') <= Len(waiting)
  /\ waiting' = SubSeq(waiting, 1, Len(waiting'))
  /\ dropped' = dropped \cup (All(waiting) \ All(waiting'))
  /\ UNCHANGED served

Next ==
  Join \/ Serve \/ Requeue \/ DropFront \/ ServeDirect \/ Refuse \/ Close

Spec == Init /\ [][Next]_handoff

=============================================================================
