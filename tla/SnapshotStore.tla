--------------------------- MODULE SnapshotStore ---------------------------
(***************************************************************************)
(* The membership store (src/feats/hotreload_state.hpp, class Store): hook *)
(* callbacks look apps up without a lock while reloads replace the         *)
(* snapshot, and report apps whose appinfo has become valid.               *)
(*                                                                         *)
(* A snapshot stands for its address: its generation is its own, so equal  *)
(* snapshots are one object, and likewise for records.  An object is freed *)
(* when nothing owns it: the empty snapshot is a member of the store, the  *)
(* others live in currentOwner_ and retired_.  Every atomic operation is   *)
(* an action; the ones that decide lifetimes are sequentially consistent   *)
(* in the code.                                                            *)
(*                                                                         *)
(*   readers    idle, load, look, found, check, cas, signal, leave         *)
(*   publishers idle, swap, count, clear, unlock   (publishMutex_ held)    *)
(*   the owner  idle, scan                         (publishMutex_ held)    *)
(***************************************************************************)
EXTENDS Integers, FiniteSets

CONSTANTS
  Apps,
  Readers,       \* threads with a ReadHandle
  Publishers,    \* threads that publish a membership
  Owner,         \* the thread that takes the dirty signal
  NoThread,
  MaxGeneration  \* bound: publications

ASSUME StoreAssumption ==
  /\ IsFiniteSet(Readers)
  /\ Readers \cap Publishers = {} /\ Owner \notin Readers \cup Publishers
  /\ NoThread \notin Readers \cup Publishers \cup {Owner}
  /\ MaxGeneration \in Nat

VARIABLES
  current,   \* currentRaw_
  owner,     \* currentOwner_, the empty snapshot for none
  retired,   \* retired_
  active,    \* activeReaders_
  dirty,     \* resolvedDirtyGeneration_
  resolved,  \* records whose resolvedGeneration is set
  mutex,     \* the thread that holds publishMutex_
  pc,        \* where each thread stands
  snapshot,  \* the snapshot of each reader's handle
  record,    \* the record its lookup found
  again,     \* the snapshot noteResolved loads
  taken,     \* the generation the owner has taken
  signalled  \* history: resolved records the owner has been told about

published == <<current, owner, retired, mutex>>
signals   == <<dirty, resolved, taken, signalled>>
handles   == <<active, snapshot, record, again>>
vars      == <<published, signals, handles, pc>>

Threads  == Readers \cup Publishers \cup {Owner}
Record   == [app : Apps, gen : Nat]
Snapshot == [gen : Nat, records : SUBSET Record]

Empty    == [gen |-> 0, records |-> {}]  \* emptySnapshot_

IdsOf(s) == {x.app : x \in s.records}

Init ==
  /\ current = Empty /\ owner = Empty /\ retired = {}
  /\ active = 0 /\ dirty = 0 /\ resolved = {}
  /\ mutex = NoThread
  /\ pc = [t \in Threads |-> "idle"]
  /\ snapshot = [r \in Readers |-> Empty]
  /\ record = [r \in Readers |-> {}]
  /\ again = [r \in Readers |-> Empty]
  /\ taken = 0 /\ signalled = {}

Goto(t, place) == pc' = [pc EXCEPT ![t] = place]

-----------------------------------------------------------------------------
(***************************************************************************)
(* publish, under publishMutex_.                                           *)
(***************************************************************************)

\* Variant: every member gets a new record.
SuccessorRenewing(s, ids) ==
  [gen |-> s.gen + 1, records |-> {[app |-> a, gen |-> s.gen + 1] : a \in ids}]

\* Apps that stay keep their record, new ones get one of the new generation.
Successor(s, ids) ==
  [gen     |-> s.gen + 1,
   records |-> {x \in s.records : x.app \in ids}
                 \cup {[app |-> a, gen |-> s.gen + 1] : a \in ids \ IdsOf(s)}]

\* The old owner is retired before the pointer changes.  A membership that is
\* there already is not published.
Replace(p, ids) ==
  /\ pc[p] = "idle"
  /\ mutex = NoThread
  /\ ids # IdsOf(current)
  /\ current.gen < MaxGeneration
  /\ retired' = IF owner = Empty THEN retired ELSE retired \cup {owner}
  /\ owner' = Successor(current, ids)
  /\ mutex' = p
  /\ Goto(p, "swap")
  /\ UNCHANGED <<current, signals, handles>>

Swap(p) ==
  /\ pc[p] = "swap"
  /\ current' = owner
  /\ Goto(p, "count")
  /\ UNCHANGED <<owner, retired, mutex, signals, handles>>

\* Variant: one reader is as good as none.
CountReadersLoose(p) ==
  /\ pc[p] = "count"
  /\ Goto(p, IF active <= 1 THEN "clear" ELSE "unlock")
  /\ UNCHANGED <<published, signals, handles>>

CountReaders(p) ==
  /\ pc[p] = "count"
  /\ Goto(p, IF active = 0 THEN "clear" ELSE "unlock")
  /\ UNCHANGED <<published, signals, handles>>

Clear(p) ==
  /\ pc[p] = "clear"
  /\ retired' = {}
  /\ Goto(p, "unlock")
  /\ UNCHANGED <<current, owner, mutex, signals, handles>>

Unlock(p) ==
  /\ pc[p] = "unlock"
  /\ mutex' = NoThread
  /\ Goto(p, "idle")
  /\ UNCHANGED <<current, owner, retired, signals, handles>>

-----------------------------------------------------------------------------
(***************************************************************************)
(* ReadHandle and noteResolved, without a lock.                            *)
(***************************************************************************)

Enter(r) ==
  /\ pc[r] = "idle"
  /\ active' = active + 1
  /\ Goto(r, "load")
  /\ UNCHANGED <<published, signals, snapshot, record, again>>

Load(r) ==
  /\ pc[r] = "load"
  /\ snapshot' = [snapshot EXCEPT ![r] = current]
  /\ Goto(r, "look")
  /\ UNCHANGED <<published, signals, active, record, again>>

\* contains: the record is found, or the handle has nothing to report.
Look(r, a) ==
  /\ pc[r] = "look"
  /\ LET found == {x \in snapshot[r].records : x.app = a} IN
       /\ record' = [record EXCEPT ![r] = found]
       /\ Goto(r, IF found = {} THEN "leave" ELSE "found")
  /\ UNCHANGED <<published, signals, active, snapshot, again>>

\* The caller has nothing to report about the app.
Pass(r) ==
  /\ pc[r] = "found"
  /\ Goto(r, "leave")
  /\ UNCHANGED <<published, signals, handles>>

\* noteResolved: the record must still be a current one.
Recheck(r) ==
  /\ pc[r] = "found"
  /\ again' = [again EXCEPT ![r] = current]
  /\ Goto(r, "check")
  /\ UNCHANGED <<published, signals, active, snapshot, record>>

Check(r) ==
  /\ pc[r] = "check"
  /\ again' = [again EXCEPT ![r] = Empty]
  /\ Goto(r, IF record[r] \subseteq again[r].records THEN "cas" ELSE "leave")
  /\ UNCHANGED <<published, signals, active, snapshot, record>>

Cas(r) ==
  /\ pc[r] = "cas"
  /\ resolved' = resolved \cup record[r]
  /\ Goto(r, IF record[r] \subseteq resolved THEN "leave" ELSE "signal")
  /\ UNCHANGED <<published, dirty, taken, signalled, handles>>

\* The slot holds one generation: a later signal replaces an earlier one.
Signal(r) ==
  /\ pc[r] = "signal"
  /\ dirty' \in {x.gen : x \in record[r]}
  /\ Goto(r, "leave")
  /\ UNCHANGED <<published, resolved, taken, signalled, handles>>

\* Variant: the handle that was moved from releases the reader as well.
LeaveTwice(r) ==
  /\ pc[r] = "leave"
  /\ active' = active - 2
  /\ snapshot' = [snapshot EXCEPT ![r] = Empty]
  /\ record' = [record EXCEPT ![r] = {}]
  /\ Goto(r, "idle")
  /\ UNCHANGED <<published, signals, again>>

Leave(r) ==
  /\ pc[r] = "leave"
  /\ active' = active - 1
  /\ snapshot' = [snapshot EXCEPT ![r] = Empty]
  /\ record' = [record EXCEPT ![r] = {}]
  /\ Goto(r, "idle")
  /\ UNCHANGED <<published, signals, again>>

-----------------------------------------------------------------------------
(***************************************************************************)
(* takeResolvedDirty, on the owner's frame.                                *)
(***************************************************************************)

Take ==
  /\ pc[Owner] = "idle"
  /\ mutex = NoThread
  /\ dirty # 0
  /\ taken' = dirty /\ dirty' = 0
  /\ mutex' = Owner
  /\ Goto(Owner, "scan")
  /\ UNCHANGED <<current, owner, retired, resolved, signalled, handles>>

\* The signal is passed on when a record of that generation is current and
\* resolved; the owner then looks at everything that is.
Scan ==
  /\ pc[Owner] = "scan"
  /\ LET now == current.records \cap resolved IN
       signalled' = IF \E x \in now : x.gen = taken
                    THEN signalled \cup now ELSE signalled
  /\ taken' = 0
  /\ mutex' = NoThread
  /\ Goto(Owner, "idle")
  /\ UNCHANGED <<current, owner, retired, dirty, resolved, handles>>

Publish(p) ==
  \/ \E ids \in SUBSET Apps : Replace(p, ids)
  \/ Swap(p) \/ CountReaders(p) \/ Clear(p) \/ Unlock(p)

Read(r) ==
  \/ Enter(r) \/ Load(r)
  \/ \E a \in Apps : Look(r, a)
  \/ Pass(r) \/ Recheck(r) \/ Check(r) \/ Cas(r) \/ Signal(r) \/ Leave(r)

Next ==
  \/ \E p \in Publishers : Publish(p)
  \/ \E r \in Readers : Read(r)
  \/ Take \/ Scan

Spec == Init /\ [][Next]_vars

-----------------------------------------------------------------------------
(***************************************************************************)
(* What the store promises.                                                *)
(***************************************************************************)

Places == {"idle", "swap", "count", "clear", "unlock", "load", "look", "found",
           "check", "cas", "signal", "leave", "scan"}

\* The states the variables range over.
TypeOK ==
  /\ current \in Snapshot /\ owner \in Snapshot
  /\ retired \in SUBSET Snapshot
  /\ active \in Nat /\ dirty \in Nat /\ taken \in Nat
  /\ resolved \in SUBSET Record /\ signalled \in SUBSET Record
  /\ mutex \in Publishers \cup {Owner, NoThread}
  /\ pc \in [Threads -> Places]
  /\ snapshot \in [Readers -> Snapshot] /\ again \in [Readers -> Snapshot]
  /\ record \in [Readers -> SUBSET Record]

Alive == {Empty, owner} \cup retired

\* No reader and no scan ever looks into a snapshot, or at a record, that a
\* publication has freed, whatever the gap between a reader's count and its
\* load, and between a publisher's look at the count and its clearing.
NoUseAfterFree ==
  /\ current \in Alive
  /\ \A r \in Readers :
       /\ pc[r] \in {"look", "found", "check", "cas", "signal"} =>
            snapshot[r] \in Alive
       /\ pc[r] = "check" => again[r] \in Alive
       /\ pc[r] \in {"found", "check", "cas", "signal"} =>
            \E s \in Alive : record[r] \subseteq s.records

\* Publications are a line, whoever makes them: each follows the last one, and
\* an app that stays keeps the record its resolution was noted in.
MembershipContinues ==
  [][current' # current =>
       /\ current'.gen = current.gen + 1
       /\ \A x \in current.records :
            x.app \in IdsOf(current') => x \in current'.records]_vars

\* "Distinct resolutions share one coalesced dirty signal": as long as a
\* resolution that was reported is of a current record and has not been passed
\* on, a signal that will pass it on is up.
ResolutionIsSignalled ==
  \A x \in (current.records \cap resolved) \ signalled :
    \/ \E r \in Readers : pc[r] = "signal" /\ x \in record[r]
    \/ \E y \in current.records \cap resolved : y.gen \in {dirty, taken}

=============================================================================
