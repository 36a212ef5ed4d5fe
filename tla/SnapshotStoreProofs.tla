------------------------ MODULE SnapshotStoreProofs ------------------------
(***************************************************************************)
(* Proofs about the membership store, for any number of readers,           *)
(* publishers, apps and publications.                                      *)
(*                                                                         *)
(* A publisher frees retired snapshots some time after it has seen no      *)
(* reader.  A reader that begins in between is safe because the pointer    *)
(* was changed before the readers were counted: while a publisher is about *)
(* to clear, every handle holds the current snapshot or the empty one      *)
(* (Cleared), and no other publisher can change that (Locked).             *)
(***************************************************************************)
EXTENDS SnapshotStore, FiniteSetTheorems, TLAPS

Busy == {r \in Readers : pc[r] # "idle"}

Counted == active = Cardinality(Busy)

Locked ==
  /\ \A p \in Publishers : pc[p] # "idle" => mutex = p
  /\ pc[Owner] # "idle" => mutex = Owner

Pointer ==
  /\ current \in Alive
  /\ (\A p \in Publishers : pc[p] # "swap") => current = owner
  /\ \A p \in Publishers : pc[p] = "swap" =>
       \E ids \in SUBSET Apps : owner = Successor(current, ids)

Loaded == {"look", "found", "check", "cas", "signal"}

Held ==
  \A r \in Readers :
    /\ pc[r] \in Loaded => snapshot[r] \in Alive
    /\ pc[r] = "check" => again[r] \in Alive
    /\ pc[r] \in Loaded \ {"look"} => record[r] \subseteq snapshot[r].records

Cleared ==
  \A p \in Publishers : pc[p] = "clear" =>
    \A r \in Readers :
      /\ pc[r] \in Loaded => snapshot[r] \in {Empty, owner}
      /\ pc[r] = "check" => again[r] \in {Empty, owner}

Inv == TypeOK /\ Counted /\ Locked /\ Pointer /\ Held /\ Cleared

LEMMA InvSafe == Inv => NoUseAfterFree
BY DEF Inv, Pointer, Held, Loaded, NoUseAfterFree

LEMMA BusyFinite == IsFiniteSet(Busy)
BY StoreAssumption, FS_Subset DEF Busy

LEMMA SuccessorType ==
  ASSUME NEW s \in Snapshot, NEW ids \in SUBSET Apps
  PROVE  Successor(s, ids) \in Snapshot
BY DEF Successor, Snapshot, Record

LEMMA InvInit == Init => Inv
<1> SUFFICES ASSUME Init PROVE Inv
  OBVIOUS
<1> USE StoreAssumption DEF Init, Threads
<1>1. Empty \in Snapshot
  BY DEF Empty, Snapshot
<1>2. TypeOK
  BY <1>1 DEF TypeOK, Places
<1>3. Busy = {}
  BY DEF Busy
<1>4. Counted
  BY <1>3, FS_EmptySet DEF Counted
<1>5. Locked /\ Pointer /\ Held /\ Cleared
  BY DEF Locked, Pointer, Held, Cleared, Alive, Loaded
<1> QED
  BY <1>2, <1>4, <1>5 DEF Inv

\* A step of a publisher leaves the count of readers alone, as does the owner's.
LEMMA SameCount ==
  ASSUME Counted, active' = active, TypeOK,
         NEW t \in Publishers \cup {Owner}, NEW place,
         pc' = [pc EXCEPT ![t] = place]
  PROVE  Counted'
<1>1. Busy' = Busy
  BY StoreAssumption DEF Busy, TypeOK, Threads
<1> QED
  BY <1>1 DEF Counted

LEMMA PublishStep ==
  ASSUME Inv, NEW p \in Publishers, Publish(p)
  PROVE  Inv'
<1> USE StoreAssumption DEF Inv, Threads, Goto
<1>1. ASSUME NEW ids \in SUBSET Apps, Replace(p, ids)
      PROVE  Inv'
  <2>1. \A q \in Publishers : pc[q] = "idle"
    BY <1>1 DEF Replace, Locked
  <2>2. current = owner
    BY <2>1 DEF Pointer
  <2>3. owner' \in Snapshot
    BY <1>1, SuccessorType DEF Replace, TypeOK
  <2>4. TypeOK'
    BY <1>1, <2>3 DEF Replace, TypeOK, Places, signals, handles
  <2>5. Alive \subseteq Alive'
    BY <1>1 DEF Replace, Alive
  <2>6. Counted'
    BY <1>1, SameCount DEF Replace, handles
  <2>7. Locked'
    BY <1>1, <2>1 DEF Replace, Locked, TypeOK
  <2>8. Pointer'
    <3>1. current' \in Alive' /\ pc'[p] = "swap"
      BY <1>1, <2>5 DEF Replace, Pointer, TypeOK
    <3>2. \A q \in Publishers : pc'[q] = "swap" =>
            \E i \in SUBSET Apps : owner' = Successor(current', i)
      BY <1>1 DEF Replace
    <3> QED
      BY <3>1, <3>2 DEF Pointer
  <2>9. Held'
    BY <1>1, <2>5 DEF Replace, Held, TypeOK, handles, Loaded
  <2>10. Cleared'
    BY <1>1, <2>1 DEF Replace, Cleared, TypeOK
  <2> QED
    BY <2>4, <2>6, <2>7, <2>8, <2>9, <2>10
<1>2. CASE Swap(p)
  <2>1. TypeOK' /\ Alive' = Alive
    BY <1>2 DEF Swap, TypeOK, Places, Alive, signals, handles
  <2>2. Counted'
    BY <1>2, SameCount DEF Swap, handles
  <2>3. Locked'
    BY <1>2 DEF Swap, Locked, TypeOK
  <2>4. \A q \in Publishers : q # p => pc[q] = "idle"
    BY <1>2 DEF Swap, Locked
  <2>5. Pointer'
    BY <1>2, <2>1, <2>4 DEF Swap, Pointer, Alive, TypeOK
  <2>6. Held' /\ Cleared'
    BY <1>2, <2>1, <2>4 DEF Swap, Held, Cleared, TypeOK, handles, Loaded
  <2> QED
    BY <2>1, <2>2, <2>3, <2>5, <2>6
<1>3. CASE CountReaders(p)
  <2>1. TypeOK' /\ Alive' = Alive
    BY <1>3 DEF CountReaders, TypeOK, Places, Alive, published, signals, handles
  <2>2. Counted'
    BY <1>3, SameCount DEF CountReaders, handles
  <2>3. Locked' /\ Pointer' /\ Held'
    BY <1>3, <2>1
    DEF CountReaders, Locked, Pointer, Held, TypeOK, published, handles, Loaded
  <2>4. ASSUME active = 0
        PROVE  \A r \in Readers : pc[r] = "idle"
    <3>1. Cardinality(Busy) = 0
      BY <2>4 DEF Counted
    <3>2. Busy = {}
      BY <3>1, BusyFinite, FS_EmptySet
    <3> QED
      BY <3>2 DEF Busy
  <2>5. \A q \in Publishers : q # p => pc[q] = "idle"
    BY <1>3 DEF CountReaders, Locked
  <2>6. Cleared'
    BY <1>3, <2>4, <2>5 DEF CountReaders, Cleared, TypeOK, published, handles, Loaded
  <2> QED
    BY <2>1, <2>2, <2>3, <2>6
<1>4. CASE Clear(p)
  <2>1. TypeOK'
    BY <1>4 DEF Clear, TypeOK, Places, signals, handles
  <2>2. Counted'
    BY <1>4, SameCount DEF Clear, handles
  <2>3. Locked'
    BY <1>4 DEF Clear, Locked, TypeOK
  <2>4. \A q \in Publishers : q # p => pc[q] = "idle"
    BY <1>4 DEF Clear, Locked
  <2>5. current = owner
    BY <1>4, <2>4 DEF Clear, Pointer
  <2>6. Pointer'
    BY <1>4, <2>4, <2>5 DEF Clear, Pointer, Alive, TypeOK
  <2>7. Held'
    BY <1>4 DEF Clear, Held, Cleared, Alive, TypeOK, handles, Loaded
  <2>8. Cleared'
    BY <1>4 DEF Clear, Cleared, TypeOK, handles, Loaded
  <2> QED
    BY <2>1, <2>2, <2>3, <2>6, <2>7, <2>8
<1>5. CASE Unlock(p)
  <2>1. TypeOK' /\ Alive' = Alive
    BY <1>5 DEF Unlock, TypeOK, Places, Alive, signals, handles
  <2>2. Counted'
    BY <1>5, SameCount DEF Unlock, handles
  <2>3. \A q \in Publishers : q # p => pc[q] = "idle"
    BY <1>5 DEF Unlock, Locked
  <2>4. Locked'
    BY <1>5, <2>3 DEF Unlock, Locked, TypeOK
  <2>5. Pointer' /\ Held' /\ Cleared'
    BY <1>5, <2>1 DEF Unlock, Pointer, Held, Cleared, TypeOK, handles, Loaded
  <2> QED
    BY <2>1, <2>2, <2>4, <2>5
<1> QED
  BY <1>1, <1>2, <1>3, <1>4, <1>5 DEF Publish

\* A reader changes only its own handle, and what it loads is current.
LEMMA ReadStep ==
  ASSUME Inv, NEW r \in Readers, Read(r)
  PROVE  Inv'
<1> USE StoreAssumption DEF Inv, Threads, Goto
<1>1. /\ UNCHANGED published
      /\ \E place \in Places : pc' = [pc EXCEPT ![r] = place]
  BY DEF Read, Enter, Load, Look, Pass, Recheck, Check, Cas, Signal, Leave,
         Places
<1>2. /\ Locked' /\ Pointer' /\ Alive' = Alive
      /\ \A p \in Publishers : pc'[p] = pc[p]
  BY <1>1 DEF Locked, Pointer, Alive, TypeOK, published
<1>3. \A p \in Publishers : pc[p] = "clear" => current = owner
  BY DEF Locked, Pointer
<1>4. CASE Enter(r)
  <2>1. Busy' = Busy \cup {r} /\ r \notin Busy
    BY <1>4 DEF Enter, Busy, TypeOK
  <2>2. Counted'
    BY <1>4, <2>1, BusyFinite, FS_AddElement DEF Enter, Counted
  <2>3. TypeOK'
    BY <1>4 DEF Enter, TypeOK, Places, published, signals
  <2> QED
    BY <1>2, <1>4, <2>2, <2>3 DEF Enter, Held, Cleared, TypeOK, published, Loaded
<1>5. CASE Leave(r)
  <2>1. Busy' = Busy \ {r} /\ r \in Busy
    BY <1>5 DEF Leave, Busy, TypeOK
  <2>2. Cardinality(Busy') = Cardinality(Busy) - 1 /\ Cardinality(Busy') \in Nat
    BY <2>1, BusyFinite, FS_RemoveElement, FS_CardinalityType
  <2>3. Counted' /\ active' \in Nat
    BY <1>5, <2>2 DEF Leave, Counted
  <2>4. Empty \in Snapshot
    BY DEF Empty, Snapshot
  <2>5. TypeOK'
    BY <1>5, <2>3, <2>4 DEF Leave, TypeOK, Places, published, signals
  <2> QED
    BY <1>2, <1>5, <2>3, <2>5 DEF Leave, Held, Cleared, TypeOK, published, Loaded
<1>6. CASE ~Enter(r) /\ ~Leave(r)
  <2>1. /\ active' = active
        /\ pc[r] # "idle" /\ pc'[r] # "idle"
    BY <1>6 DEF Read, Load, Look, Pass, Recheck, Check, Cas, Signal, handles, TypeOK
  <2>2. Busy' = Busy
    BY <1>1, <2>1 DEF Busy, TypeOK
  <2>3. Counted'
    BY <2>1, <2>2 DEF Counted
  <2>4. CASE Load(r)
    <3>1. TypeOK'
      BY <2>4 DEF Load, TypeOK, Places, published, signals
    <3>2. Held'
      BY <1>2, <2>4 DEF Load, Held, Pointer, TypeOK, Loaded
    <3>3. Cleared'
      BY <1>2, <1>3, <2>4 DEF Load, Cleared, TypeOK, published, Loaded
    <3> QED
      BY <1>2, <2>3, <3>1, <3>2, <3>3
  <2>5. ASSUME NEW a \in Apps, Look(r, a)
        PROVE  Inv'
    <3>1. {x \in snapshot[r].records : x.app = a} \in SUBSET Record
      BY DEF TypeOK, Snapshot
    <3>2. TypeOK'
      BY <2>5, <3>1 DEF Look, TypeOK, Places, published, signals
    <3>3. Held'
      BY <1>2, <2>5 DEF Look, Held, TypeOK, Loaded
    <3>4. Cleared'
      BY <1>2, <2>5 DEF Look, Cleared, TypeOK, published, Loaded
    <3> QED
      BY <1>2, <2>3, <3>2, <3>3, <3>4
  <2>6. CASE Pass(r)
    <3>1. TypeOK'
      BY <2>6 DEF Pass, TypeOK, Places, published, signals, handles
    <3>2. Held' /\ Cleared'
      BY <1>2, <2>6 DEF Pass, Held, Cleared, TypeOK, published, handles, Loaded
    <3> QED
      BY <1>2, <2>3, <3>1, <3>2
  <2>7. CASE Recheck(r)
    <3>1. TypeOK'
      BY <2>7 DEF Recheck, TypeOK, Places, published, signals
    <3>2. Held'
      BY <1>2, <2>7 DEF Recheck, Held, Pointer, TypeOK, Loaded
    <3>3. Cleared'
      BY <1>2, <1>3, <2>7 DEF Recheck, Cleared, TypeOK, published, Loaded
    <3> QED
      BY <1>2, <2>3, <3>1, <3>2, <3>3
  <2>8. CASE Check(r)
    <3>1. Empty \in Snapshot
      BY DEF Empty, Snapshot
    <3>2. TypeOK'
      BY <2>8, <3>1 DEF Check, TypeOK, Places, published, signals
    <3>3. Held' /\ Cleared'
      BY <1>2, <2>8 DEF Check, Held, Cleared, TypeOK, published, Loaded
    <3> QED
      BY <1>2, <2>3, <3>2, <3>3
  <2>9. CASE Cas(r)
    <3>1. TypeOK'
      BY <2>9 DEF Cas, TypeOK, Places, published, handles
    <3>2. Held' /\ Cleared'
      BY <1>2, <2>9 DEF Cas, Held, Cleared, TypeOK, published, handles, Loaded
    <3> QED
      BY <1>2, <2>3, <3>1, <3>2
  <2>10. CASE Signal(r)
    <3>1. dirty' \in Nat
      BY <2>10 DEF Signal, TypeOK, Record
    <3>2. TypeOK'
      BY <2>10, <3>1 DEF Signal, TypeOK, Places, published, handles
    <3>3. Held' /\ Cleared'
      BY <1>2, <2>10 DEF Signal, Held, Cleared, TypeOK, published, handles, Loaded
    <3> QED
      BY <1>2, <2>3, <3>2, <3>3
  <2> QED
    BY <1>6, <2>4, <2>5, <2>6, <2>7, <2>8, <2>9, <2>10 DEF Read
<1> QED
  BY <1>4, <1>5, <1>6

LEMMA OwnerStep == Inv /\ (Take \/ Scan) => Inv'
<1> SUFFICES ASSUME Inv, Take \/ Scan PROVE Inv'
  OBVIOUS
<1> USE StoreAssumption DEF Inv, Threads, Goto
<1>1. CASE Take
  <2>1. \A p \in Publishers : pc[p] = "idle"
    BY <1>1 DEF Take, Locked
  <2>2. TypeOK' /\ Alive' = Alive
    BY <1>1 DEF Take, TypeOK, Places, Alive, handles
  <2>3. Counted'
    BY <1>1, SameCount DEF Take, handles
  <2>4. Locked' /\ Pointer' /\ Held' /\ Cleared'
    BY <1>1, <2>1, <2>2
    DEF Take, Locked, Pointer, Held, Cleared, TypeOK, handles, Loaded
  <2> QED
    BY <2>2, <2>3, <2>4
<1>2. CASE Scan
  <2>1. \A p \in Publishers : pc[p] = "idle"
    BY <1>2 DEF Scan, Locked
  <2>2. signalled' \in SUBSET Record
    BY <1>2 DEF Scan, TypeOK
  <2>3. TypeOK' /\ Alive' = Alive
    BY <1>2, <2>2 DEF Scan, TypeOK, Places, Alive, handles
  <2>4. Counted'
    BY <1>2, SameCount DEF Scan, handles
  <2>5. Locked' /\ Pointer' /\ Held' /\ Cleared'
    BY <1>2, <2>1, <2>3
    DEF Scan, Locked, Pointer, Held, Cleared, TypeOK, handles, Loaded
  <2> QED
    BY <2>3, <2>4, <2>5
<1> QED
  BY <1>1, <1>2

LEMMA Stutter == Inv /\ UNCHANGED vars => Inv'
BY DEF Inv, TypeOK, Counted, Busy, Locked, Pointer, Held, Cleared, Alive, vars,
       published, signals, handles

LEMMA InvStep == Inv /\ [Next]_vars => Inv'
BY PublishStep, ReadStep, OwnerStep, Stutter DEF Next

\* Whatever the number of hook threads and reloads, no handle outlives the
\* snapshot or the record it points to (activeReaders_ and retired_).
THEOREM NoUseAfterFreeAlways == Spec => []NoUseAfterFree
BY InvInit, InvStep, InvSafe, PTL DEF Spec

\* Every variable is what its declaration says; the reader count, which readers
\* lower without a lock, never falls below zero.
THEOREM StoreTypesAlways == Spec => []TypeOK
<1>1. Inv => TypeOK
  BY DEF Inv
<1> QED
  BY <1>1, InvInit, InvStep, PTL DEF Spec

\* An app in both a snapshot and its successor has one record in both.
LEMMA SuccessorKeeps ==
  ASSUME NEW s, NEW ids,
         NEW x \in s.records, x.app \in IdsOf(Successor(s, ids))
  PROVE  x \in Successor(s, ids).records
<1>1. PICK y \in Successor(s, ids).records : y.app = x.app
  BY DEF IdsOf
<1>2. CASE y \in s.records /\ y.app \in ids
  BY <1>1, <1>2 DEF Successor
<1>3. CASE \E a \in ids \ IdsOf(s) : y = [app |-> a, gen |-> s.gen + 1]
  BY <1>1, <1>3 DEF IdsOf
<1> QED
  BY <1>1, <1>2, <1>3 DEF Successor

Continues ==
  current' # current =>
    /\ current'.gen = current.gen + 1
    /\ \A x \in current.records :
         x.app \in IdsOf(current') => x \in current'.records

LEMMA ContinuesStep == Inv /\ [Next]_vars => [Continues]_vars
<1> SUFFICES ASSUME Inv, Next PROVE Continues
  BY DEF Continues
<1>1. ASSUME NEW p \in Publishers, Swap(p)
      PROVE  Continues
  <2>1. current' = owner
    BY <1>1 DEF Swap
  <2>2. PICK ids \in SUBSET Apps : owner = Successor(current, ids)
    BY <1>1 DEF Swap, Inv, Pointer
  <2>3. owner.gen = current.gen + 1
    BY <2>2 DEF Successor
  <2> QED
    BY <2>1, <2>2, <2>3, SuccessorKeeps DEF Continues
<1>2. CASE ~\E p \in Publishers : Swap(p)
  <2>1. current' = current
    BY <1>2 DEF Next, Publish, Replace, CountReaders, Clear, Unlock, Read, Enter,
                Load, Look, Pass, Recheck, Check, Cas, Signal, Leave, Take, Scan,
                published
  <2> QED
    BY <2>1 DEF Continues
<1> QED
  BY <1>1, <1>2

\* Each publication follows the one before, and an app that stays keeps the
\* record in which its resolution was noted (publish under publishMutex_).
THEOREM MembershipContinuesAlways == Spec => MembershipContinues
BY InvInit, InvStep, ContinuesStep, PTL
DEF Spec, MembershipContinues, Continues

=============================================================================
