-------------------------- MODULE CachePairProofs --------------------------
(***************************************************************************)
(* A failed publication puts the previous pair back, what has been removed *)
(* stays hidden, and what the memo calls fresh is on disk and whole, for   *)
(* any publishers, faults and bounds.                                      *)
(*                                                                         *)
(* Undoable says, for each place a publication can be at, which of the     *)
(* three files are as before and where the copies of the others are.       *)
(* InForce says that a publication that holds the locks has not been       *)
(* voided, because removals need the locks, and Shown that only such       *)
(* publications are on disk or aside while reads are allowed.  Honesty is  *)
(* what the memo needs on top of these.                                    *)
(***************************************************************************)
EXTENDS CachePair, TLAPS

At(p, places) == thread[p].at \in places

\* Tokens name publications that have begun, and generations up to the present;
\* there is a generation for each removal that is over.
Tokens ==
  /\ watcher = "void" => generation < removals
  /\ \A p \in Publishers : thread[p].at # "idle" =>
       /\ thread[p].n \in 1 .. begun
       /\ content[thread[p].n].generation <= generation
       /\ thread[p].n \in void => content[thread[p].n].generation < generation

\* Whoever holds the locks publishes something that has not been voided.
InForce == \A p \in Publishers : ~Idle(p) => thread[p].n \notin void

\* How far the writes have come.
Written ==
  \A p \in Publishers :
    /\ At(p, {"meta", "mark", "commit"}) => disk["buffer"] = thread[p].n
    /\ At(p, {"mark", "commit"}) => disk["meta"] = thread[p].n

\* Nothing voided is on disk or can be put back there while reads are allowed.
Shown ==
  ~hidden => \A m \in Members :
    disk[m] \notin void /\ (tx.staged[m] => aside[m] \notin void)

\* A member is as before, or its copy is aside; it has none if it was not there.
Kept(m, before) == IF tx.staged[m] THEN aside[m] = before ELSE before = 0

Undoable ==
  \A p \in Publishers : ~Idle(p) /\ ~tx.broken =>
    /\ tx.markerBefore = tx.before[3]
    /\ At(p, {"stage", "stageMeta", "buffer", "undoMeta", "failed"}) =>
         disk["buffer"] = tx.before[1]
    /\ At(p, {"stage", "stageMeta", "buffer", "meta", "failed"}) =>
         disk["meta"] = tx.before[2]
    /\ ~At(p, {"commit", "unmark"}) => marker = tx.before[3]
    /\ ~At(p, {"stage", "undoMeta", "failed"}) => Kept("buffer", tx.before[1])
    /\ ~At(p, {"stage", "stageMeta", "failed"}) => Kept("meta", tx.before[2])

IInv == TypeOK /\ Tokens /\ InForce /\ Written /\ Shown /\ Undoable

\* The constants the locals and the memos are set to have their types.
LEMMA Constants ==
  ASSUME CacheAssumption
  PROVE  /\ 0 \in Numbers /\ NoTx \in Transaction
         /\ Missing \in Answers /\ Invalid \in Answers
         /\ \A n \in Numbers : Fresh(n) \in Answers
<1>1. 0 \in Numbers
  BY DEF CacheAssumption, Numbers
<1>2. NoTx \in Transaction
  BY <1>1 DEF NoTx, Transaction, Members
<1>3. Missing \in Answers /\ Invalid \in Answers
  BY DEF Answers
<1>4. \A n \in Numbers : Fresh(n) \in Answers
  BY Zenon DEF Answers
<1> QED
  BY <1>1, <1>2, <1>3, <1>4

\* What the steps make of a transaction is one.
LEMMA Transactions ==
  ASSUME CacheAssumption, NEW t \in Transaction
  PROVE  /\ \A m \in Members, b \in BOOLEAN :
              [t EXCEPT !.staged[m] = b] \in Transaction
         /\ [t EXCEPT !.broken = TRUE, !.damaged = TRUE] \in Transaction
         /\ [NoTx EXCEPT !.damaged = t.damaged] \in Transaction
         /\ \A b \in BOOLEAN, before \in Numbers \X Numbers \X BOOLEAN :
              [t EXCEPT !.markerBefore = b, !.before = before]
                \in Transaction
<1>1. \A m \in Members, b \in BOOLEAN : [t EXCEPT !.staged[m] = b] \in Transaction
  <2>1. SUFFICES ASSUME NEW m \in Members, NEW b \in BOOLEAN
                 PROVE  [t EXCEPT !.staged[m] = b] \in Transaction
    OBVIOUS
  <2>2. [t.staged EXCEPT ![m] = b] \in [Members -> BOOLEAN]
    BY DEF Transaction
  <2>3. [t EXCEPT !.staged = [t.staged EXCEPT ![m] = b]] \in Transaction
    BY <2>2 DEF Transaction
  <2> QED
    BY <2>3
<1>2. [t EXCEPT !.broken = TRUE, !.damaged = TRUE] \in Transaction
  BY DEF Transaction
<1>3. [NoTx EXCEPT !.damaged = t.damaged] \in Transaction
  BY Constants DEF Transaction
<1>4. \A b \in BOOLEAN, before \in Numbers \X Numbers \X BOOLEAN :
        [t EXCEPT !.markerBefore = b, !.before = before] \in Transaction
  BY DEF Transaction
<1> QED
  BY <1>1, <1>2, <1>3, <1>4

\* What is on disk stays a publication or nothing.
LEMMA FilesStep ==
  ASSUME CacheAssumption, IInv, [Next]_vars
  PROVE  FilesOK'
<1>1. ASSUME NEW p \in Publishers, Token(p) PROVE FilesOK'
  <2>1. begun' = begun + 1 /\ begun' \in Numbers
    BY <1>1 DEF Token, IInv, TypeOK, MemoryOK, CacheAssumption, Numbers
  <2>2. generation \in 0 .. MaxRemovals
    BY DEF IInv, TypeOK, MemoryOK, CacheAssumption
  <2>3. PICK kind \in [synthetic : BOOLEAN, normalized : BOOLEAN] :
          content' = [content EXCEPT ![begun'] =
            [generation |-> generation, managed |-> managed,
             synthetic |-> kind.synthetic, normalized |-> kind.normalized]]
    BY <1>1 DEF Token
  <2>4. [generation |-> generation, managed |-> managed,
         synthetic |-> kind.synthetic, normalized |-> kind.normalized]
          \in Content
    BY <2>2 DEF IInv, TypeOK, MemoryOK, Content
  <2>5. content' \in [Numbers -> Content]
    BY <2>1, <2>3, <2>4 DEF IInv, TypeOK, FilesOK
  <2> QED
    BY <1>1, <2>5 DEF Token, files, IInv, TypeOK, FilesOK
<1>2. ASSUME NEW p \in Publishers, Begin(p) PROVE FilesOK'
  BY <1>2, Constants
  DEF Begin, files, memory, history, Goto, Rest, NotWatching, IInv, TypeOK,
      FilesOK, ThreadsOK
<1>3. ASSUME NEW p \in Publishers, StageBuffer(p) PROVE FilesOK'
  BY <1>3, Constants
  DEF StageBuffer, StageMember, files, memory, history, Goto, NotWatching,
      IInv, TypeOK, FilesOK, ThreadsOK, Members
<1>4. ASSUME NEW p \in Publishers, StageMeta(p) PROVE FilesOK'
  BY <1>4, Constants
  DEF StageMeta, StageMember, RestoreMember, history, Goto, NotWatching, IInv,
      TypeOK, FilesOK, ThreadsOK, Members
<1>5. ASSUME NEW p \in Publishers, WriteBuffer(p) PROVE FilesOK'
  BY <1>5, Constants
  DEF WriteBuffer, WriteMember, history, Goto, NotWatching, IInv, TypeOK,
      FilesOK, ThreadsOK, Members
<1>6. ASSUME NEW p \in Publishers, WriteMeta(p) PROVE FilesOK'
  BY <1>6, Constants
  DEF WriteMeta, WriteMember, history, Goto, NotWatching, IInv, TypeOK,
      FilesOK, ThreadsOK, Members
<1>7. ASSUME NEW p \in Publishers, SetMarker(p) PROVE FilesOK'
  BY <1>7, Constants
  DEF SetMarker, memory, history, Goto, NotWatching, IInv, TypeOK, FilesOK,
      ThreadsOK, Content
<1>8. ASSUME NEW p \in Publishers, ResetMarker(p) PROVE FilesOK'
  BY <1>8, Constants
  DEF ResetMarker, memory, history, Goto, NotWatching, IInv, TypeOK, FilesOK,
      ThreadsOK, Transaction
<1>9. ASSUME NEW p \in Publishers, UndoBuffer(p) PROVE FilesOK'
  BY <1>9, Constants
  DEF UndoBuffer, RestoreMember, history, Goto, NotWatching, IInv, TypeOK,
      FilesOK, ThreadsOK, Members
<1>10. ASSUME NEW p \in Publishers, UndoMeta(p) PROVE FilesOK'
  BY <1>10, Constants
  DEF UndoMeta, RestoreMember, history, Goto, NotWatching, IInv, TypeOK,
      FilesOK, ThreadsOK, Members
<1>11. ASSUME NEW p \in Publishers, Commit(p) PROVE FilesOK'
  BY <1>11, Constants
  DEF Commit, history, Rest, NotWatching, IInv, TypeOK, FilesOK, ThreadsOK
<1>12. ASSUME NEW p \in Publishers, Release(p) PROVE FilesOK'
  BY <1>12, Constants
  DEF Release, files, memory, history, Rest, NotWatching, IInv, TypeOK,
      FilesOK, ThreadsOK
<1>13. CASE Use
  BY <1>13, Constants
  DEF Use, files, history, IInv, TypeOK, FilesOK, ThreadsOK
<1>14. CASE Probe
  BY <1>14, Constants
  DEF Probe, files, history, IInv, TypeOK, FilesOK, ThreadsOK
<1>15. CASE ProbeUnlocked
  BY <1>15, Constants
  DEF ProbeUnlocked, files, history, IInv, TypeOK, FilesOK, ThreadsOK
<1>16. CASE Remember
  BY <1>16, Constants
  DEF Remember, files, history, IInv, TypeOK, FilesOK, ThreadsOK
<1>17. CASE Remove
  BY <1>17, Constants
  DEF Remove, files, memory, IInv, TypeOK, FilesOK, ThreadsOK
<1>18. CASE Add
  BY <1>18, Constants
  DEF Add, files, memory, history, IInv, TypeOK, FilesOK, ThreadsOK
<1>19. CASE Void
  BY <1>19, Constants
  DEF Void, files, IInv, TypeOK, FilesOK, ThreadsOK
<1>20. CASE EraseMemo
  BY <1>20, Constants
  DEF EraseMemo, files, history, IInv, TypeOK, FilesOK, ThreadsOK
<1>21. CASE Quarantine
  BY <1>21, Constants
  DEF Quarantine, Moved, history, IInv, TypeOK, FilesOK, ThreadsOK, Members
<1>22. CASE Crash
  BY <1>22, Constants
  DEF Crash, Moved, IInv, TypeOK, FilesOK, ThreadsOK
<1>23. CASE UNCHANGED vars
  BY <1>23, Constants
  DEF vars, files, memory, history, IInv, TypeOK, FilesOK, ThreadsOK
<1> QED
  BY <1>1, <1>2, <1>3, <1>4, <1>5, <1>6, <1>7, <1>8, <1>9, <1>10, <1>11, <1>12,
     <1>13, <1>14, <1>15, <1>16, <1>17, <1>18, <1>19, <1>20, <1>21, <1>22,
     <1>23
  DEF Next, PublishStep

\* The publications and their locals keep their types.
LEMMA ThreadsStep ==
  ASSUME CacheAssumption, IInv, [Next]_vars
  PROVE  ThreadsOK'
<1>1. ASSUME NEW p \in Publishers, Token(p) PROVE ThreadsOK'
  BY <1>1, Constants
  DEF Token, files, memory, NotWatching, IInv, TypeOK, ThreadsOK, Places,
      MemoryOK, CacheAssumption, Numbers
<1>2. ASSUME NEW p \in Publishers, Begin(p) PROVE ThreadsOK'
  <2>1. tx \in Transaction /\ Done \in Transaction
    BY Transactions DEF IInv, TypeOK, ThreadsOK, Done
  <2>2. Triple \in Numbers \X Numbers \X BOOLEAN /\ marker \in BOOLEAN
    BY DEF IInv, TypeOK, FilesOK, Triple, Members
  <2>3. [Done EXCEPT !.markerBefore = marker, !.before = Triple]
          \in Transaction
    BY <2>1, <2>2, Transactions
  <2>4. tx' \in Transaction
    BY <1>2, <2>1, <2>3 DEF Begin
  <2>5. thread' \in [Publishers -> [at : Places, n : Numbers]]
    BY <1>2, Constants DEF Begin, Goto, Rest, IInv, TypeOK, ThreadsOK, Places
  <2> QED
    BY <2>4, <2>5 DEF ThreadsOK
<1>3. ASSUME NEW p \in Publishers, StageBuffer(p) PROVE ThreadsOK'
  <2>1. (disk["buffer"] # 0) \in BOOLEAN /\ tx \in Transaction
    BY DEF IInv, TypeOK, ThreadsOK
  <2>2. [tx EXCEPT !.staged["buffer"] = disk["buffer"] # 0] \in Transaction
    BY <2>1, Transactions DEF Members
  <2>3. [tx EXCEPT !.broken = TRUE, !.damaged = TRUE] \in Transaction
    BY <2>1, Transactions
  <2>4. tx' \in Transaction
    BY <1>3, <2>1, <2>2, <2>3 DEF StageBuffer, StageMember, RestoreMember
  <2>5. thread' \in [Publishers -> [at : Places, n : Numbers]]
    BY <1>3 DEF StageBuffer, StageMember, RestoreMember, Goto, IInv, TypeOK,
                  ThreadsOK, Places
  <2> QED
    BY <2>4, <2>5 DEF ThreadsOK
<1>4. ASSUME NEW p \in Publishers, StageMeta(p) PROVE ThreadsOK'
  <2>1. (disk["meta"] # 0) \in BOOLEAN /\ tx \in Transaction
    BY DEF IInv, TypeOK, ThreadsOK
  <2>2. [tx EXCEPT !.staged["meta"] = disk["meta"] # 0] \in Transaction
    BY <2>1, Transactions DEF Members
  <2>3. [tx EXCEPT !.broken = TRUE, !.damaged = TRUE] \in Transaction
    BY <2>1, Transactions
  <2>4. tx' \in Transaction
    BY <1>4, <2>1, <2>2, <2>3 DEF StageMeta, StageMember, RestoreMember
  <2>5. thread' \in [Publishers -> [at : Places, n : Numbers]]
    BY <1>4 DEF StageMeta, StageMember, RestoreMember, Goto, IInv, TypeOK,
                  ThreadsOK, Places
  <2> QED
    BY <2>4, <2>5 DEF ThreadsOK
<1>5. ASSUME NEW p \in Publishers, WriteBuffer(p) PROVE ThreadsOK'
  BY <1>5, Constants
  DEF WriteBuffer, WriteMember, history, Goto, NotWatching, IInv, TypeOK,
      ThreadsOK, Places
<1>6. ASSUME NEW p \in Publishers, WriteMeta(p) PROVE ThreadsOK'
  BY <1>6, Constants
  DEF WriteMeta, WriteMember, history, Goto, NotWatching, IInv, TypeOK,
      ThreadsOK, Places
<1>7. ASSUME NEW p \in Publishers, SetMarker(p) PROVE ThreadsOK'
  BY <1>7, Constants
  DEF SetMarker, memory, history, Goto, NotWatching, IInv, TypeOK, ThreadsOK,
      Places
<1>8. ASSUME NEW p \in Publishers, ResetMarker(p) PROVE ThreadsOK'
  <2>1. tx' \in Transaction
    BY <1>8, Transactions DEF ResetMarker, IInv, TypeOK, ThreadsOK
  <2> QED
    BY <1>8, <2>1 DEF ResetMarker, Goto, IInv, TypeOK, ThreadsOK, Places
<1>9. ASSUME NEW p \in Publishers, UndoBuffer(p) PROVE ThreadsOK'
  BY <1>9, Constants
  DEF UndoBuffer, RestoreMember, history, Goto, NotWatching, IInv, TypeOK,
      ThreadsOK, Places, Transaction
<1>10. ASSUME NEW p \in Publishers, UndoMeta(p) PROVE ThreadsOK'
  BY <1>10, Constants
  DEF UndoMeta, RestoreMember, history, Goto, NotWatching, IInv, TypeOK,
      ThreadsOK, Places, Transaction
<1>11. ASSUME NEW p \in Publishers, Commit(p) PROVE ThreadsOK'
  BY <1>11, Constants
  DEF Commit, history, Rest, NotWatching, IInv, TypeOK, ThreadsOK, Places
<1>12. ASSUME NEW p \in Publishers, Release(p) PROVE ThreadsOK'
  BY <1>12, Constants
  DEF Release, files, memory, history, Rest, NotWatching, IInv, TypeOK,
      ThreadsOK, Places, Done, NoTx, Transaction, Members
<1>13. CASE Use
  BY <1>13, Constants
  DEF Use, files, history, IInv, TypeOK, ThreadsOK, Places
<1>14. CASE Probe
  BY <1>14, Constants
  DEF Probe, files, history, IInv, TypeOK, ThreadsOK, Places
<1>15. CASE ProbeUnlocked
  BY <1>15, Constants
  DEF ProbeUnlocked, files, history, IInv, TypeOK, ThreadsOK, Places
<1>16. CASE Remember
  BY <1>16, Constants
  DEF Remember, files, history, IInv, TypeOK, ThreadsOK, Places
<1>17. CASE Remove
  BY <1>17, Constants
  DEF Remove, files, memory, IInv, TypeOK, ThreadsOK, Places
<1>18. CASE Add
  BY <1>18, Constants
  DEF Add, files, memory, history, IInv, TypeOK, ThreadsOK, Places
<1>19. CASE Void
  BY <1>19, Constants
  DEF Void, files, IInv, TypeOK, ThreadsOK, Places
<1>20. CASE EraseMemo
  BY <1>20, Constants
  DEF EraseMemo, files, history, IInv, TypeOK, ThreadsOK, Places
<1>21. CASE Quarantine
  BY <1>21, Constants
  DEF Quarantine, Moved, history, IInv, TypeOK, ThreadsOK, Places
<1>22. CASE Crash
  BY <1>22, Constants
  DEF Crash, Moved, IInv, TypeOK, ThreadsOK, Places
<1>23. CASE UNCHANGED vars
  BY <1>23, Constants
  DEF vars, files, memory, history, IInv, TypeOK, ThreadsOK, Places
<1> QED
  BY <1>1, <1>2, <1>3, <1>4, <1>5, <1>6, <1>7, <1>8, <1>9, <1>10, <1>11, <1>12,
     <1>13, <1>14, <1>15, <1>16, <1>17, <1>18, <1>19, <1>20, <1>21, <1>22,
     <1>23
  DEF Next, PublishStep

\* The caches of the process keep their types.
LEMMA MemoryStep ==
  ASSUME CacheAssumption, IInv, [Next]_vars
  PROVE  MemoryOK'
<1>1. ASSUME NEW p \in Publishers, Token(p) PROVE MemoryOK'
  BY <1>1, Constants
  DEF Token, files, memory, NotWatching, IInv, TypeOK, MemoryOK,
      CacheAssumption, Numbers
<1>2. ASSUME NEW p \in Publishers, Begin(p) PROVE MemoryOK'
  BY <1>2, Constants
  DEF Begin, files, memory, history, Goto, Rest, NotWatching, IInv, TypeOK,
      MemoryOK
<1>3. ASSUME NEW p \in Publishers, StageBuffer(p) PROVE MemoryOK'
  BY <1>3, Constants
  DEF StageBuffer, StageMember, files, memory, history, Goto, NotWatching,
      IInv, TypeOK, MemoryOK
<1>4. ASSUME NEW p \in Publishers, StageMeta(p) PROVE MemoryOK'
  BY <1>4, Constants
  DEF StageMeta, StageMember, RestoreMember, history, Goto, NotWatching, IInv,
      TypeOK, MemoryOK
<1>5. ASSUME NEW p \in Publishers, WriteBuffer(p) PROVE MemoryOK'
  BY <1>5, Constants
  DEF WriteBuffer, WriteMember, history, Goto, NotWatching, IInv, TypeOK,
      MemoryOK
<1>6. ASSUME NEW p \in Publishers, WriteMeta(p) PROVE MemoryOK'
  BY <1>6, Constants
  DEF WriteMeta, WriteMember, history, Goto, NotWatching, IInv, TypeOK,
      MemoryOK
<1>7. ASSUME NEW p \in Publishers, SetMarker(p) PROVE MemoryOK'
  BY <1>7, Constants
  DEF SetMarker, memory, history, Goto, NotWatching, IInv, TypeOK, MemoryOK
<1>8. ASSUME NEW p \in Publishers, ResetMarker(p) PROVE MemoryOK'
  BY <1>8, Constants
  DEF ResetMarker, memory, history, Goto, NotWatching, IInv, TypeOK, MemoryOK
<1>9. ASSUME NEW p \in Publishers, UndoBuffer(p) PROVE MemoryOK'
  BY <1>9, Constants
  DEF UndoBuffer, RestoreMember, history, Goto, NotWatching, IInv, TypeOK,
      MemoryOK
<1>10. ASSUME NEW p \in Publishers, UndoMeta(p) PROVE MemoryOK'
  BY <1>10, Constants
  DEF UndoMeta, RestoreMember, history, Goto, NotWatching, IInv, TypeOK,
      MemoryOK
<1>11. ASSUME NEW p \in Publishers, Commit(p) PROVE MemoryOK'
  BY <1>11, Constants
  DEF Commit, history, Rest, NotWatching, IInv, TypeOK, MemoryOK, FilesOK,
      Members
<1>12. ASSUME NEW p \in Publishers, Release(p) PROVE MemoryOK'
  BY <1>12, Constants
  DEF Release, files, memory, history, Rest, NotWatching, IInv, TypeOK,
      MemoryOK
<1>13. CASE Use
  BY <1>13, Constants
  DEF Use, files, history, IInv, TypeOK, MemoryOK, Judged
<1>14. CASE Probe
  BY <1>14, Constants
  DEF Probe, files, history, IInv, TypeOK, MemoryOK, FilesOK, Members, Judged
<1>15. CASE ProbeUnlocked
  BY <1>15, Constants
  DEF ProbeUnlocked, files, history, IInv, TypeOK, MemoryOK
<1>16. CASE Remember
  BY <1>16, Constants
  DEF Remember, files, history, IInv, TypeOK, MemoryOK, NoProbe
<1>17. CASE Remove
  <2>1. removals' \in 0 .. MaxRemovals /\ generation' \in 0 .. removals'
    BY <1>17 DEF Remove, memory, IInv, TypeOK, MemoryOK, CacheAssumption
  <2> QED
    BY <1>17, <2>1 DEF Remove, memory, IInv, TypeOK, MemoryOK
<1>18. CASE Add
  BY <1>18, Constants
  DEF Add, files, memory, history, IInv, TypeOK, MemoryOK
<1>19. CASE Void
  BY <1>19, Constants
  DEF Void, files, IInv, TypeOK, MemoryOK, CacheAssumption, Numbers, Tokens
<1>20. CASE EraseMemo
  BY <1>20, Constants
  DEF EraseMemo, files, history, IInv, TypeOK, MemoryOK
<1>21. CASE Quarantine
  BY <1>21, Constants
  DEF Quarantine, Moved, history, IInv, TypeOK, MemoryOK
<1>22. CASE Crash
  <2>1. generation' \in 0 .. removals' /\ crashes' \in 0 .. MaxCrashes
    BY <1>22 DEF Crash, IInv, TypeOK, MemoryOK, CacheAssumption
  <2>2. judged' \in {"unknown", "valid", "invalid"} /\ void' = {}
    BY <1>22 DEF Crash, Moved
  <2> QED
    BY <1>22, <2>1, <2>2 DEF Crash, NoProbe, IInv, TypeOK, MemoryOK
<1>23. CASE UNCHANGED vars
  BY <1>23, Constants
  DEF vars, files, memory, history, IInv, TypeOK, MemoryOK
<1> QED
  BY <1>1, <1>2, <1>3, <1>4, <1>5, <1>6, <1>7, <1>8, <1>9, <1>10, <1>11, <1>12,
     <1>13, <1>14, <1>15, <1>16, <1>17, <1>18, <1>19, <1>20, <1>21, <1>22,
     <1>23
  DEF Next, PublishStep

\* Two publications never hold the locks together, nor one and a probe.
LEMMA HolderStep ==
  ASSUME CacheAssumption, IInv, [Next]_vars
  PROVE  OneHolder'
<1>1. ASSUME NEW p \in Publishers, Token(p) PROVE OneHolder'
  BY <1>1
  DEF Token, files, memory, NotWatching, IInv, TypeOK, OneHolder, Idle,
      Publishing, LockFree, MutexFree, ThreadsOK
<1>2. ASSUME NEW p \in Publishers, Begin(p) PROVE OneHolder'
  BY <1>2
  DEF Begin, files, memory, history, Goto, Rest, NotWatching, IInv, TypeOK,
      OneHolder, Idle, Publishing, LockFree, MutexFree, ThreadsOK
<1>3. ASSUME NEW p \in Publishers, StageBuffer(p) PROVE OneHolder'
  BY <1>3
  DEF StageBuffer, StageMember, files, memory, history, Goto, NotWatching,
      IInv, TypeOK, OneHolder, Idle, Publishing, LockFree, MutexFree, ThreadsOK
<1>4. ASSUME NEW p \in Publishers, StageMeta(p) PROVE OneHolder'
  BY <1>4
  DEF StageMeta, StageMember, RestoreMember, history, Goto, NotWatching, IInv,
      TypeOK, OneHolder, Idle, Publishing, LockFree, MutexFree, ThreadsOK
<1>5. ASSUME NEW p \in Publishers, WriteBuffer(p) PROVE OneHolder'
  BY <1>5
  DEF WriteBuffer, WriteMember, history, Goto, NotWatching, IInv, TypeOK,
      OneHolder, Idle, Publishing, LockFree, MutexFree, ThreadsOK
<1>6. ASSUME NEW p \in Publishers, WriteMeta(p) PROVE OneHolder'
  BY <1>6
  DEF WriteMeta, WriteMember, history, Goto, NotWatching, IInv, TypeOK,
      OneHolder, Idle, Publishing, LockFree, MutexFree, ThreadsOK
<1>7. ASSUME NEW p \in Publishers, SetMarker(p) PROVE OneHolder'
  BY <1>7
  DEF SetMarker, memory, history, Goto, NotWatching, IInv, TypeOK, OneHolder,
      Idle, Publishing, LockFree, MutexFree, ThreadsOK
<1>8. ASSUME NEW p \in Publishers, ResetMarker(p) PROVE OneHolder'
  BY <1>8
  DEF ResetMarker, memory, history, Goto, NotWatching, IInv, TypeOK, OneHolder,
      Idle, Publishing, LockFree, MutexFree, ThreadsOK
<1>9. ASSUME NEW p \in Publishers, UndoBuffer(p) PROVE OneHolder'
  BY <1>9
  DEF UndoBuffer, RestoreMember, history, Goto, NotWatching, IInv, TypeOK,
      OneHolder, Idle, Publishing, LockFree, MutexFree, ThreadsOK
<1>10. ASSUME NEW p \in Publishers, UndoMeta(p) PROVE OneHolder'
  BY <1>10
  DEF UndoMeta, RestoreMember, history, Goto, NotWatching, IInv, TypeOK,
      OneHolder, Idle, Publishing, LockFree, MutexFree, ThreadsOK
<1>11. ASSUME NEW p \in Publishers, Commit(p) PROVE OneHolder'
  BY <1>11
  DEF Commit, history, Rest, NotWatching, IInv, TypeOK, OneHolder, Idle,
      Publishing, LockFree, MutexFree, ThreadsOK
<1>12. ASSUME NEW p \in Publishers, Release(p) PROVE OneHolder'
  BY <1>12
  DEF Release, files, memory, history, Rest, NotWatching, IInv, TypeOK,
      OneHolder, Idle, Publishing, LockFree, MutexFree, ThreadsOK
<1>13. CASE Use
  BY <1>13
  DEF Use, files, history, IInv, TypeOK, OneHolder, Idle, Publishing, LockFree,
      MutexFree, ThreadsOK
<1>14. CASE Probe
  BY <1>14
  DEF Probe, files, history, IInv, TypeOK, OneHolder, Idle, Publishing,
      LockFree, MutexFree, ThreadsOK
<1>15. CASE ProbeUnlocked
  BY <1>15
  DEF ProbeUnlocked, files, history, IInv, TypeOK, OneHolder, Idle, Publishing,
      LockFree, MutexFree, ThreadsOK
<1>16. CASE Remember
  BY <1>16
  DEF Remember, files, history, IInv, TypeOK, OneHolder, Idle, Publishing,
      LockFree, MutexFree, ThreadsOK, NoProbe
<1>17. CASE Remove
  BY <1>17
  DEF Remove, files, memory, IInv, TypeOK, OneHolder, Idle, Publishing,
      LockFree, MutexFree, ThreadsOK
<1>18. CASE Add
  BY <1>18
  DEF Add, files, memory, history, IInv, TypeOK, OneHolder, Idle, Publishing,
      LockFree, MutexFree, ThreadsOK
<1>19. CASE Void
  BY <1>19
  DEF Void, files, IInv, TypeOK, OneHolder, Idle, Publishing, LockFree,
      MutexFree, ThreadsOK
<1>20. CASE EraseMemo
  BY <1>20
  DEF EraseMemo, files, history, IInv, TypeOK, OneHolder, Idle, Publishing,
      LockFree, MutexFree, ThreadsOK
<1>21. CASE Quarantine
  BY <1>21
  DEF Quarantine, Moved, history, IInv, TypeOK, OneHolder, Idle, Publishing,
      LockFree, MutexFree, ThreadsOK
<1>22. CASE Crash
  BY <1>22
  DEF Crash, Moved, IInv, TypeOK, OneHolder, Idle, Publishing, LockFree,
      MutexFree, ThreadsOK, NoProbe
<1>23. CASE UNCHANGED vars
  BY <1>23
  DEF vars, files, memory, history, IInv, TypeOK, OneHolder, Idle, Publishing,
      LockFree, MutexFree, ThreadsOK
<1> QED
  BY <1>1, <1>2, <1>3, <1>4, <1>5, <1>6, <1>7, <1>8, <1>9, <1>10, <1>11, <1>12,
     <1>13, <1>14, <1>15, <1>16, <1>17, <1>18, <1>19, <1>20, <1>21, <1>22,
     <1>23
  DEF Next, PublishStep

\* What putting a copy aside does.
LEMMA StageFacts ==
  ASSUME FilesOK, ThreadsOK, NEW p \in Publishers, NEW m \in Members, NEW next,
         StageMember(p, m, next)
  PROVE  /\ \A o \in Members : o # m =>
              aside'[o] = aside[o] /\ tx'.staged[o] = tx.staged[o]
         /\ aside'[m] = disk[m] /\ (tx'.staged[m] <=> disk[m] # 0)
         /\ disk' = disk /\ marker' = marker
         /\ tx'.before = tx.before /\ tx'.markerBefore = tx.markerBefore
         /\ tx'.broken = tx.broken
BY DEF StageMember, FilesOK, ThreadsOK, Transaction

\* What putting a member back does, if it does.
LEMMA RestoreFacts ==
  ASSUME FilesOK, ThreadsOK, NEW m \in Members, RestoreMember(m)
  PROVE  /\ \A o \in Members : o # m =>
              aside'[o] = aside[o] /\ disk'[o] = disk[o]
         /\ aside'[m] \in {aside[m], 0}
         /\ disk'[m] \in {disk[m], IF tx.staged[m] THEN aside[m] ELSE 0}
         /\ ~tx'.broken =>
              disk'[m] = (IF tx.staged[m] THEN aside[m] ELSE 0)
         /\ tx'.before = tx.before /\ tx'.markerBefore = tx.markerBefore
         /\ tx'.staged = tx.staged /\ (tx.broken => tx'.broken)
BY DEF RestoreMember, FilesOK, ThreadsOK, Transaction

\* A publication that begins goes to its first stage under both locks, or
\* gives up.
LEMMA BeginFacts ==
  ASSUME IInv, NEW p \in Publishers, Begin(p)
  PROVE  /\ thread[p].at = "token" /\ UNCHANGED <<files, memory, history>>
         /\ \A q \in Publishers : q # p => thread'[q] = thread[q]
         /\ \/ /\ LockFree /\ Allowed(content[thread[p].n])
               /\ thread'[p] = [thread[p] EXCEPT !.at = "stage"]
               /\ tx' = [Done EXCEPT !.markerBefore = marker,
                                     !.before = Triple]
            \/ thread'[p].at = "idle" /\ MutexFree
<1>1. Goto(p, "stage") \/ Rest(p)
  BY DEF Begin
<1>2. \A q \in Publishers : q # p => thread'[q] = thread[q]
  BY <1>1 DEF Goto, Rest, IInv, TypeOK, ThreadsOK
<1>3. Goto(p, "stage") => thread'[p] = [thread[p] EXCEPT !.at = "stage"]
  BY DEF Goto, IInv, TypeOK, ThreadsOK
<1>4. Rest(p) => thread'[p].at = "idle"
  BY DEF Rest, IInv, TypeOK, ThreadsOK
<1> QED
  BY <1>2, <1>3, <1>4 DEF Begin, LockFree, MutexFree

\* A token stays one of a publication begun, of a generation that has been.
LEMMA TokensStep ==
  ASSUME CacheAssumption, IInv, [Next]_vars
  PROVE  Tokens'
<1>1. ASSUME NEW p \in Publishers, Token(p) PROVE Tokens'
  BY <1>1
  DEF Token, files, memory, NotWatching, IInv, TypeOK, ThreadsOK, MemoryOK,
      Tokens, CacheAssumption, Numbers, FilesOK
<1>2. ASSUME NEW p \in Publishers, Begin(p) PROVE Tokens'
  BY <1>2
  DEF Begin, files, memory, history, Goto, Rest, NotWatching, IInv, TypeOK,
      ThreadsOK, MemoryOK, Tokens, CacheAssumption, Numbers
<1>3. ASSUME NEW p \in Publishers, StageBuffer(p) PROVE Tokens'
  BY <1>3
  DEF StageBuffer, StageMember, files, memory, history, Goto, NotWatching,
      IInv, TypeOK, ThreadsOK, MemoryOK, Tokens, CacheAssumption, Numbers
<1>4. ASSUME NEW p \in Publishers, StageMeta(p) PROVE Tokens'
  BY <1>4
  DEF StageMeta, StageMember, RestoreMember, history, Goto, NotWatching, IInv,
      TypeOK, ThreadsOK, MemoryOK, Tokens, CacheAssumption, Numbers
<1>5. ASSUME NEW p \in Publishers, WriteBuffer(p) PROVE Tokens'
  BY <1>5
  DEF WriteBuffer, WriteMember, history, Goto, NotWatching, IInv, TypeOK,
      ThreadsOK, MemoryOK, Tokens, CacheAssumption, Numbers
<1>6. ASSUME NEW p \in Publishers, WriteMeta(p) PROVE Tokens'
  BY <1>6
  DEF WriteMeta, WriteMember, history, Goto, NotWatching, IInv, TypeOK,
      ThreadsOK, MemoryOK, Tokens, CacheAssumption, Numbers
<1>7. ASSUME NEW p \in Publishers, SetMarker(p) PROVE Tokens'
  BY <1>7
  DEF SetMarker, memory, history, Goto, NotWatching, IInv, TypeOK, ThreadsOK,
      MemoryOK, Tokens, CacheAssumption, Numbers
<1>8. ASSUME NEW p \in Publishers, ResetMarker(p) PROVE Tokens'
  BY <1>8
  DEF ResetMarker, memory, history, Goto, NotWatching, IInv, TypeOK, ThreadsOK,
      MemoryOK, Tokens, CacheAssumption, Numbers
<1>9. ASSUME NEW p \in Publishers, UndoBuffer(p) PROVE Tokens'
  BY <1>9
  DEF UndoBuffer, RestoreMember, history, Goto, NotWatching, IInv, TypeOK,
      ThreadsOK, MemoryOK, Tokens, CacheAssumption, Numbers
<1>10. ASSUME NEW p \in Publishers, UndoMeta(p) PROVE Tokens'
  BY <1>10
  DEF UndoMeta, RestoreMember, history, Goto, NotWatching, IInv, TypeOK,
      ThreadsOK, MemoryOK, Tokens, CacheAssumption, Numbers
<1>11. ASSUME NEW p \in Publishers, Commit(p) PROVE Tokens'
  BY <1>11
  DEF Commit, history, Rest, NotWatching, IInv, TypeOK, ThreadsOK, MemoryOK,
      Tokens, CacheAssumption, Numbers
<1>12. ASSUME NEW p \in Publishers, Release(p) PROVE Tokens'
  BY <1>12
  DEF Release, files, memory, history, Rest, NotWatching, IInv, TypeOK,
      ThreadsOK, MemoryOK, Tokens, CacheAssumption, Numbers
<1>13. CASE Use
  BY <1>13
  DEF Use, files, history, IInv, TypeOK, ThreadsOK, MemoryOK, Tokens,
      CacheAssumption, Numbers
<1>14. CASE Probe
  BY <1>14
  DEF Probe, files, history, IInv, TypeOK, ThreadsOK, MemoryOK, Tokens,
      CacheAssumption, Numbers
<1>15. CASE ProbeUnlocked
  BY <1>15
  DEF ProbeUnlocked, files, history, IInv, TypeOK, ThreadsOK, MemoryOK, Tokens,
      CacheAssumption, Numbers
<1>16. CASE Remember
  BY <1>16
  DEF Remember, files, history, IInv, TypeOK, ThreadsOK, MemoryOK, Tokens,
      CacheAssumption, Numbers
<1>17. CASE Remove
  BY <1>17
  DEF Remove, files, memory, IInv, TypeOK, ThreadsOK, MemoryOK, Tokens,
      CacheAssumption, Numbers
<1>18. CASE Add
  BY <1>18
  DEF Add, files, memory, history, IInv, TypeOK, ThreadsOK, MemoryOK, Tokens,
      CacheAssumption, Numbers
<1>19. CASE Void
  BY <1>19
  DEF Void, files, IInv, TypeOK, ThreadsOK, MemoryOK, Tokens, CacheAssumption,
      Numbers, FilesOK, Content
<1>20. CASE EraseMemo
  BY <1>20
  DEF EraseMemo, files, history, IInv, TypeOK, ThreadsOK, MemoryOK, Tokens,
      CacheAssumption, Numbers
<1>21. CASE Quarantine
  BY <1>21
  DEF Quarantine, Moved, history, IInv, TypeOK, ThreadsOK, MemoryOK, Tokens,
      CacheAssumption, Numbers
<1>22. CASE Crash
  BY <1>22
  DEF Crash, Moved, IInv, TypeOK, ThreadsOK, MemoryOK, Tokens, CacheAssumption,
      Numbers
<1>23. CASE UNCHANGED vars
  BY <1>23
  DEF vars, files, memory, history, IInv, TypeOK, ThreadsOK, MemoryOK, Tokens,
      CacheAssumption, Numbers
<1> QED
  BY <1>1, <1>2, <1>3, <1>4, <1>5, <1>6, <1>7, <1>8, <1>9, <1>10, <1>11, <1>12,
     <1>13, <1>14, <1>15, <1>16, <1>17, <1>18, <1>19, <1>20, <1>21, <1>22,
     <1>23
  DEF Next, PublishStep

\* The generation is checked in the locks, and a removal voids nothing that
\* holds them.
LEMMA InForceStep ==
  ASSUME CacheAssumption, IInv, [Next]_vars
  PROVE  InForce'
<1>1. ASSUME NEW p \in Publishers, Token(p) PROVE InForce'
  BY <1>1
  DEF Token, files, memory, NotWatching, IInv, TypeOK, ThreadsOK, InForce, Idle
<1>2. ASSUME NEW p \in Publishers, Begin(p) PROVE InForce'
  <2>1. CASE thread'[p].at = "idle"
    BY <1>2, <2>1, BeginFacts DEF history, IInv, InForce, Idle
  <2>2. CASE thread'[p] = [thread[p] EXCEPT !.at = "stage"]
    <3>1. CASE Allowed(content[thread[p].n])
      <4>1. content[thread[p].n].generation = generation
        BY <3>1 DEF Allowed
      <4>2. generation \in Int /\ thread[p].at # "idle"
        BY <1>2 DEF Begin, IInv, TypeOK, MemoryOK
      <4>3. thread[p].n \notin void
        BY <4>1, <4>2 DEF IInv, Tokens
      <4>4. thread'[p].n = thread[p].n
        BY <2>2 DEF IInv, TypeOK, ThreadsOK
      <4>5. void' = void
        BY <1>2, BeginFacts DEF history
      <4>6. \A q \in Publishers : q # p => thread'[q] = thread[q]
        BY <1>2, BeginFacts
      <4> QED
        BY <4>3, <4>4, <4>5, <4>6 DEF IInv, InForce, Idle
    <3>2. thread'[p].at = "stage"
      BY <2>2 DEF IInv, TypeOK, ThreadsOK
    <3> QED
      BY <1>2, <3>1, <3>2, BeginFacts
  <2> QED
    BY <1>2, <2>1, <2>2, BeginFacts
<1>3. ASSUME NEW p \in Publishers, StageBuffer(p) PROVE InForce'
  BY <1>3
  DEF StageBuffer, StageMember, files, memory, history, Goto, NotWatching,
      IInv, TypeOK, ThreadsOK, InForce, Idle
<1>4. ASSUME NEW p \in Publishers, StageMeta(p) PROVE InForce'
  BY <1>4
  DEF StageMeta, StageMember, RestoreMember, history, Goto, NotWatching, IInv,
      TypeOK, ThreadsOK, InForce, Idle
<1>5. ASSUME NEW p \in Publishers, WriteBuffer(p) PROVE InForce'
  BY <1>5
  DEF WriteBuffer, WriteMember, history, Goto, NotWatching, IInv, TypeOK,
      ThreadsOK, InForce, Idle
<1>6. ASSUME NEW p \in Publishers, WriteMeta(p) PROVE InForce'
  BY <1>6
  DEF WriteMeta, WriteMember, history, Goto, NotWatching, IInv, TypeOK,
      ThreadsOK, InForce, Idle
<1>7. ASSUME NEW p \in Publishers, SetMarker(p) PROVE InForce'
  BY <1>7
  DEF SetMarker, memory, history, Goto, NotWatching, IInv, TypeOK, ThreadsOK,
      InForce, Idle
<1>8. ASSUME NEW p \in Publishers, ResetMarker(p) PROVE InForce'
  BY <1>8
  DEF ResetMarker, memory, history, Goto, NotWatching, IInv, TypeOK, ThreadsOK,
      InForce, Idle
<1>9. ASSUME NEW p \in Publishers, UndoBuffer(p) PROVE InForce'
  BY <1>9
  DEF UndoBuffer, RestoreMember, history, Goto, NotWatching, IInv, TypeOK,
      ThreadsOK, InForce, Idle
<1>10. ASSUME NEW p \in Publishers, UndoMeta(p) PROVE InForce'
  BY <1>10
  DEF UndoMeta, RestoreMember, history, Goto, NotWatching, IInv, TypeOK,
      ThreadsOK, InForce, Idle
<1>11. ASSUME NEW p \in Publishers, Commit(p) PROVE InForce'
  BY <1>11
  DEF Commit, history, Rest, NotWatching, IInv, TypeOK, ThreadsOK, InForce,
      Idle
<1>12. ASSUME NEW p \in Publishers, Release(p) PROVE InForce'
  BY <1>12
  DEF Release, files, memory, history, Rest, NotWatching, IInv, TypeOK,
      ThreadsOK, InForce, Idle
<1>13. CASE Use
  BY <1>13
  DEF Use, files, history, IInv, TypeOK, ThreadsOK, InForce, Idle
<1>14. CASE Probe
  BY <1>14
  DEF Probe, files, history, IInv, TypeOK, ThreadsOK, InForce, Idle
<1>15. CASE ProbeUnlocked
  BY <1>15
  DEF ProbeUnlocked, files, history, IInv, TypeOK, ThreadsOK, InForce, Idle
<1>16. CASE Remember
  BY <1>16
  DEF Remember, files, history, IInv, TypeOK, ThreadsOK, InForce, Idle
<1>17. CASE Remove
  BY <1>17
  DEF Remove, files, memory, IInv, TypeOK, ThreadsOK, InForce, Idle
<1>18. CASE Add
  BY <1>18
  DEF Add, files, memory, history, IInv, TypeOK, ThreadsOK, InForce, Idle
<1>19. CASE Void
  BY <1>19
  DEF Void, files, IInv, TypeOK, ThreadsOK, InForce, Idle, MutexFree,
      Publishing
<1>20. CASE EraseMemo
  BY <1>20
  DEF EraseMemo, files, history, IInv, TypeOK, ThreadsOK, InForce, Idle
<1>21. CASE Quarantine
  BY <1>21
  DEF Quarantine, Moved, history, IInv, TypeOK, ThreadsOK, InForce, Idle
<1>22. CASE Crash
  BY <1>22
  DEF Crash, Moved, IInv, TypeOK, ThreadsOK, InForce, Idle
<1>23. CASE UNCHANGED vars
  BY <1>23
  DEF vars, files, memory, history, IInv, TypeOK, ThreadsOK, InForce, Idle
<1> QED
  BY <1>1, <1>2, <1>3, <1>4, <1>5, <1>6, <1>7, <1>8, <1>9, <1>10, <1>11, <1>12,
     <1>13, <1>14, <1>15, <1>16, <1>17, <1>18, <1>19, <1>20, <1>21, <1>22,
     <1>23
  DEF Next, PublishStep

\* Whoever has written a file has written its own publication.
LEMMA WrittenStep ==
  ASSUME CacheAssumption, IInv, [Next]_vars
  PROVE  Written'
<1>1. ASSUME NEW p \in Publishers, Token(p) PROVE Written'
  BY <1>1
  DEF Token, files, memory, NotWatching, IInv, TypeOK, FilesOK, ThreadsOK,
      OneHolder, Written, At, Idle, Places, Members
<1>2. ASSUME NEW p \in Publishers, Begin(p) PROVE Written'
  BY <1>2
  DEF Begin, files, memory, history, Goto, Rest, NotWatching, IInv, TypeOK,
      FilesOK, ThreadsOK, OneHolder, Written, At, Idle, Places, Members
<1>3. ASSUME NEW p \in Publishers, StageBuffer(p) PROVE Written'
  BY <1>3
  DEF StageBuffer, StageMember, files, memory, history, Goto, NotWatching,
      IInv, TypeOK, FilesOK, ThreadsOK, OneHolder, Written, At, Idle, Places,
      Members
<1>4. ASSUME NEW p \in Publishers, StageMeta(p) PROVE Written'
  BY <1>4
  DEF StageMeta, StageMember, RestoreMember, history, Goto, NotWatching, IInv,
      TypeOK, FilesOK, ThreadsOK, OneHolder, Written, At, Idle, Places, Members
<1>5. ASSUME NEW p \in Publishers, WriteBuffer(p) PROVE Written'
  BY <1>5
  DEF WriteBuffer, WriteMember, history, Goto, NotWatching, IInv, TypeOK,
      FilesOK, ThreadsOK, OneHolder, Written, At, Idle, Places, Members
<1>6. ASSUME NEW p \in Publishers, WriteMeta(p) PROVE Written'
  BY <1>6
  DEF WriteMeta, WriteMember, history, Goto, NotWatching, IInv, TypeOK,
      FilesOK, ThreadsOK, OneHolder, Written, At, Idle, Places, Members
<1>7. ASSUME NEW p \in Publishers, SetMarker(p) PROVE Written'
  BY <1>7
  DEF SetMarker, memory, history, Goto, NotWatching, IInv, TypeOK, FilesOK,
      ThreadsOK, OneHolder, Written, At, Idle, Places, Members
<1>8. ASSUME NEW p \in Publishers, ResetMarker(p) PROVE Written'
  BY <1>8
  DEF ResetMarker, memory, history, Goto, NotWatching, IInv, TypeOK, FilesOK,
      ThreadsOK, OneHolder, Written, At, Idle, Places, Members
<1>9. ASSUME NEW p \in Publishers, UndoBuffer(p) PROVE Written'
  BY <1>9
  DEF UndoBuffer, RestoreMember, history, Goto, NotWatching, IInv, TypeOK,
      FilesOK, ThreadsOK, OneHolder, Written, At, Idle, Places, Members
<1>10. ASSUME NEW p \in Publishers, UndoMeta(p) PROVE Written'
  BY <1>10
  DEF UndoMeta, RestoreMember, history, Goto, NotWatching, IInv, TypeOK,
      FilesOK, ThreadsOK, OneHolder, Written, At, Idle, Places, Members
<1>11. ASSUME NEW p \in Publishers, Commit(p) PROVE Written'
  BY <1>11
  DEF Commit, history, Rest, NotWatching, IInv, TypeOK, FilesOK, ThreadsOK,
      OneHolder, Written, At, Idle, Places, Members
<1>12. ASSUME NEW p \in Publishers, Release(p) PROVE Written'
  BY <1>12
  DEF Release, files, memory, history, Rest, NotWatching, IInv, TypeOK,
      FilesOK, ThreadsOK, OneHolder, Written, At, Idle, Places, Members
<1>13. CASE Use
  BY <1>13
  DEF Use, files, history, IInv, TypeOK, FilesOK, ThreadsOK, OneHolder,
      Written, At, Idle, Places, Members
<1>14. CASE Probe
  BY <1>14
  DEF Probe, files, history, IInv, TypeOK, FilesOK, ThreadsOK, OneHolder,
      Written, At, Idle, Places, Members
<1>15. CASE ProbeUnlocked
  BY <1>15
  DEF ProbeUnlocked, files, history, IInv, TypeOK, FilesOK, ThreadsOK,
      OneHolder, Written, At, Idle, Places, Members
<1>16. CASE Remember
  BY <1>16
  DEF Remember, files, history, IInv, TypeOK, FilesOK, ThreadsOK, OneHolder,
      Written, At, Idle, Places, Members
<1>17. CASE Remove
  BY <1>17
  DEF Remove, files, memory, IInv, TypeOK, FilesOK, ThreadsOK, OneHolder,
      Written, At, Idle, Places, Members
<1>18. CASE Add
  BY <1>18
  DEF Add, files, memory, history, IInv, TypeOK, FilesOK, ThreadsOK, OneHolder,
      Written, At, Idle, Places, Members
<1>19. CASE Void
  BY <1>19
  DEF Void, files, IInv, TypeOK, FilesOK, ThreadsOK, OneHolder, Written, At,
      Idle, Places, Members
<1>20. CASE EraseMemo
  BY <1>20
  DEF EraseMemo, files, history, IInv, TypeOK, FilesOK, ThreadsOK, OneHolder,
      Written, At, Idle, Places, Members
<1>21. CASE Quarantine
  BY <1>21
  DEF Quarantine, Moved, history, IInv, TypeOK, FilesOK, ThreadsOK, OneHolder,
      Written, At, Idle, Places, Members, MutexFree, LockFree, Publishing
<1>22. CASE Crash
  BY <1>22
  DEF Crash, Moved, IInv, TypeOK, FilesOK, ThreadsOK, OneHolder, Written, At,
      Idle, Places, Members
<1>23. CASE UNCHANGED vars
  BY <1>23
  DEF vars, files, memory, history, IInv, TypeOK, FilesOK, ThreadsOK,
      OneHolder, Written, At, Idle, Places, Members
<1> QED
  BY <1>1, <1>2, <1>3, <1>4, <1>5, <1>6, <1>7, <1>8, <1>9, <1>10, <1>11, <1>12,
     <1>13, <1>14, <1>15, <1>16, <1>17, <1>18, <1>19, <1>20, <1>21, <1>22,
     <1>23
  DEF Next, PublishStep

\* What is voided while reads are allowed is neither on disk nor put back.
LEMMA ShownStep ==
  ASSUME CacheAssumption, IInv, [Next]_vars
  PROVE  Shown'
<1>1. ASSUME NEW p \in Publishers, Token(p) PROVE Shown'
  BY <1>1
  DEF Token, files, memory, NotWatching, IInv, TypeOK, FilesOK, ThreadsOK,
      Shown, Members
<1>2. ASSUME NEW p \in Publishers, Begin(p) PROVE Shown'
  BY <1>2
  DEF Begin, files, memory, history, Goto, Rest, NotWatching, IInv, TypeOK,
      FilesOK, ThreadsOK, Shown, Members, Done, NoTx
<1>3. ASSUME NEW p \in Publishers, StageBuffer(p) PROVE Shown'
  BY <1>3, StageFacts
  DEF StageBuffer, StageMember, files, memory, history, Goto, NotWatching,
      IInv, TypeOK, FilesOK, ThreadsOK, Shown, Members, Transaction
<1>4. ASSUME NEW p \in Publishers, StageMeta(p) PROVE Shown'
  <2>1. hidden' = hidden /\ void' = void /\ 0 \notin void
    BY <1>4 DEF StageMeta, history, IInv, TypeOK, MemoryOK
  <2>2. CASE StageMember(p, "meta", "buffer")
    BY <2>1, <2>2, StageFacts DEF IInv, TypeOK, Shown, Members
  <2>3. CASE RestoreMember("buffer")
    BY <2>1, <2>3, RestoreFacts DEF IInv, TypeOK, Shown, Members
  <2> QED
    BY <1>4, <2>2, <2>3 DEF StageMeta
<1>5. ASSUME NEW p \in Publishers, WriteBuffer(p) PROVE Shown'
  BY <1>5
  DEF WriteBuffer, WriteMember, history, Goto, NotWatching, IInv, TypeOK,
      FilesOK, ThreadsOK, Shown, Members, InForce, Idle
<1>6. ASSUME NEW p \in Publishers, WriteMeta(p) PROVE Shown'
  BY <1>6
  DEF WriteMeta, WriteMember, history, Goto, NotWatching, IInv, TypeOK,
      FilesOK, ThreadsOK, Shown, Members, InForce, Idle
<1>7. ASSUME NEW p \in Publishers, SetMarker(p) PROVE Shown'
  BY <1>7
  DEF SetMarker, memory, history, Goto, NotWatching, IInv, TypeOK, FilesOK,
      ThreadsOK, Shown, Members
<1>8. ASSUME NEW p \in Publishers, ResetMarker(p) PROVE Shown'
  BY <1>8
  DEF ResetMarker, memory, history, Goto, NotWatching, IInv, TypeOK, FilesOK,
      ThreadsOK, Shown, Members, Transaction
<1>9. ASSUME NEW p \in Publishers, UndoBuffer(p) PROVE Shown'
  <2>1. hidden' = hidden /\ void' = void /\ 0 \notin void
    BY <1>9 DEF UndoBuffer, history, IInv, TypeOK, MemoryOK
  <2> QED
    BY <1>9, <2>1, RestoreFacts DEF UndoBuffer, IInv, TypeOK, Shown, Members
<1>10. ASSUME NEW p \in Publishers, UndoMeta(p) PROVE Shown'
  <2>1. hidden' = hidden /\ void' = void /\ 0 \notin void
    BY <1>10 DEF UndoMeta, history, IInv, TypeOK, MemoryOK
  <2> QED
    BY <1>10, <2>1, RestoreFacts DEF UndoMeta, IInv, TypeOK, Shown, Members
<1>11. ASSUME NEW p \in Publishers, Commit(p) PROVE Shown'
  BY <1>11
  DEF Commit, history, Rest, NotWatching, IInv, TypeOK, FilesOK, ThreadsOK,
      Shown, Members, NoTx, InForce, Written, At, Idle
<1>12. ASSUME NEW p \in Publishers, Release(p) PROVE Shown'
  BY <1>12
  DEF Release, files, memory, history, Rest, NotWatching, IInv, TypeOK,
      FilesOK, ThreadsOK, Shown, Members, Done, NoTx
<1>13. CASE Use
  BY <1>13
  DEF Use, files, history, IInv, TypeOK, FilesOK, ThreadsOK, Shown, Members
<1>14. CASE Probe
  BY <1>14
  DEF Probe, files, history, IInv, TypeOK, FilesOK, ThreadsOK, Shown, Members
<1>15. CASE ProbeUnlocked
  BY <1>15
  DEF ProbeUnlocked, files, history, IInv, TypeOK, FilesOK, ThreadsOK, Shown,
      Members
<1>16. CASE Remember
  BY <1>16
  DEF Remember, files, history, IInv, TypeOK, FilesOK, ThreadsOK, Shown,
      Members
<1>17. CASE Remove
  BY <1>17
  DEF Remove, files, memory, IInv, TypeOK, FilesOK, ThreadsOK, Shown, Members
<1>18. CASE Add
  BY <1>18
  DEF Add, files, memory, history, IInv, TypeOK, FilesOK, ThreadsOK, Shown,
      Members
<1>19. CASE Void
  BY <1>19
  DEF Void, files, IInv, TypeOK, FilesOK, ThreadsOK, Shown, Members
<1>20. CASE EraseMemo
  BY <1>20
  DEF EraseMemo, files, history, IInv, TypeOK, FilesOK, ThreadsOK, Shown,
      Members
<1>21. CASE Quarantine
  <2>1. 0 \notin void
    BY DEF IInv, TypeOK, MemoryOK
  <2>2. \A m \in Members : disk'[m] \in {disk[m], 0}
    BY <1>21 DEF Quarantine, Moved, IInv, TypeOK, FilesOK
  <2> QED
    BY <1>21, <2>1, <2>2 DEF Quarantine, history, IInv, Shown
<1>22. CASE Crash
  BY <1>22
  DEF Crash, Moved, IInv, TypeOK, FilesOK, ThreadsOK, Shown, Members
<1>23. CASE UNCHANGED vars
  BY <1>23
  DEF vars, files, memory, history, IInv, TypeOK, FilesOK, ThreadsOK, Shown,
      Members
<1> QED
  BY <1>1, <1>2, <1>3, <1>4, <1>5, <1>6, <1>7, <1>8, <1>9, <1>10, <1>11, <1>12,
     <1>13, <1>14, <1>15, <1>16, <1>17, <1>18, <1>19, <1>20, <1>21, <1>22,
     <1>23
  DEF Next, PublishStep

\* Until it commits, a publication knows how to put everything back.
LEMMA UndoableStep ==
  ASSUME CacheAssumption, IInv, [Next]_vars
  PROVE  Undoable'
<1>1. ASSUME NEW p \in Publishers, Token(p) PROVE Undoable'
  BY <1>1
  DEF Token, files, memory, NotWatching, IInv, TypeOK, ThreadsOK, OneHolder,
      Undoable, Kept, At, Idle
<1>2. ASSUME NEW p \in Publishers, Begin(p) PROVE Undoable'
  <2>1. \A q \in Publishers : q # p => thread'[q] = thread[q]
    BY <1>2, BeginFacts
  <2>2. CASE thread'[p].at = "idle" /\ MutexFree
    BY <1>2, <2>1, <2>2, BeginFacts
    DEF IInv, Undoable, Idle, MutexFree, Publishing
  <2>3. CASE /\ LockFree /\ thread'[p] = [thread[p] EXCEPT !.at = "stage"]
             /\ tx' = [Done EXCEPT !.markerBefore = marker, !.before = Triple]
    <3>1. \A q \in Publishers : q # p => thread'[q].at \in {"idle", "token"}
      BY <2>1, <2>3 DEF LockFree, Publishing, Idle
    <3>2. tx'.markerBefore = marker /\ tx'.before = Triple
      BY <2>3 DEF Done, NoTx
    <3>3. thread'[p].at = "stage"
      BY <2>3 DEF IInv, TypeOK, ThreadsOK
    <3>4. disk' = disk /\ marker' = marker
      BY <1>2, BeginFacts DEF files
    <3>5. /\ tx'.before[1] = disk["buffer"] /\ tx'.before[2] = disk["meta"]
          /\ tx'.before[3] = marker
      BY <3>2 DEF Triple
    <3>6. ~Idle(p)' /\ \A q \in Publishers : q # p => Idle(q)'
      BY <3>1, <3>3 DEF Idle
    <3> QED
      BY <3>2, <3>3, <3>4, <3>5, <3>6 DEF Undoable, At
  <2> QED
    BY <1>2, <2>2, <2>3, BeginFacts
<1>3. ASSUME NEW p \in Publishers, StageBuffer(p) PROVE Undoable'
  <2>1. \A q \in Publishers : q # p => thread'[q].at \in {"idle", "token"}
    BY <1>3
    DEF StageBuffer, Goto, Rest, StageMember, IInv, TypeOK, ThreadsOK, OneHolder, Idle
  <2>2. ~Idle(p) /\ thread[p].at = "stage"
    BY <1>3 DEF StageBuffer, Idle
  <2>3. CASE StageMember(p, "buffer", "stageMeta")
    <3>1. thread'[p].at = "stageMeta"
      BY <2>3 DEF StageMember, Goto, IInv, TypeOK, ThreadsOK
    <3> QED
      BY <2>1, <2>2, <2>3, <3>1, StageFacts
      DEF IInv, TypeOK, Undoable, Kept, At, Idle, Members
  <2>4. CASE Goto(p, "failed") /\ UNCHANGED <<files, tx>>
    BY <2>1, <2>2, <2>4
    DEF files, Goto, IInv, TypeOK, ThreadsOK, Undoable, Kept, At, Idle
  <2> QED
    BY <1>3, <2>3, <2>4 DEF StageBuffer
<1>4. ASSUME NEW p \in Publishers, StageMeta(p) PROVE Undoable'
  <2>1. \A q \in Publishers : q # p => thread'[q].at \in {"idle", "token"}
    BY <1>4
    DEF StageMeta, Goto, Rest, StageMember, IInv, TypeOK, ThreadsOK, OneHolder, Idle
  <2>2. ~Idle(p) /\ thread[p].at = "stageMeta"
    BY <1>4 DEF StageMeta, Idle
  <2>3. CASE StageMember(p, "meta", "buffer")
    <3>1. thread'[p].at = "buffer"
      BY <2>3 DEF StageMember, Goto, IInv, TypeOK, ThreadsOK
    <3> QED
      BY <2>1, <2>2, <2>3, <3>1, StageFacts
      DEF IInv, TypeOK, Undoable, Kept, At, Idle, Members
  <2>4. CASE Goto(p, "failed") /\ RestoreMember("buffer") /\ UNCHANGED marker
    <3>1. thread'[p].at = "failed"
      BY <2>4 DEF Goto, IInv, TypeOK, ThreadsOK
    <3> QED
      BY <2>1, <2>2, <2>4, <3>1, RestoreFacts
      DEF IInv, TypeOK, Undoable, Kept, At, Idle, Members
  <2> QED
    BY <1>4, <2>3, <2>4 DEF StageMeta
<1>5. ASSUME NEW p \in Publishers, WriteBuffer(p) PROVE Undoable'
  BY <1>5
  DEF WriteBuffer, WriteMember, history, Goto, NotWatching, IInv, TypeOK,
      ThreadsOK, OneHolder, Undoable, Kept, At, Idle, FilesOK, Members,
      Transaction
<1>6. ASSUME NEW p \in Publishers, WriteMeta(p) PROVE Undoable'
  BY <1>6
  DEF WriteMeta, WriteMember, history, Goto, NotWatching, IInv, TypeOK,
      ThreadsOK, OneHolder, Undoable, Kept, At, Idle, FilesOK, Members,
      Transaction
<1>7. ASSUME NEW p \in Publishers, SetMarker(p) PROVE Undoable'
  BY <1>7
  DEF SetMarker, memory, history, Goto, NotWatching, IInv, TypeOK, ThreadsOK,
      OneHolder, Undoable, Kept, At, Idle, FilesOK, Members, Transaction
<1>8. ASSUME NEW p \in Publishers, ResetMarker(p) PROVE Undoable'
  <2>1. \A q \in Publishers : q # p => thread'[q].at \in {"idle", "token"}
    BY <1>8
    DEF ResetMarker, Goto, Rest, StageMember, IInv, TypeOK, ThreadsOK, OneHolder, Idle
  <2>2. ~Idle(p) /\ thread[p].at = "unmark" /\ thread'[p].at = "undo"
    BY <1>8 DEF ResetMarker, Goto, Idle, IInv, TypeOK, ThreadsOK
  <2>3. \/ marker' = tx.markerBefore /\ tx' = tx
        \/ tx'.broken
    BY <1>8 DEF ResetMarker, IInv, TypeOK, ThreadsOK, Transaction
  <2> QED
    BY <1>8, <2>1, <2>2, <2>3
    DEF ResetMarker, Undoable, Kept, At, Idle, IInv
<1>9. ASSUME NEW p \in Publishers, UndoBuffer(p) PROVE Undoable'
  <2>1. \A q \in Publishers : q # p => thread'[q].at \in {"idle", "token"}
    BY <1>9
    DEF UndoBuffer, Goto, Rest, StageMember, IInv, TypeOK, ThreadsOK, OneHolder, Idle
  <2>2. ~Idle(p) /\ thread[p].at = "undo" /\ thread'[p].at = "undoMeta"
    BY <1>9 DEF UndoBuffer, Goto, Idle, IInv, TypeOK, ThreadsOK
  <2> QED
    BY <1>9, <2>1, <2>2, RestoreFacts
    DEF UndoBuffer, Undoable, Kept, At, Idle, IInv, TypeOK, Members
<1>10. ASSUME NEW p \in Publishers, UndoMeta(p) PROVE Undoable'
  <2>1. \A q \in Publishers : q # p => thread'[q].at \in {"idle", "token"}
    BY <1>10
    DEF UndoMeta, Goto, Rest, StageMember, IInv, TypeOK, ThreadsOK, OneHolder, Idle
  <2>2. ~Idle(p) /\ thread[p].at = "undoMeta" /\ thread'[p].at = "failed"
    BY <1>10 DEF UndoMeta, Goto, Idle, IInv, TypeOK, ThreadsOK
  <2> QED
    BY <1>10, <2>1, <2>2, RestoreFacts
    DEF UndoMeta, Undoable, Kept, At, Idle, IInv, TypeOK, Members
<1>11. ASSUME NEW p \in Publishers, Commit(p) PROVE Undoable'
  BY <1>11
  DEF Commit, history, Rest, NotWatching, IInv, TypeOK, ThreadsOK, OneHolder,
      Undoable, Kept, At, Idle
<1>12. ASSUME NEW p \in Publishers, Release(p) PROVE Undoable'
  BY <1>12
  DEF Release, files, memory, history, Rest, NotWatching, IInv, TypeOK,
      ThreadsOK, OneHolder, Undoable, Kept, At, Idle
<1>13. CASE Use
  BY <1>13
  DEF Use, files, history, IInv, TypeOK, ThreadsOK, OneHolder, Undoable, Kept,
      At, Idle
<1>14. CASE Probe
  BY <1>14
  DEF Probe, files, history, IInv, TypeOK, ThreadsOK, OneHolder, Undoable,
      Kept, At, Idle
<1>15. CASE ProbeUnlocked
  BY <1>15
  DEF ProbeUnlocked, files, history, IInv, TypeOK, ThreadsOK, OneHolder,
      Undoable, Kept, At, Idle
<1>16. CASE Remember
  BY <1>16
  DEF Remember, files, history, IInv, TypeOK, ThreadsOK, OneHolder, Undoable,
      Kept, At, Idle
<1>17. CASE Remove
  BY <1>17
  DEF Remove, files, memory, IInv, TypeOK, ThreadsOK, OneHolder, Undoable,
      Kept, At, Idle
<1>18. CASE Add
  BY <1>18
  DEF Add, files, memory, history, IInv, TypeOK, ThreadsOK, OneHolder,
      Undoable, Kept, At, Idle
<1>19. CASE Void
  BY <1>19
  DEF Void, files, IInv, TypeOK, ThreadsOK, OneHolder, Undoable, Kept, At, Idle
<1>20. CASE EraseMemo
  BY <1>20
  DEF EraseMemo, files, history, IInv, TypeOK, ThreadsOK, OneHolder, Undoable,
      Kept, At, Idle
<1>21. CASE Quarantine
  BY <1>21
  DEF Quarantine, Moved, history, IInv, TypeOK, ThreadsOK, OneHolder, Undoable,
      Kept, At, Idle, MutexFree, LockFree, Publishing
<1>22. CASE Crash
  BY <1>22
  DEF Crash, Moved, IInv, TypeOK, ThreadsOK, OneHolder, Undoable, Kept, At,
      Idle
<1>23. CASE UNCHANGED vars
  BY <1>23
  DEF vars, files, memory, history, IInv, TypeOK, ThreadsOK, OneHolder,
      Undoable, Kept, At, Idle
<1> QED
  BY <1>1, <1>2, <1>3, <1>4, <1>5, <1>6, <1>7, <1>8, <1>9, <1>10, <1>11, <1>12,
     <1>13, <1>14, <1>15, <1>16, <1>17, <1>18, <1>19, <1>20, <1>21, <1>22,
     <1>23
  DEF Next, PublishStep

\* The initial state and every step satisfy the whole invariant.
THEOREM Invariant == CacheAssumption /\ Spec => []IInv
<1> SUFFICES ASSUME CacheAssumption PROVE Spec => []IInv
  OBVIOUS
<1>1. Init => IInv
  <2> SUFFICES ASSUME Init PROVE IInv
    OBVIOUS
  <2>1. \A p \in Publishers : thread[p] = [at |-> "idle", n |-> 0]
    BY DEF Init
  <2>2. FilesOK
    <3>1. NoContent \in Content
      BY DEF NoContent, Content, CacheAssumption
    <3> QED
      BY <3>1, Constants DEF Init, FilesOK
  <2>3. ThreadsOK
    BY Constants DEF Init, ThreadsOK, Places
  <2>4. MemoryOK
    <3>1. /\ generation \in 0 .. removals /\ removals \in 0 .. MaxRemovals
          /\ crashes \in 0 .. MaxCrashes /\ begun \in Numbers
      BY Constants DEF Init, CacheAssumption
    <3>2. /\ memo \in Answers \cup {Unknown} /\ void \subseteq 1 .. begun
          /\ probe \in [at : {"idle", "found"}, answer : Answers \cup {Unknown}]
      BY DEF Init, NoProbe
    <3> QED
      BY <3>1, <3>2 DEF Init, MemoryOK
  <2>5. OneHolder
    BY <2>1 DEF Init, OneHolder, Idle, NoProbe
  <2> QED
    BY <2>1, <2>2, <2>3, <2>4, <2>5
    DEF Init, IInv, TypeOK, Tokens, InForce, Written, Shown, Undoable, Idle,
        At, NoTx
<1>2. IInv /\ [Next]_vars => IInv'
  BY FilesStep, ThreadsStep, MemoryStep, HolderStep, TokensStep, InForceStep,
     WrittenStep, ShownStep, UndoableStep DEF IInv, TypeOK
<1> QED
  BY <1>1, <1>2, PTL DEF Spec

\* One publication at a time holds the locks, and the variables keep their
\* types.
THEOREM TypesHold == CacheAssumption /\ Spec => []TypeOK
<1>1. IInv => TypeOK
  BY DEF IInv
<1> QED
  BY <1>1, Invariant, PTL

\* A publication that fails without saying that it could not restore has
\* changed none of the three files (cache_pair.hpp, publish).
THEOREM FailedKeepsPreviousHolds ==
  CacheAssumption /\ Spec => []FailedKeepsPrevious
<1>1. IInv => FailedKeepsPrevious
  <2> SUFFICES ASSUME IInv, NEW p \in Publishers,
                      thread[p].at = "failed", ~tx.broken
               PROVE  Triple = tx.before
    BY DEF FailedKeepsPrevious
  <2>1. tx.before \in Numbers \X Numbers \X BOOLEAN
    BY DEF IInv, TypeOK, ThreadsOK, Transaction
  <2>2. /\ disk["buffer"] = tx.before[1] /\ disk["meta"] = tx.before[2]
        /\ marker = tx.before[3]
    BY DEF IInv, Undoable, At, Idle
  <2> QED
    BY <2>1, <2>2 DEF Triple
<1> QED
  BY <1>1, Invariant, PTL

\* Nothing published, or about to be, when the app was removed is read again
\* (appinfo_provision.cpp, forgetAppImpl and persistBuffer).
THEOREM RemovedStaysHiddenHolds ==
  CacheAssumption /\ Spec => []RemovedStaysHidden
<1>1. IInv => RemovedStaysHidden
  BY DEF IInv, Shown, Members, RemovedStaysHidden, Accepts, MarkerAllows
<1> QED
  BY <1>1, Invariant, PTL

-----------------------------------------------------------------------------
(***************************************************************************)
(* What the memo calls fresh.  A publication under way may make it stale;  *)
(* then it still describes the pair that a failure puts back.              *)
(***************************************************************************)

\* Every number in use is that of a publication begun.
Known ==
  /\ \A m \in Members : disk[m] \in 0 .. begun /\ aside[m] \in 0 .. begun
  /\ tx.before[2] \in 0 .. begun

\* The marker of a publication that commits agrees with it.
Marked ==
  \A p \in Publishers : At(p, {"commit"}) =>
    marker = content[thread[p].n].synthetic

\* A pair judged valid is of one publication.
Matching ==
  judged = "valid" => disk["buffer"] # 0 /\ disk["buffer"] = disk["meta"]

\* While an app is being forgotten it can be neither read nor published.
Forgotten ==
  /\ watcher # "idle" => ~managed
  /\ watcher \in {"erase", "quarantine"} =>
       /\ hidden
       /\ \A p \in Publishers : /\ Idle(p)
                                /\ At(p, {"token"}) => ~Allowed(content[thread[p].n])

HonestAbout(t) == memo.ready = "fresh" => Whole(t) /\ memo.change = t[2]

Honest ==
  ~hidden /\ ~tx.damaged => HonestAbout(IF Publishing THEN tx.before ELSE Triple)

\* What a probe has found is still so when it remembers it.
Found ==
  probe.at = "found" /\ probe.answer.ready = "fresh" /\ ~hidden =>
    Whole(Triple) /\ probe.answer.change = disk["meta"]

Reported == tx.broken => tx.damaged

Honesty ==
  Known /\ Marked /\ Matching /\ Forgotten /\ Honest /\ Found /\ Reported

\* The steps between the beginning of a publication and its end.
Inner(p) ==
  \/ StageBuffer(p) \/ StageMeta(p) \/ WriteBuffer(p) \/ WriteMeta(p)
  \/ SetMarker(p) \/ ResetMarker(p) \/ UndoBuffer(p) \/ UndoMeta(p)

LEMMA GotoFacts ==
  ASSUME ThreadsOK, NEW p \in Publishers, NEW place, Goto(p, place)
  PROVE  /\ thread'[p].at = place /\ thread'[p].n = thread[p].n
         /\ \A q \in Publishers : q # p => thread'[q] = thread[q]
BY DEF Goto, ThreadsOK

LEMMA RestFacts ==
  ASSUME ThreadsOK, NEW p \in Publishers, Rest(p)
  PROVE  /\ thread'[p].at = "idle"
         /\ \A q \in Publishers : q # p => thread'[q] = thread[q]
BY DEF Rest, ThreadsOK

LEMMA InnerThread ==
  ASSUME ThreadsOK, NEW p \in Publishers, Inner(p)
  PROVE  /\ ~Idle(p) /\ ~Idle(p)' /\ thread'[p].n = thread[p].n
         /\ \A q \in Publishers : q # p => thread'[q] = thread[q]
<1>1. PICK place \in Places \ {"idle", "token"} : Goto(p, place)
  BY DEF Inner, StageBuffer, StageMeta, StageMember, WriteBuffer, WriteMeta,
         WriteMember, SetMarker, ResetMarker, UndoBuffer, UndoMeta, Places
<1>2. ~Idle(p)
  BY DEF Inner, StageBuffer, StageMeta, WriteBuffer, WriteMeta, SetMarker,
         ResetMarker, UndoBuffer, UndoMeta, Idle
<1> QED
  BY <1>1, <1>2, GotoFacts DEF Idle

LEMMA InnerKeeps ==
  ASSUME NEW p \in Publishers, Inner(p)
  PROVE  UNCHANGED <<generation, hidden, memo, content, begun, managed, watcher, probe>>
<1>1. CASE StageBuffer(p) \/ StageMeta(p)
  BY <1>1 DEF StageBuffer, StageMeta, history, NotWatching
<1>2. CASE WriteBuffer(p) \/ WriteMeta(p)
  BY <1>2 DEF WriteBuffer, WriteMeta, WriteMember, history, NotWatching
<1>3. CASE SetMarker(p) \/ ResetMarker(p)
  BY <1>3 DEF SetMarker, ResetMarker, memory, history, NotWatching
<1>4. CASE UndoBuffer(p) \/ UndoMeta(p)
  BY <1>4 DEF UndoBuffer, UndoMeta, history, NotWatching
<1> QED
  BY <1>1, <1>2, <1>3, <1>4 DEF Inner

LEMMA InnerTx ==
  ASSUME ThreadsOK, NEW p \in Publishers, Inner(p)
  PROVE  /\ tx'.before = tx.before /\ (tx.damaged => tx'.damaged)
         /\ tx'.broken => tx'.damaged \/ (tx.broken /\ tx'.damaged = tx.damaged)
<1>0. tx \in Transaction
  BY DEF ThreadsOK
<1>1. ASSUME tx' = [tx EXCEPT !.broken = TRUE, !.damaged = TRUE]
      PROVE  tx'.before = tx.before /\ tx'.damaged
  BY <1>0, <1>1 DEF Transaction
<1>2. ASSUME NEW m, NEW b, tx' = [tx EXCEPT !.staged[m] = b]
      PROVE  tx'.before = tx.before /\ tx'.broken = tx.broken /\ tx'.damaged = tx.damaged
  BY <1>0, <1>2 DEF Transaction
<1>3. \/ tx' = tx \/ tx' = [tx EXCEPT !.broken = TRUE, !.damaged = TRUE]
      \/ \E m, b : tx' = [tx EXCEPT !.staged[m] = b]
  <2>1. CASE StageBuffer(p) \/ StageMeta(p)
    BY <2>1 DEF StageBuffer, StageMeta, StageMember, RestoreMember
  <2>2. CASE WriteBuffer(p) \/ WriteMeta(p) \/ SetMarker(p) \/ ResetMarker(p)
    BY <2>2 DEF WriteBuffer, WriteMeta, WriteMember, SetMarker, ResetMarker
  <2>3. CASE UndoBuffer(p) \/ UndoMeta(p)
    BY <2>3 DEF UndoBuffer, UndoMeta, RestoreMember
  <2> QED
    BY <2>1, <2>2, <2>3 DEF Inner
<1> QED
  BY <1>1, <1>2, <1>3

LEMMA InnerFiles ==
  ASSUME FilesOK, NEW p \in Publishers, Inner(p)
  PROVE  /\ \A m \in Members : /\ disk'[m] \in {disk[m], aside[m], 0, thread[p].n}
                               /\ aside'[m] \in {aside[m], disk[m], 0}
         /\ judged' = "unknown" \/ (judged' = judged /\ disk' = disk)
<1>1. ASSUME NEW m \in Members, NEW next, StageMember(p, m, next)
      PROVE  /\ \A o \in Members : /\ disk'[o] = disk[o]
                                   /\ aside'[o] \in {aside[o], disk[o], 0}
             /\ judged' = judged /\ disk' = disk
  BY <1>1 DEF StageMember, FilesOK
<1>2. ASSUME NEW m \in Members, RestoreMember(m)
      PROVE  /\ \A o \in Members : /\ disk'[o] \in {disk[o], aside[o], 0}
                                   /\ aside'[o] \in {aside[o], 0}
             /\ judged' = "unknown" \/ (judged' = judged /\ disk' = disk)
  BY <1>2 DEF RestoreMember, FilesOK
<1>3. ASSUME NEW m \in Members, NEW next, WriteMember(p, m, next)
      PROVE  /\ \A o \in Members : disk'[o] \in {disk[o], thread[p].n}
             /\ aside' = aside
             /\ judged' = "unknown" \/ (judged' = judged /\ disk' = disk)
  BY <1>3 DEF WriteMember, FilesOK
<1>4. CASE StageBuffer(p) \/ StageMeta(p)
  BY <1>1, <1>2, <1>4 DEF StageBuffer, StageMeta, Members, files
<1>5. CASE WriteBuffer(p) \/ WriteMeta(p)
  BY <1>3, <1>5 DEF WriteBuffer, WriteMeta, Members
<1>6. CASE SetMarker(p) \/ ResetMarker(p)
  BY <1>6 DEF SetMarker, ResetMarker, memory
<1>7. CASE UndoBuffer(p) \/ UndoMeta(p)
  BY <1>2, <1>7 DEF UndoBuffer, UndoMeta, Members
<1> QED
  BY <1>4, <1>5, <1>6, <1>7 DEF Inner

LEMMA InnerMarks ==
  ASSUME ThreadsOK, NEW p \in Publishers, Inner(p), thread'[p].at = "commit"
  PROVE  marker' = content[thread[p].n].synthetic
<1>1. ASSUME NEW place, Goto(p, place) PROVE place = "commit"
  BY <1>1, GotoFacts
<1>2. ~StageBuffer(p) /\ ~StageMeta(p)
  BY <1>1 DEF StageBuffer, StageMeta, StageMember
<1>3. ~WriteBuffer(p) /\ ~WriteMeta(p)
  BY <1>1 DEF WriteBuffer, WriteMeta, WriteMember
<1>4. ~ResetMarker(p) /\ ~UndoBuffer(p) /\ ~UndoMeta(p)
  BY <1>1 DEF ResetMarker, UndoBuffer, UndoMeta
<1>5. SetMarker(p)
  BY <1>2, <1>3, <1>4 DEF Inner
<1> QED
  BY <1>1, <1>5 DEF SetMarker

\* While somebody publishes the memo is about the pair there was before.
LEMMA HonestWhile ==
  /\ Publishing => (Honest <=> (~hidden /\ ~tx.damaged => HonestAbout(tx.before)))
  /\ ~Publishing => (Honest <=> (~hidden /\ ~tx.damaged => HonestAbout(Triple)))
BY DEF Honest

\* A token takes a number nothing refers to yet.
LEMMA TokenHonest ==
  ASSUME CacheAssumption, IInv, Honesty, NEW p \in Publishers, Token(p)
  PROVE  Honesty'
<1>1. UNCHANGED <<disk, marker, aside, generation, hidden, judged, memo, tx, managed, watcher, probe>>
  BY DEF Token, files, memory, NotWatching
<1>2. begun' = begun + 1 /\ begun \in Nat /\ begun' \in Numbers
  BY DEF Token, IInv, TypeOK, MemoryOK, CacheAssumption, Numbers
<1>3. /\ \A k \in 0 .. begun : content'[k] = content[k]
      /\ content'[begun'].managed = managed
  BY <1>2 DEF Token, IInv, TypeOK, FilesOK, CacheAssumption, Numbers
<1>4. /\ thread[p].at = "idle" /\ thread'[p] = [at |-> "token", n |-> begun']
      /\ \A q \in Publishers : q # p => thread'[q] = thread[q]
  BY DEF Token, IInv, TypeOK, ThreadsOK
<1>5. \A q \in Publishers : Idle(q)' <=> Idle(q)
  BY <1>4 DEF Idle
<1>6. Publishing' <=> Publishing
  BY <1>5 DEF Publishing
<1>7. \A q \in Publishers : thread[q].at # "idle" => thread[q].n \in 0 .. begun
  BY <1>2 DEF IInv, Tokens
<1>8. disk["meta"] \in 0 .. begun /\ tx.before[2] \in 0 .. begun
  BY DEF Honesty, Known, Members
<1>9. Known'
  BY <1>1, <1>2 DEF Honesty, Known
<1>10. Marked'
  BY <1>1, <1>3, <1>4, <1>7 DEF Honesty, Marked, At
<1>11. Matching' /\ Reported'
  BY <1>1 DEF Honesty, Matching, Reported
<1>12. Forgotten'
  <2>1. \A q \in Publishers : At(q, {"token"})' /\ watcher \in {"erase", "quarantine"}
          => ~Allowed(content[thread[q].n])'
    BY <1>1, <1>3, <1>4, <1>7 DEF Honesty, Forgotten, At, Allowed
  <2> QED
    BY <2>1, <1>1, <1>5 DEF Honesty, Forgotten
<1>13. Whole(Triple)' <=> Whole(Triple)
  BY <1>1, <1>3, <1>8 DEF Whole, Triple
<1>14. Whole(tx.before)' <=> Whole(tx.before)
  BY <1>1, <1>3, <1>8 DEF Whole
<1>15. Honest'
  BY <1>1, <1>6, <1>13, <1>14 DEF Honesty, Honest, HonestAbout, Triple
<1>16. Found'
  BY <1>1, <1>13 DEF Honesty, Found
<1> QED
  BY <1>9, <1>10, <1>11, <1>12, <1>15, <1>16 DEF Honesty

\* From its beginning to its end a publication leaves alone what it has found.
LEMMA InnerHonest ==
  ASSUME CacheAssumption, IInv, Honesty, NEW p \in Publishers, Inner(p)
  PROVE  Honesty'
<1>1. FilesOK /\ ThreadsOK /\ OneHolder
  BY DEF IInv, TypeOK
<1>2. UNCHANGED <<generation, hidden, memo, content, begun, managed, watcher, probe>>
  BY InnerKeeps
<1>3. /\ ~Idle(p) /\ ~Idle(p)' /\ thread'[p].n = thread[p].n
      /\ \A q \in Publishers : q # p => thread'[q] = thread[q]
  BY <1>1, InnerThread
<1>4. Publishing /\ Publishing'
  BY <1>3 DEF Publishing
<1>5. /\ tx'.before = tx.before /\ (tx.damaged => tx'.damaged)
      /\ tx'.broken => tx'.damaged \/ (tx.broken /\ tx'.damaged = tx.damaged)
  BY <1>1, InnerTx
<1>6. thread[p].n \in 1 .. begun /\ 0 \in 0 .. begun
  <2>1. begun \in Nat
    BY DEF IInv, TypeOK, MemoryOK, CacheAssumption, Numbers
  <2> QED
    BY <1>3, <2>1 DEF IInv, Tokens, Idle
<1>7. Known'
  <2>1. \A m \in Members : /\ disk'[m] \in {disk[m], aside[m], 0, thread[p].n}
                           /\ aside'[m] \in {aside[m], disk[m], 0}
    BY <1>1, InnerFiles
  <2>2. thread[p].n \in 0 .. begun
    BY <1>6
  <2> QED
    BY <1>2, <1>5, <1>6, <2>1, <2>2 DEF Honesty, Known
<1>8. Marked'
  <2>1. \A q \in Publishers : q # p => ~At(q, {"commit"})'
    BY <1>1, <1>3 DEF OneHolder, Idle, At
  <2>2. At(p, {"commit"})' => marker' = content'[thread'[p].n].synthetic
    BY <1>1, <1>2, <1>3, InnerMarks DEF At
  <2> QED
    BY <2>1, <2>2 DEF Marked
<1>9. Matching'
  <2>1. judged' = "unknown" \/ (judged' = judged /\ disk' = disk)
    BY <1>1, InnerFiles
  <2> QED
    BY <2>1 DEF Honesty, Matching
<1>10. Forgotten'
  BY <1>2, <1>3 DEF Honesty, Forgotten
<1>11. Honest'
  BY <1>2, <1>4, <1>5 DEF Honesty, Honest, HonestAbout, Whole
<1>12. Found'
  BY <1>1, <1>2, <1>4 DEF Found, OneHolder
<1>13. Reported'
  BY <1>5 DEF Honesty, Reported
<1> QED
  BY <1>7, <1>8, <1>9, <1>10, <1>11, <1>12, <1>13 DEF Honesty

\* What is on disk stays of one publication each, whoever rests.
LEMMA BeginHonest ==
  ASSUME IInv, Honesty, NEW p \in Publishers, Begin(p)
  PROVE  Honesty'
<1>1. UNCHANGED <<disk, marker, aside, generation, hidden, judged, memo, content, begun, managed, watcher, probe>>
  BY DEF Begin, files, memory, history, NotWatching
<1>2. /\ thread[p].at = "token"
      /\ \A q \in Publishers : q # p => thread'[q] = thread[q]
      /\ MutexFree
  BY BeginFacts DEF LockFree, MutexFree
<1>3. ~Publishing /\ \A q \in Publishers : Idle(q)
  BY <1>2 DEF MutexFree, Publishing
<1>4. Matching'
  BY <1>1 DEF Honesty, Matching
<1>5. Found'
  BY <1>1 DEF Honesty, Found, Triple, Whole
<1>6. CASE /\ LockFree /\ Allowed(content[thread[p].n])
           /\ thread'[p] = [thread[p] EXCEPT !.at = "stage"]
           /\ tx' = [Done EXCEPT !.markerBefore = marker, !.before = Triple]
  <2>1. tx'.before = Triple /\ tx'.damaged = tx.damaged /\ ~tx'.broken
    BY <1>6 DEF Done, NoTx
  <2>2. thread'[p].at = "stage"
    BY <1>6 DEF IInv, TypeOK, ThreadsOK
  <2>3. Publishing'
    BY <2>2 DEF Publishing, Idle
  <2>4. Known'
    BY <1>1, <2>1 DEF Honesty, Known, Triple, Members
  <2>5. Marked'
    BY <1>1, <1>2, <2>2 DEF Honesty, Marked, At
  <2>6. Forgotten'
    BY <1>1, <1>2, <1>6 DEF Honesty, Forgotten, At, Allowed
  <2>7. Honest'
    BY <1>1, <1>3, <2>1, <2>3 DEF Honesty, Honest, HonestAbout, Whole
  <2>8. Reported'
    BY <2>1 DEF Reported
  <2> QED
    BY <1>4, <1>5, <2>4, <2>5, <2>6, <2>7, <2>8 DEF Honesty
<1>7. CASE thread'[p].at = "idle" /\ tx' = tx
  <2>1. ~Publishing'
    BY <1>2, <1>3, <1>7 DEF Publishing, Idle
  <2>2. Known' /\ Reported'
    BY <1>1, <1>7 DEF Honesty, Known, Reported
  <2>3. Marked'
    BY <1>1, <1>2, <1>7 DEF Honesty, Marked, At
  <2>4. Forgotten'
    BY <1>1, <1>2, <1>3, <1>7 DEF Honesty, Forgotten, At, Allowed, Idle
  <2>5. Honest'
    BY <1>1, <1>3, <1>7, <2>1 DEF Honesty, Honest, HonestAbout, Whole, Triple
  <2> QED
    BY <1>4, <1>5, <2>2, <2>3, <2>4, <2>5 DEF Honesty
<1>8. Rest(p) => thread'[p].at = "idle"
  BY RestFacts DEF IInv, TypeOK
<1>9. \/ /\ LockFree /\ Allowed(content[thread[p].n]) /\ Goto(p, "stage")
         /\ tx' = [Done EXCEPT !.markerBefore = marker, !.before = Triple]
      \/ Rest(p) /\ tx' = tx
  BY DEF Begin
<1>10. Goto(p, "stage") => thread'[p] = [thread[p] EXCEPT !.at = "stage"]
  BY DEF Goto, IInv, TypeOK, ThreadsOK
<1> QED
  BY <1>6, <1>7, <1>8, <1>9, <1>10

\* What is committed is whole, and the memo says so.
LEMMA CommitHonest ==
  ASSUME CacheAssumption, IInv, Honesty, NEW p \in Publishers, Commit(p)
  PROVE  Honesty'
<1>1. /\ thread[p].at = "commit" /\ tx' = NoTx
      /\ UNCHANGED <<disk, marker, content, begun, managed, watcher, probe>>
  BY DEF Commit, history, NotWatching
<1>2. /\ thread'[p].at = "idle"
      /\ \A q \in Publishers : q # p => thread'[q] = thread[q]
  BY RestFacts DEF Commit, IInv, TypeOK
<1>3. /\ ~Idle(p) /\ Publishing /\ probe.at = "idle"
      /\ \A q \in Publishers : q # p => Idle(q)
  BY <1>1 DEF Idle, Publishing, IInv, TypeOK, OneHolder
<1>4. ~Publishing'
  BY <1>2, <1>3 DEF Publishing, Idle
<1>5. begun \in Nat /\ thread[p].n \in 1 .. begun
  BY <1>1 DEF IInv, Tokens, TypeOK, MemoryOK, CacheAssumption, Numbers
<1>6. disk["buffer"] = thread[p].n /\ disk["meta"] = thread[p].n
  BY <1>1 DEF IInv, Written, At
<1>7. Whole(Triple)
  <2>1. marker = content[thread[p].n].synthetic
    BY <1>1 DEF Honesty, Marked, At
  <2> QED
    BY <1>5, <1>6, <2>1 DEF Whole, Triple
<1>8. judged' = "valid" /\ memo' = Fresh(disk["meta"])
  BY <1>7 DEF Commit
<1>9. Known'
  <2>1. \A m \in Members : aside'[m] \in {aside[m], 0}
    BY DEF Commit
  <2>2. NoTx.before[2] = 0 /\ 0 \in 0 .. begun
    BY <1>5 DEF NoTx
  <2> QED
    BY <1>1, <2>1, <2>2 DEF Honesty, Known
<1>10. Marked'
  BY <1>2, <1>3 DEF Marked, At, Idle
<1>11. Matching'
  BY <1>1, <1>5, <1>6 DEF Matching
<1>12. Forgotten'
  BY <1>1, <1>3 DEF Honesty, Forgotten
<1>13. Honest'
  BY <1>1, <1>4, <1>7, <1>8 DEF Honest, HonestAbout, Whole, Triple, Fresh
<1>14. Found' /\ Reported'
  BY <1>1, <1>3 DEF Found, Reported, NoTx
<1> QED
  BY <1>9, <1>10, <1>11, <1>12, <1>13, <1>14 DEF Honesty

\* A publication that fails silently has put back what the memo describes.
LEMMA ReleaseHonest ==
  ASSUME CacheAssumption, IInv, Honesty, NEW p \in Publishers, Release(p)
  PROVE  Honesty'
<1>1. /\ thread[p].at = "failed" /\ tx' = Done
      /\ UNCHANGED <<disk, marker, aside, generation, hidden, judged, memo,
                     content, begun, managed, watcher, probe>>
  BY DEF Release, files, memory, history, NotWatching
<1>2. /\ thread'[p].at = "idle"
      /\ \A q \in Publishers : q # p => thread'[q] = thread[q]
  BY RestFacts DEF Release, IInv, TypeOK
<1>3. /\ ~Idle(p) /\ Publishing /\ probe.at = "idle"
      /\ \A q \in Publishers : q # p => Idle(q)
  BY <1>1 DEF Idle, Publishing, IInv, TypeOK, OneHolder
<1>4. ~Publishing'
  BY <1>2, <1>3 DEF Publishing, Idle
<1>5. tx'.damaged = tx.damaged /\ ~tx'.broken /\ tx'.before[2] = 0
  BY <1>1 DEF Done, NoTx
<1>6. Known'
  <2>1. 0 \in 0 .. begun
    BY DEF IInv, TypeOK, MemoryOK, CacheAssumption, Numbers
  <2> QED
    BY <1>1, <1>5, <2>1 DEF Honesty, Known
<1>7. Marked'
  BY <1>2, <1>3 DEF Marked, At, Idle
<1>8. Matching' /\ Found' /\ Reported'
  BY <1>1, <1>3, <1>5 DEF Honesty, Matching, Found, Reported
<1>9. Forgotten'
  BY <1>1, <1>3 DEF Honesty, Forgotten
<1>10. Honest'
  <2>1. ~tx.damaged => Triple = tx.before
    <3>1. tx.before \in Numbers \X Numbers \X BOOLEAN
      BY DEF IInv, TypeOK, ThreadsOK, Transaction
    <3>2. ~tx.damaged =>
            /\ disk["buffer"] = tx.before[1] /\ disk["meta"] = tx.before[2]
            /\ marker = tx.before[3]
      BY <1>1, <1>3 DEF IInv, Undoable, At, Honesty, Reported
    <3> QED
      BY <3>1, <3>2 DEF Triple
  <2> QED
    BY <1>1, <1>3, <1>4, <1>5, <2>1
    DEF Honesty, Honest, HonestAbout, Whole, Triple
<1> QED
  BY <1>6, <1>7, <1>8, <1>9, <1>10 DEF Honesty

\* Readers and probes: what they judge valid is of one publication, and what a
\* probe calls fresh is whole.
LEMMA ReaderHonest ==
  ASSUME IInv, Honesty, Use \/ Probe \/ ProbeUnlocked \/ Remember
  PROVE  Honesty'
<1>1. UNCHANGED <<disk, marker, aside, generation, hidden, content, begun,
                  managed, watcher, thread, tx>>
  BY DEF Use, Probe, ProbeUnlocked, Remember, files, history
<1>2. Known' /\ Marked' /\ Forgotten' /\ Reported'
  BY <1>1
  DEF Honesty, Known, Marked, Forgotten, Reported, At, Allowed, Idle
<1>3. Publishing' <=> Publishing
  BY <1>1 DEF Publishing, Idle
<1>4. Whole(Triple)' <=> Whole(Triple)
  BY <1>1 DEF Whole, Triple
<1>5. Judged = "valid" =>
        disk["buffer"] # 0 /\ disk["buffer"] = disk["meta"]
  BY DEF Judged, Valid, Whole, Triple, Honesty, Matching
<1>6. CASE Use
  <2>1. Matching'
    BY <1>1, <1>5, <1>6 DEF Use, Matching
  <2>2. memo' = memo /\ probe' = probe
    BY <1>6 DEF Use
  <2>3. Honest' /\ Found'
    BY <1>1, <1>3, <1>4, <2>2
    DEF Honesty, Honest, Found, HonestAbout, Whole, Triple
  <2> QED
    BY <1>2, <2>1, <2>3 DEF Honesty
<1>7. CASE Probe
  <2>1. Matching'
    BY <1>1, <1>5, <1>7 DEF Probe, Honesty, Matching
  <2>2. memo' = memo
    BY <1>7 DEF Probe
  <2>3. Honest'
    BY <1>1, <1>3, <1>4, <2>2
    DEF Honesty, Honest, HonestAbout, Whole, Triple
  <2>4. Accepts => Whole(Triple)
    BY <1>5 DEF Accepts, MarkerAllows, Whole, Triple
  <2>5. probe'.answer.ready = "fresh" =>
          Accepts /\ probe'.answer.change = disk["meta"]
    BY <1>7 DEF Probe, Missing, Invalid, Fresh
  <2>6. Found'
    BY <1>1, <1>4, <2>4, <2>5 DEF Found
  <2> QED
    BY <1>2, <2>1, <2>3, <2>6 DEF Honesty
<1>8. CASE ProbeUnlocked
  <2>1. judged' = judged /\ probe' = probe /\ memo'.ready # "fresh"
    BY <1>8 DEF ProbeUnlocked, Invalid
  <2>2. Matching' /\ Found' /\ Honest'
    BY <1>1, <1>4, <2>1
    DEF Honesty, Matching, Found, Honest, HonestAbout
  <2> QED
    BY <1>2, <2>2 DEF Honesty
<1>9. CASE Remember
  <2>1. /\ judged' = judged /\ probe' = NoProbe
        /\ probe.at = "found" /\ memo' = probe.answer
    BY <1>9 DEF Remember
  <2>2. ~Publishing
    BY <2>1 DEF IInv, TypeOK, OneHolder
  <2>3. Matching' /\ Found'
    BY <1>1, <2>1 DEF Honesty, Matching, Found, NoProbe
  <2>4. Honest'
    BY <1>1, <1>3, <1>4, <2>1, <2>2
    DEF Honesty, Honest, HonestAbout, Found, Triple
  <2> QED
    BY <1>2, <2>3, <2>4 DEF Honesty
<1> QED
  BY <1>6, <1>7, <1>8, <1>9

\* A removal refuses reads before it erases the memo, and no publication
\* begins until it is over.
LEMMA RemovalHonest ==
  ASSUME CacheAssumption, IInv, Honesty,
         Remove \/ Add \/ Void \/ EraseMemo \/ Quarantine
  PROVE  Honesty'
<1>1. UNCHANGED <<aside, content, begun, thread, tx, probe>>
  BY DEF Remove, Add, Void, EraseMemo, Quarantine, files, history
<1>2. Publishing' <=> Publishing
  BY <1>1 DEF Publishing, Idle
<1>3. CASE Remove \/ Add
  <2>1. UNCHANGED <<disk, marker, generation, hidden, judged, memo>>
    BY <1>3 DEF Remove, Add, files, memory
  <2>2. /\ watcher = "idle" /\ watcher' \in {"idle", "void"}
        /\ watcher' = "void" => ~managed'
    BY <1>3 DEF Remove, Add
  <2>3. Whole(Triple)' <=> Whole(Triple)
    BY <1>1, <2>1 DEF Whole, Triple
  <2>4. Known' /\ Marked' /\ Matching' /\ Found' /\ Reported'
    BY <1>1, <2>1, <2>3
    DEF Honesty, Known, Marked, At, Matching, Found, Reported
  <2>5. Forgotten'
    BY <2>2 DEF Forgotten
  <2>6. Honest'
    BY <1>1, <1>2, <2>1, <2>3
    DEF Honesty, Honest, HonestAbout, Whole, Triple
  <2> QED
    BY <2>4, <2>5, <2>6 DEF Honesty
<1>4. CASE Void
  <2>1. /\ watcher = "void" /\ ~Publishing /\ watcher' = "erase"
        /\ generation' = generation + 1 /\ hidden' = TRUE
        /\ UNCHANGED <<disk, marker, judged, memo, managed>>
    BY <1>4 DEF Void, MutexFree, files
  <2>2. Known' /\ Marked' /\ Matching' /\ Reported'
    BY <1>1, <2>1 DEF Honesty, Known, Marked, At, Matching, Reported
  <2>3. Found' /\ Honest'
    BY <2>1 DEF Found, Honest
  <2>4. Forgotten'
    <3>1. generation \in Nat
      BY DEF IInv, TypeOK, MemoryOK
    <3>2. ASSUME NEW q \in Publishers, At(q, {"token"})
          PROVE  content[thread[q].n].generation # generation + 1
      <4>1. thread[q].n \in 1 .. begun
        BY <3>2 DEF IInv, Tokens, At
      <4>2. thread[q].n \in Numbers
        BY <4>1 DEF IInv, TypeOK, MemoryOK, CacheAssumption, Numbers
      <4>3. content[thread[q].n].generation \in Nat
        BY <4>2 DEF IInv, TypeOK, FilesOK, Content
      <4> QED
        BY <3>1, <3>2, <4>3 DEF IInv, Tokens, At
    <3>3. \A q \in Publishers : Idle(q)
      BY <2>1 DEF Publishing
    <3>4. ~managed
      BY <2>1 DEF Honesty, Forgotten
    <3> QED
      BY <1>1, <2>1, <3>2, <3>3, <3>4 DEF Forgotten, At, Allowed, Idle
  <2> QED
    BY <2>2, <2>3, <2>4 DEF Honesty
<1>5. CASE EraseMemo \/ Quarantine
  <2>1. /\ watcher \in {"erase", "quarantine"}
        /\ watcher' \in {"idle", "quarantine"}
        /\ UNCHANGED <<generation, hidden, managed>>
    BY <1>5 DEF EraseMemo, Quarantine
  <2>2. hidden /\ hidden' /\ \A q \in Publishers : Idle(q)
    BY <2>1 DEF Honesty, Forgotten
  <2>3. /\ \A m \in Members : disk'[m] \in {disk[m], 0}
        /\ judged' = "unknown" \/ (judged' = judged /\ disk' = disk)
    <3>1. EraseMemo => disk' = disk /\ judged' = judged
      BY DEF EraseMemo, files
    <3>2. Moved => /\ \A m \in Members : disk'[m] \in {disk[m], 0}
                   /\ judged' = "unknown"
      BY DEF Moved
    <3>3. Quarantine => Moved \/ UNCHANGED <<disk, marker, judged>>
      BY DEF Quarantine
    <3> QED
      BY <1>5, <3>1, <3>2, <3>3
  <2>4. Known'
    <3>1. 0 \in 0 .. begun
      BY DEF IInv, TypeOK, MemoryOK, CacheAssumption, Numbers
    <3> QED
      BY <1>1, <2>3, <3>1 DEF Honesty, Known
  <2>5. Marked'
    BY <1>1, <2>2 DEF Marked, At, Idle
  <2>6. Matching' /\ Reported'
    BY <1>1, <2>3 DEF Honesty, Matching, Reported
  <2>7. Found' /\ Honest'
    BY <2>2 DEF Found, Honest
  <2>8. Forgotten'
    BY <1>1, <2>1, <2>2 DEF Honesty, Forgotten, At, Allowed, Idle
  <2> QED
    BY <2>4, <2>5, <2>6, <2>7, <2>8 DEF Honesty
<1> QED
  BY <1>3, <1>4, <1>5

\* A process that starts again remembers nothing.
LEMMA CrashHonest ==
  ASSUME CacheAssumption, IInv, Honesty, Crash
  PROVE  Honesty'
<1>1. /\ tx' = NoTx /\ memo' = Unknown /\ watcher' = "idle"
      /\ probe' = NoProbe /\ judged' = "unknown"
      /\ UNCHANGED <<aside, content, begun>>
      /\ \A q \in Publishers : thread'[q].at = "idle"
  BY DEF Crash, Moved
<1>2. \A m \in Members : disk'[m] \in {disk[m], 0}
  BY DEF Crash, Moved
<1>3. Known'
  <2>1. 0 \in 0 .. begun
    BY DEF IInv, TypeOK, MemoryOK, CacheAssumption, Numbers
  <2>2. tx'.before[2] = 0
    BY <1>1 DEF NoTx
  <2> QED
    BY <1>1, <1>2, <2>1, <2>2 DEF Honesty, Known
<1>4. Marked' /\ Matching' /\ Forgotten'
  BY <1>1 DEF Marked, At, Matching, Forgotten
<1>5. Honest' /\ Found' /\ Reported'
  BY <1>1 DEF Honest, HonestAbout, Found, Reported, Unknown, NoProbe, NoTx
<1> QED
  BY <1>3, <1>4, <1>5 DEF Honesty

\* Every step keeps the memo, the verdict and the probe honest.
LEMMA HonestyStep ==
  ASSUME CacheAssumption, IInv, Honesty, [Next]_vars
  PROVE  Honesty'
<1>1. ASSUME NEW p \in Publishers, PublishStep(p) PROVE Honesty'
  BY <1>1, TokenHonest, BeginHonest, InnerHonest, CommitHonest, ReleaseHonest
  DEF PublishStep, Inner
<1>2. CASE UNCHANGED vars
  <2>1. UNCHANGED <<disk, marker, aside, generation, hidden, judged, memo, content, begun,
                    thread, tx, managed, watcher, probe>>
    BY <1>2 DEF vars, files, memory, history
  <2>2. Known' /\ Marked' /\ Matching' /\ Forgotten' /\ Reported'
    BY <2>1
    DEF Honesty, Known, Marked, Matching, Forgotten, Reported, At, Allowed, Idle
  <2>3. Honest' /\ Found'
    BY <2>1
    DEF Honesty, Honest, Found, HonestAbout, Whole, Triple, Publishing, Idle
  <2> QED
    BY <2>2, <2>3 DEF Honesty
<1> QED
  BY <1>1, <1>2, ReaderHonest, RemovalHonest, CrashHonest DEF Next

\* What the memo calls fresh is on disk and whole, unless the app has been
\* removed since or a publication has failed to put the previous pair back
\* (appinfo_provision.cpp, probeCacheImpl and persistBuffer).
THEOREM MemoIsHonestHolds == CacheAssumption /\ Spec => []MemoIsHonest
<1> SUFFICES ASSUME CacheAssumption PROVE Spec => []MemoIsHonest
  OBVIOUS
<1>1. Init => Honesty
  <2> SUFFICES ASSUME Init PROVE Honesty
    OBVIOUS
  <2>1. \A p \in Publishers : thread[p].at = "idle"
    BY DEF Init
  <2>2. Known
    BY DEF Init, Known, NoTx
  <2>3. Marked /\ Matching /\ Forgotten
    BY <2>1 DEF Init, Marked, At, Matching, Forgotten
  <2>4. Honest /\ Found /\ Reported
    BY DEF Init, Honest, HonestAbout, Found, Reported, Unknown, NoProbe, NoTx
  <2> QED
    BY <2>2, <2>3, <2>4 DEF Honesty
<1>2. IInv /\ Honesty /\ [Next]_vars => Honesty'
  BY HonestyStep
<1>3. Honesty => MemoIsHonest
  BY HonestWhile DEF Honesty, MemoIsHonest, LockFree, HonestAbout, Triple
<1>4. Spec => []IInv
  BY Invariant
<1> QED
  BY <1>1, <1>2, <1>3, <1>4, PTL DEF Spec

=============================================================================
