----------------------------- MODULE CachePair -----------------------------
(***************************************************************************)
(* The cached appinfo of one app: a buffer and its metadata on disk with   *)
(* the marker of a synthetic one, published as one (src/feats/             *)
(* cache_pair.hpp, with persistBuffer of src/feats/appinfo_provision.cpp   *)
(* and persistAppBuffer of src/feats/pics.cpp), read and probed under the  *)
(* file lock, and withdrawn when the app is removed (forgetAppImpl).       *)
(*                                                                         *)
(* Each operation on a file is a step of its own and may fail, and the     *)
(* process may die between any two.  Contents are told apart by the        *)
(* publication they come from, a number, 0 for no file; the size in the    *)
(* metadata fits every buffer and only the hash tells them apart.          *)
(*                                                                         *)
(* A publication goes through: idle, token (its generation looked up),     *)
(* stage and stageMeta (copies aside), buffer, meta and mark (the writes), *)
(* commit, or unmark, undo and undoMeta (the rollback) and failed.  From   *)
(* stage on it holds the publication mutex and the file lock.              *)
(***************************************************************************)
EXTENDS Integers, FiniteSets

CONSTANTS
  Publishers,    \* the provisioning worker and the PICS worker
  MaxPublish,    \* bound: publications begun
  MaxRemovals,   \* bound: removals of the app
  MaxCrashes,    \* bound: deaths of the process
  Faults         \* what may fail: "lock", "stage", "write", "mark", "undo",
                 \* "move"

Numbers == 0 .. MaxPublish
Members == {"buffer", "meta"}

ASSUME CacheAssumption ==
  MaxPublish \in Nat /\ MaxRemovals \in Nat /\ MaxCrashes \in Nat

VARIABLES
  disk,        \* the two files
  marker,      \* whether the marker file is there
  aside,       \* the copies staged by the present publication or left by a
               \* process that died
  content,     \* what each publication is made of
  thread,      \* where each publisher stands, with its publication
  tx,          \* the locals of the publication that holds the locks, and as
               \* history whether an undo has failed since the last commit
  managed,     \* whether the app is configured
  generation,  \* g_cachePublicationGenerations
  hidden,      \* g_cacheReadInvalidated
  judged,      \* g_cacheValidationMemo, for the two files there are
  memo,        \* g_cacheProbeMemo
  watcher,     \* where the configuration watcher is in forgetApp
  probe,       \* a blocking probe between its look at the disk and its memo
  begun, removals, crashes,  \* bounds
  void         \* history: publications begun before the last removal in this
               \* process, and what was on disk then

files   == <<disk, marker, aside>>
memory  == <<generation, hidden, judged, memo>>
history == <<content, begun, removals, crashes, void>>
vars    == <<files, memory, history, thread, tx, managed, watcher, probe>>

Content == [generation : 0 .. MaxRemovals, managed : BOOLEAN,
            synthetic : BOOLEAN, normalized : BOOLEAN]
NoContent == [generation |-> 0, managed |-> FALSE, synthetic |-> FALSE,
              normalized |-> FALSE]

\* The probe's answers, with the change number of the metadata looked at.
Missing  == [ready |-> "missing", change |-> 0]
Invalid  == [ready |-> "invalid", change |-> 0]
Fresh(n) == [ready |-> "fresh", change |-> n]
Unknown  == [ready |-> "unknown", change |-> 0]
Answers  == {Missing, Invalid} \cup {Fresh(n) : n \in Numbers}
NoProbe  == [at |-> "idle", answer |-> Unknown]

NoTx == [staged |-> [m \in Members |-> FALSE], markerBefore |-> FALSE,
         before |-> <<0, 0, FALSE>>, broken |-> FALSE, damaged |-> FALSE]
Done == [NoTx EXCEPT !.damaged = tx.damaged]

Init ==
  /\ disk = [m \in Members |-> 0] /\ aside = disk /\ marker = FALSE
  /\ content = [n \in Numbers |-> NoContent]
  /\ thread = [p \in Publishers |-> [at |-> "idle", n |-> 0]]
  /\ tx = NoTx
  /\ managed = TRUE /\ generation = 0 /\ hidden = FALSE
  /\ judged = "unknown" /\ memo = Unknown
  /\ watcher = "idle" /\ probe = NoProbe
  /\ begun = 0 /\ removals = 0 /\ crashes = 0
  /\ void = {}

-----------------------------------------------------------------------------
(***************************************************************************)
(* Locks and readers.                                                      *)
(***************************************************************************)

Idle(p)    == thread[p].at \in {"idle", "token"}
Publishing == \E p \in Publishers : ~Idle(p)

\* Variant: a probe lets the lock go before it remembers.
LockFreeOfProbes == ~Publishing

\* Variant: publications keep only probes out.
LockFreeOfPublications == probe.at = "idle"

\* g_cachePublicationMu, and the file lock, which probes hold, too.
MutexFree == ~Publishing
LockFree  == ~Publishing /\ probe.at = "idle"

Triple == <<disk["buffer"], disk["meta"], marker>>

\* readValidatedCacheBufferLocked but for the invalidation: the buffer has the
\* hash the metadata names, and the marker agrees with it.
Whole(t) ==
  /\ t[1] # 0 /\ t[1] = t[2]
  /\ t[3] = content[t[2]].synthetic

\* cacheMarkerAllowsRead.
MarkerAllows ==
  /\ disk["meta"] # 0 /\ ~hidden
  /\ marker = content[disk["meta"]].synthetic

Valid == Whole(Triple) /\ ~hidden

\* What the look at a pair of files leaves in the memo, and what it says.
Judged == IF judged = "unknown" THEN (IF Valid THEN "valid" ELSE "invalid")
          ELSE judged
Present == disk["buffer"] # 0 /\ disk["meta"] # 0

Accepts == Present /\ Judged = "valid" /\ MarkerAllows

\* cacheUseForApp: a reader looks, and remembers the verdict.
Use ==
  /\ LockFree /\ Present
  /\ judged = "unknown" /\ judged' = Judged
  /\ UNCHANGED <<files, generation, hidden, memo, history, thread, tx,
                 managed, watcher, probe>>

\* probeCacheImpl under the lock, up to its verdict.
Probe ==
  /\ LockFree
  /\ probe' = [at |-> "found", answer |->
       IF disk = [m \in Members |-> 0] THEN Missing
       ELSE IF Accepts THEN Fresh(disk["meta"])
       ELSE Invalid]
  /\ judged' = IF Present THEN Judged ELSE judged
  /\ UNCHANGED <<files, generation, hidden, memo, history, thread, tx,
                 managed, watcher>>

\* probeCacheImpl that gets no lock.
ProbeUnlocked ==
  /\ "lock" \in Faults
  /\ probe.at = "idle" /\ memo # Invalid
  /\ memo' = Invalid
  /\ UNCHANGED <<files, generation, hidden, judged, history, thread, tx,
                 managed, watcher, probe>>

\* Its remember, still under the lock.
Remember ==
  /\ probe.at = "found"
  /\ memo' = probe.answer /\ probe' = NoProbe
  /\ UNCHANGED <<files, generation, hidden, judged, history, thread, tx,
                 managed, watcher>>

-----------------------------------------------------------------------------
(***************************************************************************)
(* Publishing.                                                             *)
(***************************************************************************)

Goto(p, place) == thread' = [thread EXCEPT ![p].at = place]
Rest(p)        == thread' = [thread EXCEPT ![p] = [at |-> "idle", n |-> 0]]
NotWatching    == UNCHANGED <<managed, watcher, probe>>

\* snapshotCachePublication, and the fetch of what is to be published.
Token(p) ==
  /\ thread[p].at = "idle"
  /\ begun < MaxPublish /\ begun' = begun + 1
  /\ \E kind \in [synthetic : BOOLEAN, normalized : BOOLEAN] :
       /\ kind.synthetic => kind.normalized
       /\ content' = [content EXCEPT ![begun'] =
            [generation |-> generation, managed |-> managed,
             synthetic |-> kind.synthetic, normalized |-> kind.normalized]]
  /\ thread' = [thread EXCEPT ![p] = [at |-> "token", n |-> begun']]
  /\ UNCHANGED <<files, memory, tx, removals, crashes, void>> /\ NotWatching

\* Variant: whether the app has been removed since is not asked.
AllowedOnceManaged(c) == c.managed

\* cachePublicationAllowed.
Allowed(c) == c.managed /\ c.generation = generation

\* hasNormalizedCache keeps raw PICS buffers from replacing rendered ones.
Overwrites(c) ==
  c.normalized \/ ~(Valid /\ content[disk["meta"]].normalized)

\* persistBuffer and persistAppBuffer take their locks and check; the terminal
\* verdict is erased, which may fail.
Begin(p) ==
  /\ thread[p].at = "token"
  /\ LET c == content[thread[p].n] IN
     \/ /\ LockFree
        /\ Allowed(c) /\ Overwrites(c)
        /\ Goto(p, "stage")
        /\ tx' = [Done EXCEPT !.markerBefore = marker, !.before = Triple]
     \/ /\ LockFree
        /\ ~(Allowed(c) /\ Overwrites(c)) \/ "stage" \in Faults
        /\ Rest(p) /\ UNCHANGED tx
     \/ /\ MutexFree /\ "lock" \in Faults
        /\ Rest(p) /\ UNCHANGED tx
  /\ UNCHANGED <<files, memory, history>> /\ NotWatching

\* stageMember: a copy aside, or what a dead process left there removed.
StageMember(p, m, next) ==
  /\ aside' = [aside EXCEPT ![m] = disk[m]]
  /\ tx' = [tx EXCEPT !.staged[m] = disk[m] # 0]
  /\ Goto(p, next)
  /\ UNCHANGED <<disk, marker, judged>>

StageBuffer(p) ==
  /\ thread[p].at = "stage"
  /\ \/ StageMember(p, "buffer", "stageMeta")
     \/ /\ "stage" \in Faults /\ Goto(p, "failed")
        /\ UNCHANGED <<files, judged, tx>>
  /\ UNCHANGED <<generation, hidden, memo, history>> /\ NotWatching

\* Variant: a member that was not there before stays.
RestoreStagedMember(m) ==
  \/ /\ "undo" \in Faults
     /\ tx' = [tx EXCEPT !.broken = TRUE, !.damaged = TRUE]
     /\ UNCHANGED <<disk, aside, judged>>
  \/ /\ IF tx.staged[m]
        THEN /\ disk' = [disk EXCEPT ![m] = aside[m]]
             /\ aside' = [aside EXCEPT ![m] = 0]
             /\ judged' = "unknown"
        ELSE UNCHANGED <<disk, aside, judged>>
     /\ UNCHANGED tx

\* restoreMember: the copy renamed back, or the new file removed; both make
\* other files for the validation memo.
RestoreMember(m) ==
  \/ /\ "undo" \in Faults
     /\ tx' = [tx EXCEPT !.broken = TRUE, !.damaged = TRUE]
     /\ UNCHANGED <<disk, aside, judged>>
  \/ /\ disk' = [disk EXCEPT ![m] = IF tx.staged[m] THEN aside[m] ELSE 0]
     /\ aside' = [aside EXCEPT ![m] = IF tx.staged[m] THEN 0 ELSE @]
     /\ judged' = "unknown"
     /\ UNCHANGED tx

\* When the metadata cannot be staged the buffer is restored over itself.
StageMeta(p) ==
  /\ thread[p].at = "stageMeta"
  /\ \/ StageMember(p, "meta", "buffer")
     \/ "stage" \in Faults /\ Goto(p, "failed") /\ RestoreMember("buffer")
        /\ UNCHANGED marker
  /\ UNCHANGED <<generation, hidden, memo, history>> /\ NotWatching

\* AtomicFile::write: another file takes the name, or nothing changes.
WriteMember(p, m, next) ==
  /\ \/ /\ disk' = [disk EXCEPT ![m] = thread[p].n]
        /\ judged' = "unknown"
        /\ Goto(p, next)
     \/ /\ "write" \in Faults
        /\ Goto(p, "undo")
        /\ UNCHANGED <<disk, judged>>
  /\ UNCHANGED <<marker, aside, generation, hidden, memo, history, tx>>
  /\ NotWatching

WriteBuffer(p) ==
  thread[p].at = "buffer" /\ WriteMember(p, "buffer", "meta")
WriteMeta(p) == thread[p].at = "meta" /\ WriteMember(p, "meta", "mark")

\* SynthMark::mark or unmark, then syntheticMarkerPublicationConsistent, which
\* may also fail to see the marker it has set.
SetMarker(p) ==
  /\ thread[p].at = "mark"
  /\ \/ marker' = content[thread[p].n].synthetic /\ Goto(p, "commit")
     \/ /\ "mark" \in Faults /\ Goto(p, "unmark")
        /\ marker' \in {marker, content[thread[p].n].synthetic}
  /\ UNCHANGED <<disk, aside, memory, history, tx>> /\ NotWatching

ResetMarker(p) ==
  /\ thread[p].at = "unmark"
  /\ Goto(p, "undo")
  /\ \/ marker' = tx.markerBefore /\ UNCHANGED tx
     \/ /\ "mark" \in Faults /\ marker # tx.markerBefore
        /\ tx' = [tx EXCEPT !.broken = TRUE, !.damaged = TRUE]
        /\ UNCHANGED marker
  /\ UNCHANGED <<disk, aside, memory, history>> /\ NotWatching

UndoBuffer(p) ==
  /\ thread[p].at = "undo" /\ RestoreMember("buffer") /\ Goto(p, "undoMeta")
  /\ UNCHANGED <<marker, generation, hidden, memo, history>> /\ NotWatching
UndoMeta(p) ==
  /\ thread[p].at = "undoMeta" /\ RestoreMember("meta") /\ Goto(p, "failed")
  /\ UNCHANGED <<marker, generation, hidden, memo, history>> /\ NotWatching

\* The copies are discarded, reads are allowed again, and what was published is
\* read back for both memos.
Commit(p) ==
  /\ thread[p].at = "commit"
  /\ aside' = [m \in Members |-> IF tx.staged[m] THEN 0 ELSE aside[m]]
  /\ hidden' = FALSE
  /\ IF Whole(Triple)
     THEN judged' = "valid" /\ memo' = Fresh(disk["meta"])
     ELSE UNCHANGED <<judged, memo>>
  /\ Rest(p) /\ tx' = NoTx
  /\ UNCHANGED <<disk, marker, generation, history>> /\ NotWatching

Release(p) ==
  /\ thread[p].at = "failed"
  /\ Rest(p) /\ tx' = Done
  /\ UNCHANGED <<files, memory, history>> /\ NotWatching

PublishStep(p) ==
  \/ Token(p) \/ Begin(p) \/ StageBuffer(p) \/ StageMeta(p)
  \/ WriteBuffer(p) \/ WriteMeta(p) \/ SetMarker(p) \/ ResetMarker(p)
  \/ UndoBuffer(p) \/ UndoMeta(p) \/ Commit(p) \/ Release(p)

-----------------------------------------------------------------------------
(***************************************************************************)
(* Removal: one thread watches the configuration, and forgets the app      *)
(* before it looks at the next change.                                     *)
(***************************************************************************)

Remove ==
  /\ watcher = "idle" /\ managed
  /\ removals < MaxRemovals /\ removals' = removals + 1
  /\ managed' = FALSE /\ watcher' = "void"
  /\ UNCHANGED <<files, memory, content, begun, crashes, void, thread, tx,
                 probe>>

Add ==
  /\ watcher = "idle" /\ ~managed
  /\ managed' = TRUE
  /\ UNCHANGED <<files, memory, history, thread, tx, watcher, probe>>

\* forgetAppImpl: publications under way are void, and reads are refused.
Void ==
  /\ watcher = "void" /\ MutexFree
  /\ generation' = generation + 1 /\ hidden' = TRUE
  /\ void' = 1 .. begun
  /\ watcher' = "erase"
  /\ UNCHANGED <<files, judged, memo, content, begun, removals, crashes,
                 thread, tx, managed, probe>>

EraseMemo ==
  /\ watcher = "erase"
  /\ memo' = Unknown /\ watcher' = "quarantine"
  /\ UNCHANGED <<files, generation, hidden, judged, history, thread, tx,
                 managed, probe>>

\* The files are renamed away one by one, and each may stay behind; a removal
\* that leaves the app owned keeps the marker of a synthetic app.
Moved ==
  /\ \E stay \in SUBSET Members :
       /\ stay = {} \/ "move" \in Faults
       /\ disk' = [m \in Members |-> IF m \in stay THEN disk[m] ELSE 0]
  /\ marker' \in {FALSE, marker}
  /\ judged' = "unknown"

Quarantine ==
  /\ watcher = "quarantine"
  /\ \/ LockFree /\ Moved
     \/ MutexFree /\ "lock" \in Faults /\ UNCHANGED <<disk, marker, judged>>
  /\ watcher' = "idle"
  /\ UNCHANGED <<aside, generation, hidden, memo, history, thread, tx, managed,
                 probe>>

\* The process dies and starts again: only the files remain, and those of an
\* app that is not configured are moved away.
Crash ==
  /\ crashes < MaxCrashes /\ crashes' = crashes + 1
  /\ IF managed THEN UNCHANGED <<disk, marker>> /\ judged' = "unknown"
     ELSE Moved
  /\ thread' = [p \in Publishers |-> [at |-> "idle", n |-> 0]]
  /\ tx' = NoTx
  /\ generation' = 0 /\ hidden' = FALSE /\ memo' = Unknown
  /\ watcher' = "idle" /\ probe' = NoProbe
  /\ void' = {}
  /\ UNCHANGED <<aside, content, begun, removals, managed>>

Next ==
  \/ \E p \in Publishers : PublishStep(p)
  \/ Use \/ Probe \/ ProbeUnlocked \/ Remember
  \/ Remove \/ Add \/ Void \/ EraseMemo \/ Quarantine
  \/ Crash

Spec == Init /\ [][Next]_vars

-----------------------------------------------------------------------------
(***************************************************************************)
(* What the cache promises.                                                *)
(***************************************************************************)

Places == {"idle", "token", "stage", "stageMeta", "buffer", "meta", "mark",
           "commit", "unmark", "undo", "undoMeta", "failed"}
Transaction == [staged : [Members -> BOOLEAN], markerBefore : BOOLEAN,
                before : Numbers \X Numbers \X BOOLEAN, broken : BOOLEAN,
                damaged : BOOLEAN]

FilesOK ==
  /\ disk \in [Members -> Numbers] /\ aside \in [Members -> Numbers]
  /\ marker \in BOOLEAN /\ content \in [Numbers -> Content]
ThreadsOK ==
  /\ thread \in [Publishers -> [at : Places, n : Numbers]]
  /\ tx \in Transaction
MemoryOK ==
  /\ managed \in BOOLEAN /\ generation \in 0 .. removals
  /\ hidden \in BOOLEAN /\ judged \in {"unknown", "valid", "invalid"}
  /\ memo \in Answers \cup {Unknown}
  /\ watcher \in {"idle", "void", "erase", "quarantine"}
  /\ probe \in [at : {"idle", "found"}, answer : Answers \cup {Unknown}]
  /\ begun \in Numbers /\ removals \in 0 .. MaxRemovals
  /\ crashes \in 0 .. MaxCrashes /\ void \subseteq 1 .. begun
OneHolder ==
  /\ \A p, q \in Publishers : Idle(p) \/ Idle(q) \/ p = q
  /\ Publishing => probe.at = "idle"

\* The states the variables range over; one publication at a time holds the
\* locks, and no probe looks at the disk meanwhile.
TypeOK == FilesOK /\ ThreadsOK /\ MemoryOK /\ OneHolder

\* "leaving the previous pair and marker in place": a publication that fails
\* without reporting that it could not restore has changed nothing, whatever a
\* process that died before left aside.
FailedKeepsPrevious ==
  \A p \in Publishers : thread[p].at = "failed" /\ ~tx.broken =>
    Triple = tx.before

\* What was published, or was about to be, before the app was removed is never
\* read again by the process, not even when the files could not be moved and
\* not after the app has been added again.
RemovedStaysHidden ==
  ~Publishing /\ Accepts => disk["buffer"] \notin void

\* A callback that may not block relies on the memo: what the memo calls fresh
\* is on disk and whole, unless the app has been removed since or a publication
\* has failed to put the previous pair back.
MemoIsHonest ==
  LockFree /\ memo.ready = "fresh" /\ ~hidden /\ ~tx.damaged =>
    Whole(Triple) /\ memo.change = disk["meta"]

\* "keeps the previous publication readable when the process dies mid-write".
DyingKeepsReadable ==
  [][Crash /\ managed /\ Publishing /\ Whole(tx.before)
       => Whole(Triple)']_vars
=============================================================================
