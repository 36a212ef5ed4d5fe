------------------------ MODULE ManifestFetchProofs ------------------------
(***************************************************************************)
(* One job per manifest, a kept promotion, a probe that somebody holds and *)
(* marks of the current session, for every number of manifests, callers    *)
(* and workers.                                                            *)
(*                                                                         *)
(* The invariant has two halves.  JobsInv is about jobs and who has one in *)
(* hand (Assigned), and follows what a caller was promised from its job to *)
(* the attempt that keeps the promise (Promised).  ReachInv is about the   *)
(* circuit, the marks and the session, and needs little more than types.   *)
(***************************************************************************)
EXTENDS ManifestFetch, SequenceTheorems, TLAPS

WorkerType == [at : Places, job : 0 .. MaxJobs, retried : BOOLEAN,
               bypass : BOOLEAN, ok : BOOLEAN, answer : Answers, open : BOOLEAN]
CallerType == [at : {"idle", "waiting", "answered", "late"}, job : 0 .. MaxJobs,
               active : BOOLEAN, ok : BOOLEAN]

\* The two halves of TypeOK.
JobTypes ==
  /\ hired \in {Workers, {}}
  /\ launched \in 0 .. MaxJobs /\ job \in [1 .. launched -> Job]
  /\ inflight \in [Keys -> 0 .. launched]
  /\ \A i \in DOMAIN queue : queue[i] \in DOMAIN job /\ job[queue[i]].state = "queued"
  /\ Len(queue) <= Capacity
  /\ worker \in [Workers -> WorkerType]
  /\ caller \in [Callers -> CallerType]
  /\ \A j \in DOMAIN job :
       /\ job[j].waiters = {c \in Callers : caller[c].at # "idle" /\ caller[c].job = j}
       /\ job[j].state = "running" <=> \E w \in Workers : worker[w].job = j

ReachTypes ==
  /\ circuit \in [open : BOOLEAN, probe : Workers \cup {Nobody},
                  failed : 0 .. Threshold, cooled : BOOLEAN]
  /\ offline \in BOOLEAN /\ session \in Sessions
  /\ reset \in {"no", "marks", "jobs"}
  /\ notified \subseteq Keys \X Sessions

\* A job is queued once or in one worker's hands; nobody holds a job that was
\* never launched, and nobody joins one that has ended.
Assigned ==
  /\ queue \in Seq(Jobs)
  /\ \A h, i \in DOMAIN queue : queue[h] = queue[i] => h = i
  /\ \A w \in Workers : IF At(w, "idle") THEN worker[w].job = 0 /\ ~worker[w].retried
                        ELSE worker[w].job \in DOMAIN job
  /\ \A v, w \in Workers : ~At(v, "idle") /\ worker[v].job = worker[w].job => v = w
  /\ \A c \in Callers : caller[c].at # "idle" => caller[c].job \in DOMAIN job
  /\ \A k \in Keys : inflight[k] # 0 => inflight[k] \in Active

\* A caller that needs its manifest now has promoted its job; a promoted job
\* makes the attempt that asks in spite of misses before it ends.
Promised ==
  /\ \A c \in Callers : caller[c].at = "waiting" /\ caller[c].active =>
       job[caller[c].job].bypass
  /\ \A j \in DOMAIN job : job[j].state = "done" /\ job[j].bypass /\ ~job[j].ok =>
       job[j].tried \/ job[j].stopped
  /\ \A w \in Workers : worker[w].retried =>
       IF At(w, "begin") THEN Mine(w).bypass ELSE Mine(w).tried \/ Mine(w).stopped

JobsInv == JobTypes /\ Assigned /\ OneJobPerKey /\ Promised /\ PromotionIsKept
ReachInv == ReachTypes /\ ProbeIsHeld /\ MarksAreCurrent

IInv == JobsInv /\ ReachInv

-----------------------------------------------------------------------------
(***************************************************************************)
(* The invariant and its halves; sequences.                                *)
(***************************************************************************)

\* The types are those of the two halves.
LEMMA TypesSplit == TypeOK <=> JobTypes /\ ReachTypes
BY DEF TypeOK, JobTypes, ReachTypes, WorkerType, CallerType

\* What Append does to the jobs, which are given as a function.
LEMMA AppendFacts ==
  ASSUME NEW n \in Nat, NEW f \in [1 .. n -> Job], NEW e \in Job
  PROVE  /\ Append(f, e) \in [1 .. n + 1 -> Job]
         /\ Append(f, e)[n + 1] = e
         /\ \A i \in 1 .. n : Append(f, e)[i] = f[i]
<1>1. f \in Seq(Job) /\ Len(f) = n
  OBVIOUS
<1>2. Append(f, e) \in Seq(Job) /\ Len(Append(f, e)) = n + 1
  BY <1>1
<1>3. Append(f, e) \in [1 .. n + 1 -> Job]
  BY <1>2, LenProperties
<1>4. Append(f, e)[n + 1] = e /\ \A i \in 1 .. n : Append(f, e)[i] = f[i]
  BY <1>1
<1> QED
  BY <1>3, <1>4

\* What Tail does to a sequence.
LEMMA TailFacts ==
  ASSUME NEW S, NEW q \in Seq(S), q # <<>>
  PROVE  /\ Tail(q) \in Seq(S) /\ Len(Tail(q)) = Len(q) - 1 /\ Len(q) > 0
         /\ Head(q) = q[1] /\ 1 \in DOMAIN q
         /\ DOMAIN Tail(q) = 1 .. Len(q) - 1
         /\ \A i \in DOMAIN Tail(q) : i + 1 \in DOMAIN q /\ Tail(q)[i] = q[i + 1]
OBVIOUS

\* The initial states satisfy the invariant.
LEMMA Initially == ASSUME FetchAssumption, Init PROVE IInv
<1> USE FetchAssumption DEF FetchAssumption, Init
<1>1. JobTypes
  BY DEF JobTypes, WorkerType, CallerType, Free, Quiet, Places, Jobs
<1>2. Assigned
  BY DEF Assigned, At, Free, Quiet, Jobs
<1>3. OneJobPerKey /\ Promised /\ PromotionIsKept
  BY DEF OneJobPerKey, Promised, PromotionIsKept, Active, Free, Quiet, At, Mine
<1>4. ReachTypes
  <2>1. circuit \in [open : BOOLEAN, probe : Workers \cup {Nobody},
                    failed : 0 .. Threshold, cooled : BOOLEAN]
    BY DEF Closed
  <2>2. offline \in BOOLEAN
    BY Zenon
  <2>3. session \in Sessions /\ reset \in {"no", "marks", "jobs"}
        /\ notified \subseteq Keys \X Sessions
    BY DEF Sessions
  <2> QED
    BY <2>1, <2>2, <2>3, Zenon DEF ReachTypes
<1>5. ProbeIsHeld /\ MarksAreCurrent
  BY DEF ProbeIsHeld, MarksAreCurrent, Closed
<1> QED
  BY <1>1, <1>2, <1>3, <1>4, <1>5 DEF IInv, JobsInv, ReachInv

-----------------------------------------------------------------------------
(***************************************************************************)
(* The circuit, the marks and the session.                                 *)
(***************************************************************************)

\* Jobs are never renamed, and keep their session.
Lasting == \A j \in DOMAIN job : j \in DOMAIN job' /\ job'[j].session = job[j].session
                              /\ job'[j].key = job[j].key

\* A step that leaves the circuit, the marks and the probe's worker alone.
LEMMA ReachStays ==
  ASSUME IInv, Lasting, UNCHANGED <<reach, session, reset, notified>>,
         \A w \in Workers : At(w, "attempt") => worker'[w] = worker[w]
  PROVE  ReachInv'
<1>1. ReachTypes' /\ MarksAreCurrent'
  BY DEF IInv, ReachInv, ReachTypes, MarksAreCurrent, reach
<1>2. ProbeIsHeld'
  BY DEF IInv, ReachInv, JobsInv, Assigned, ReachTypes, ProbeIsHeld, reach, Lasting, At, Mine
<1> QED
  BY <1>1, <1>2 DEF ReachInv

-----------------------------------------------------------------------------
(***************************************************************************)
(* Steps of a worker within its job.                                       *)
(***************************************************************************)

\* A worker that is in the middle of a job stays in it, and if it is to make
\* no attempt any more, has kept the promise or need not.
Moves(w) ==
  /\ ~At(w, "idle") /\ worker' = [worker EXCEPT ![w] = worker'[w]]
  /\ worker'[w] \in WorkerType
  /\ worker'[w].at # "idle" /\ worker'[w].job = worker[w].job
  /\ worker'[w].retried => IF worker'[w].at = "begin" THEN Mine(w).bypass
                           ELSE Mine(w).tried \/ Mine(w).stopped
  /\ UNCHANGED <<hired, work, caller>>

\* Such a step keeps the jobs' half.
LEMMA MoveKeepsJobs ==
  ASSUME IInv, NEW w \in Workers, Moves(w)
  PROVE  JobsInv' /\ Lasting
<1> USE DEF IInv, JobsInv
<1>1. /\ UNCHANGED <<hired, launched, job, inflight, queue, caller>>
      /\ \A v \in Workers : v # w => worker'[v] = worker[v]
      /\ worker' \in [Workers -> WorkerType]
      /\ \A v \in Workers : worker'[v].job = worker[v].job
      /\ \A v \in Workers : At(v, "idle")' <=> At(v, "idle")
  BY DEF Moves, work, JobTypes, At
<1>2. JobTypes'
  BY <1>1 DEF JobTypes
<1>3. Assigned'
  <2>1. \A v \in Workers : IF At(v, "idle")' THEN worker'[v].job = 0 /\ ~worker'[v].retried
                           ELSE worker'[v].job \in DOMAIN job'
    BY <1>1 DEF Assigned, At, Moves
  <2>2. \A u, v \in Workers : ~At(u, "idle")' /\ worker'[u].job = worker'[v].job => u = v
    BY <1>1 DEF Assigned
  <2> QED
    BY <1>1, <2>1, <2>2 DEF Assigned, Active
<1>4. OneJobPerKey' /\ PromotionIsKept'
  BY <1>1 DEF OneJobPerKey, PromotionIsKept, Active
<1>5. Promised'
  BY <1>1 DEF Promised, Moves, Mine, At
<1>6. Lasting
  BY <1>1 DEF Lasting
<1> QED
  BY <1>2, <1>3, <1>4, <1>5, <1>6

\* Wherever an attempt ends, or a worker goes from one place of it to another,
\* it has kept its promise unless it was about to begin an attempt.
LEMMA WorkerStays ==
  ASSUME IInv, NEW w \in Workers, ~At(w, "idle"), ~At(w, "begin")
  PROVE  /\ worker[w] \in WorkerType
         /\ worker[w].retried => Mine(w).tried \/ Mine(w).stopped
         /\ Mine(w) \in Job
BY DEF IInv, JobsInv, JobTypes, Assigned, Promised, At, Mine

\* A worker whose attempt is over.
Through(r, ok) == [r EXCEPT !.at = "end", !.ok = ok, !.open = FALSE,
                            !.bypass = FALSE, !.answer = "down"]

LEMMA ThroughFacts ==
  ASSUME FetchAssumption, NEW r \in WorkerType, NEW ok \in BOOLEAN
  PROVE  /\ Through(r, ok) \in WorkerType /\ Through(r, ok).at = "end"
         /\ Through(r, ok).job = r.job /\ Through(r, ok).retried = r.retried
<1>1. "down" \in Answers
  BY DEF FetchAssumption
<1> QED
  BY <1>1 DEF Through, WorkerType, Places

\* The end of an attempt.
LEMMA EndMoves ==
  ASSUME FetchAssumption, IInv, NEW w \in Workers, ~At(w, "idle"), ~At(w, "begin"),
         NEW ok \in BOOLEAN, End(w, ok), UNCHANGED <<hired, work, caller>>
  PROVE  Moves(w) /\ worker'[w].at = "end"
<1>1. worker[w] \in WorkerType /\ worker \in [Workers -> WorkerType]
  BY WorkerStays DEF IInv, JobsInv, JobTypes
<1>2. worker'[w] = [worker[w] EXCEPT !.at = "end", !.ok = ok, !.open = FALSE,
                                  !.bypass = FALSE, !.answer = "down"]
      /\ worker' = [worker EXCEPT ![w] = worker'[w]]
  BY <1>1 DEF End
<1>3. worker'[w] \in WorkerType
  <2>1. worker'[w] = Through(worker[w], ok)
    BY <1>2 DEF Through
  <2> QED
    BY <1>1, <2>1, ThroughFacts
<1>4. worker'[w].at = "end" /\ worker'[w].job = worker[w].job
      /\ worker'[w].retried = worker[w].retried
  BY <1>1, <1>2 DEF WorkerType
<1> QED
  BY <1>2, <1>3, <1>4, WorkerStays DEF Moves

\* What Judge makes of an answer.
LEMMA JudgeMoves ==
  ASSUME FetchAssumption, IInv, NEW w \in Workers, ~At(w, "idle"), ~At(w, "begin"),
         Judge(w), UNCHANGED <<hired, work, caller>>
  PROVE  Moves(w) /\ worker'[w].at # "attempt"
<1>1. worker[w] \in WorkerType /\ worker \in [Workers -> WorkerType]
  BY WorkerStays DEF IInv, JobsInv, JobTypes
<1>2. CASE End(w, FALSE)
  BY <1>2, EndMoves
<1>3. ASSUME NEW place \in {"write", "mark"},
             worker' = [worker EXCEPT ![w] = [@ EXCEPT !.at = place, !.open = FALSE,
                                    !.answer = "down", !.bypass = FALSE]]
      PROVE  Moves(w) /\ worker'[w].at # "attempt"
  <2>1. worker'[w] = [worker[w] EXCEPT !.at = place, !.open = FALSE,
                                    !.answer = "down", !.bypass = FALSE]
        /\ worker' = [worker EXCEPT ![w] = worker'[w]]
    BY <1>1, <1>3
  <2>2. worker'[w] \in WorkerType
    BY <1>1, <2>1 DEF WorkerType, Places, FetchAssumption
  <2>3. worker'[w].at = place /\ worker'[w].job = worker[w].job
        /\ worker'[w].retried = worker[w].retried
    BY <1>1, <2>1 DEF WorkerType
  <2> QED
    BY <2>1, <2>2, <2>3, WorkerStays DEF Moves
<1> QED
  BY <1>2, <1>3 DEF Judge

\* A worker that goes on to another place of its attempt.
LEMMA GoesMoves ==
  ASSUME IInv, NEW w \in Workers, ~At(w, "idle"), ~At(w, "begin"),
         NEW place \in Places \ {"idle", "begin"}, NEW answer \in Answers,
         NEW open \in BOOLEAN,
         worker' = [worker EXCEPT ![w] = [@ EXCEPT !.at = place, !.answer = answer,
                                                   !.open = open]],
         UNCHANGED <<hired, work, caller>>
  PROVE  Moves(w) /\ worker'[w].at = place
<1>1. worker[w] \in WorkerType /\ worker \in [Workers -> WorkerType]
  BY WorkerStays DEF IInv, JobsInv, JobTypes
<1>2. worker'[w] = [worker[w] EXCEPT !.at = place, !.answer = answer, !.open = open]
      /\ worker' = [worker EXCEPT ![w] = worker'[w]]
  BY <1>1
<1>3. worker'[w] \in WorkerType
  BY <1>1, <1>2 DEF WorkerType
<1>4. worker'[w].at = place /\ worker'[w].job = worker[w].job
      /\ worker'[w].retried = worker[w].retried
  BY <1>1, <1>2 DEF WorkerType
<1> QED
  BY <1>2, <1>3, <1>4, WorkerStays DEF Moves, Places

\* A move that leaves the circuit alone.
LEMMA MoveKeeps ==
  ASSUME IInv, NEW w \in Workers, Moves(w), ~At(w, "attempt"),
         UNCHANGED <<reach, session, reset, notified>>
  PROVE  IInv'
<1>1. \A v \in Workers : v # w => worker'[v] = worker[v]
  BY DEF Moves, IInv, JobsInv, JobTypes
<1>2. \A v \in Workers : At(v, "attempt") => worker'[v] = worker[v]
  BY <1>1
<1> QED
  BY <1>2, MoveKeepsJobs, ReachStays DEF IInv

\* A request is made or not, and its answer becomes a file or not.
LEMMA PassagesKeep ==
  ASSUME FetchAssumption, IInv, NEW w \in Workers,
         Get(w) \/ Throw(w) \/ Write(w)
  PROVE  IInv'
<1> USE DEF Kept, work, reach
<1>1. worker[w].open \in BOOLEAN /\ worker \in [Workers -> WorkerType]
  BY DEF IInv, JobsInv, JobTypes, WorkerType
<1>2. CASE Get(w)
  <2>1. PICK answer \in Answers :
          worker' = [worker EXCEPT ![w].at = "begun", ![w].answer = answer]
    BY <1>2 DEF Get
  <2>2. worker' = [worker EXCEPT ![w] = [@ EXCEPT !.at = "begun", !.answer = answer,
                                                  !.open = worker[w].open]]
    BY <2>1, <1>1 DEF WorkerType
  <2>3. "begun" \in Places \ {"idle", "begin"}
    BY DEF Places
  <2>4. Moves(w)
    BY <1>1, <1>2, <2>2, <2>3, GoesMoves DEF Get, At
  <2> QED
    BY <1>2, <2>4, MoveKeeps DEF Get, At
<1>3. CASE Throw(w)
  <2>1. Moves(w)
    BY <1>3, EndMoves DEF Throw, At
  <2> QED
    BY <1>3, <2>1, MoveKeeps DEF Throw, At
<1>4. CASE Write(w)
  <2>1. Moves(w)
    BY <1>4, EndMoves DEF Write, At
  <2> QED
    BY <1>4, <2>1, MoveKeeps DEF Write, At
<1> QED
  BY <1>2, <1>3, <1>4

\* The circuit's state is published; the answer is judged.
LEMMA FlagKeeps ==
  ASSUME FetchAssumption, IInv, NEW w \in Workers, Flag(w)
  PROVE  IInv'
<1>1. Moves(w)
  BY JudgeMoves DEF Flag, Kept, work, At
<1>2. JobsInv' /\ Lasting
  BY <1>1, MoveKeepsJobs
<1>3. \A v \in Workers : At(v, "attempt") => worker'[v] = worker[v]
  BY <1>1 DEF Moves, IInv, JobsInv, JobTypes, Flag, At
<1>4. UNCHANGED <<circuit, session, reset, notified, job>> /\ offline' = worker[w].open
  BY DEF Flag, Kept
<1>5. worker[w].open \in BOOLEAN
  BY DEF IInv, JobsInv, JobTypes, WorkerType
<1>6. ReachTypes' /\ MarksAreCurrent'
  BY <1>4, <1>5 DEF IInv, ReachInv, ReachTypes, MarksAreCurrent
<1>7. ProbeIsHeld'
  BY <1>3, <1>4 DEF IInv, ReachInv, ReachTypes, ProbeIsHeld, At, Mine
<1> QED
  BY <1>2, <1>6, <1>7 DEF IInv, ReachInv

\* Only the current session marks.
LEMMA MarkKeeps ==
  ASSUME FetchAssumption, IInv, NEW w \in Workers, Mark(w)
  PROVE  IInv'
<1>1. Moves(w)
  BY EndMoves DEF Mark, Kept, work, At
<1>2. JobsInv' /\ Lasting
  BY <1>1, MoveKeepsJobs
<1>3. \A v \in Workers : At(v, "attempt") => worker'[v] = worker[v]
  BY <1>1 DEF Moves, IInv, JobsInv, JobTypes, Mark, At
<1>4. /\ UNCHANGED <<circuit, offline, session, reset, job>>
      /\ notified' \in {notified, notified \cup {<<Mine(w).key, session>>}}
  BY DEF Mark, Kept, reach
<1>5. Mine(w).key \in Keys
  BY WorkerStays DEF Mark, At, Job
<1>6. ReachTypes' /\ MarksAreCurrent'
  BY <1>4, <1>5 DEF IInv, ReachInv, ReachTypes, MarksAreCurrent
<1>7. ProbeIsHeld'
  BY <1>3, <1>4 DEF IInv, ReachInv, ReachTypes, ProbeIsHeld, At, Mine
<1> QED
  BY <1>2, <1>6, <1>7 DEF IInv, ReachInv

\* An attempt is admitted by the circuit, as its probe or not, or is judged
\* without it.
LEMMA BeginAttemptKeeps ==
  ASSUME FetchAssumption, IInv, NEW w \in Workers, BeginAttempt(w)
  PROVE  IInv'
<1>1. /\ At(w, "begun") /\ UNCHANGED <<hired, work, caller>>
      /\ UNCHANGED <<offline, session, reset, notified, job>>
  BY DEF BeginAttempt, Kept, work
<1>2. worker \in [Workers -> WorkerType] /\ worker[w] \in WorkerType
  BY DEF IInv, JobsInv, JobTypes
<1>3. ASSUME Goto(w, "attempt")
      PROVE  Moves(w) /\ worker'[w].at = "attempt"
  <2>1. worker' = [worker EXCEPT ![w] = [@ EXCEPT !.at = "attempt",
                        !.answer = worker[w].answer, !.open = worker[w].open]]
    BY <1>2, <1>3 DEF Goto, WorkerType
  <2>2. "attempt" \in Places \ {"idle", "begin"} /\ worker[w].answer \in Answers
        /\ worker[w].open \in BOOLEAN
    BY <1>2 DEF Places, WorkerType
  <2> QED
    BY <1>1, <2>1, <2>2, GoesMoves DEF At
<1>4. Judge(w) => Moves(w)
  BY <1>1, JudgeMoves DEF At
<1>5. Moves(w)
  BY <1>3, <1>4 DEF BeginAttempt
<1>6. JobsInv' /\ Lasting
  BY <1>5, MoveKeepsJobs
<1>7. \A v \in Workers : At(v, "attempt") => worker'[v] = worker[v]
  BY <1>1, <1>2, <1>5 DEF Moves, At
<1>8. CASE UNCHANGED circuit
  BY <1>1, <1>6, <1>7, <1>8, ReachStays DEF IInv, reach
<1>9. CASE /\ Mine(w).session = session /\ circuit.open
           /\ circuit' = [circuit EXCEPT !.probe = w] /\ Goto(w, "attempt")
  <2>1. ReachTypes' /\ MarksAreCurrent'
    BY <1>1, <1>9 DEF IInv, ReachInv, ReachTypes, MarksAreCurrent
  <2>2. circuit'.probe = w
    BY <1>9 DEF IInv, ReachInv, ReachTypes
  <2>3. circuit'.open
    BY <1>9 DEF IInv, ReachInv, ReachTypes
  <2>4. At(w, "attempt")' /\ Mine(w)'.session = session'
    BY <1>1, <1>3, <1>9 DEF At, Mine, Moves
  <2>5. ProbeIsHeld'
    BY <2>2, <2>3, <2>4 DEF ProbeIsHeld
  <2> QED
    BY <1>6, <2>1, <2>5 DEF IInv, ReachInv
<1> QED
  BY <1>8, <1>9 DEF BeginAttempt

\* What an answer makes of the circuit: its types hold, and either the circuit
\* is as it was, held by another probe, or there is no probe.
LEMMA FinishedFacts ==
  ASSUME FetchAssumption, IInv, NEW w \in Workers, NEW answer \in Answers
  PROVE  /\ Finished(w, answer) \in [open : BOOLEAN, probe : Workers \cup {Nobody},
                                     failed : 0 .. Threshold, cooled : BOOLEAN]
         /\ \/ Finished(w, answer).probe = Nobody
            \/ Finished(w, answer) = circuit /\ circuit.probe # w
<1> DEFINE Circuit == [open : BOOLEAN, probe : Workers \cup {Nobody},
                       failed : 0 .. Threshold, cooled : BOOLEAN]
<1>1. circuit \in Circuit /\ answer \in {"served", "absent", "odd", "limited", "down"}
      /\ Threshold \in Nat \ {0} /\ Nobody # w
  BY DEF IInv, ReachInv, ReachTypes, FetchAssumption
<1>2. Closed \in Circuit /\ Closed.probe = Nobody
  BY <1>1 DEF Closed
<1>3. Opened \in Circuit /\ Opened.probe = Nobody
  BY <1>1 DEF Opened
<1>4. circuit.probe = Nobody => OneMore \in Circuit /\ OneMore.probe = Nobody
  <2> DEFINE failed == IF circuit.failed < Threshold THEN circuit.failed + 1
                       ELSE Threshold
  <2>1. failed \in 0 .. Threshold
    BY <1>1
  <2>2. OneMore = IF failed = Threshold THEN [Opened EXCEPT !.failed = failed]
                  ELSE [circuit EXCEPT !.failed = failed]
    BY DEF OneMore
  <2> HIDE DEF failed
  <2>3. /\ [Opened EXCEPT !.failed = failed] \in Circuit
        /\ [Opened EXCEPT !.failed = failed].probe = Nobody
    BY <1>3, <2>1
  <2>4. circuit.probe = Nobody => /\ [circuit EXCEPT !.failed = failed] \in Circuit
                                 /\ [circuit EXCEPT !.failed = failed].probe = Nobody
    BY <1>1, <2>1
  <2> QED
    BY <2>2, <2>3, <2>4
<1>5. [circuit EXCEPT !.probe = Nobody, !.cooled = FALSE] \in Circuit
      /\ [circuit EXCEPT !.probe = Nobody, !.cooled = FALSE].probe = Nobody
  BY <1>1
<1>6. CASE circuit.probe \notin {Nobody, w}
  BY <1>1, <1>6 DEF Finished
<1>7. CASE circuit.probe \in {Nobody, w} /\ answer \in {"served", "absent", "odd"}
  BY <1>1, <1>2, <1>7 DEF Finished
<1>8. CASE circuit.probe = w /\ answer \in {"limited", "down"}
  BY <1>1, <1>5, <1>8 DEF Finished
<1>9. CASE circuit.probe = Nobody /\ answer \in {"limited", "down"}
  BY <1>1, <1>3, <1>4, <1>9 DEF Finished
<1> QED
  BY <1>1, <1>6, <1>7, <1>8, <1>9

\* An attempt that is finished holds the circuit no longer.
LEMMA FinishAttemptKeeps ==
  ASSUME FetchAssumption, IInv, NEW w \in Workers, FinishAttempt(w)
  PROVE  IInv'
<1>1. /\ At(w, "attempt") /\ UNCHANGED <<hired, work, caller>>
      /\ UNCHANGED <<offline, session, reset, notified, job>>
  BY DEF FinishAttempt, Kept, work
<1>2. worker \in [Workers -> WorkerType] /\ worker[w] \in WorkerType
      /\ worker[w].answer \in Answers
  BY DEF IInv, JobsInv, JobTypes, WorkerType
<1> DEFINE Circuit == [open : BOOLEAN, probe : Workers \cup {Nobody},
                       failed : 0 .. Threshold, cooled : BOOLEAN]
<1>3. circuit \in Circuit
  BY DEF IInv, ReachInv, ReachTypes
<1>4. /\ Moves(w) /\ circuit' \in Circuit
      /\ \/ circuit'.probe = Nobody
         \/ circuit'.probe = circuit.probe /\ circuit'.open = circuit.open
            /\ circuit.probe # w
  <2>1. CASE Mine(w).session = session
    <3>1. circuit' = Finished(w, worker[w].answer)
          /\ worker' = [worker EXCEPT ![w].at = "flag", ![w].open = circuit'.open]
      BY <2>1 DEF FinishAttempt
    <3>2. circuit' \in Circuit
          /\ \/ circuit'.probe = Nobody
             \/ circuit' = circuit /\ circuit.probe # w
      BY <1>2, <3>1, FinishedFacts
    <3>3. worker' = [worker EXCEPT ![w] = [@ EXCEPT !.at = "flag",
                         !.answer = worker[w].answer, !.open = circuit'.open]]
      BY <1>2, <3>1 DEF WorkerType
    <3>4. "flag" \in Places \ {"idle", "begin"} /\ circuit'.open \in BOOLEAN
      BY <3>2 DEF Places
    <3> QED
      BY <1>1, <1>2, <3>2, <3>3, <3>4, GoesMoves DEF At
  <2>2. CASE Mine(w).session # session
    <3>1. circuit' = [circuit EXCEPT !.probe = IF @ = w THEN Nobody ELSE @] /\ Judge(w)
      BY <2>2 DEF FinishAttempt
    <3> QED
      BY <1>1, <1>3, <3>1, JudgeMoves DEF At
  <2> QED
    BY <2>1, <2>2
<1>5. JobsInv' /\ Lasting
  BY <1>4, MoveKeepsJobs
<1>6. ReachTypes' /\ MarksAreCurrent'
  BY <1>1, <1>4 DEF IInv, ReachInv, ReachTypes, MarksAreCurrent
<1>7. ProbeIsHeld'
  <2>1. SUFFICES ASSUME circuit.probe # Nobody, circuit.probe # w,
                        circuit'.probe = circuit.probe, circuit'.open = circuit.open
                 PROVE  ProbeIsHeld'
    BY <1>4 DEF ProbeIsHeld
  <2>2. circuit.probe \in Workers
    BY <1>3, <2>1
  <2>3. worker'[circuit.probe] = worker[circuit.probe]
    BY <1>2, <1>4, <2>1, <2>2 DEF Moves
  <2> QED
    BY <1>1, <2>1, <2>3 DEF ProbeIsHeld, At, Mine, IInv, ReachInv
<1> QED
  BY <1>5, <1>6, <1>7 DEF IInv, ReachInv

\* One more attempt of a job that was promoted too late for the last one.
LEMMA RetryKeeps ==
  ASSUME FetchAssumption, IInv, NEW w \in Workers, Retry(w)
  PROVE  IInv'
<1>1. worker \in [Workers -> WorkerType] /\ worker[w] \in WorkerType
  BY DEF IInv, JobsInv, JobTypes
<1>2. worker'[w] = [worker[w] EXCEPT !.at = "begin", !.retried = TRUE]
      /\ worker' = [worker EXCEPT ![w] = worker'[w]]
  BY <1>1 DEF Retry
<1>3. worker'[w] \in WorkerType
  BY <1>1, <1>2 DEF WorkerType, Places
<1>4. worker'[w].at = "begin" /\ worker'[w].job = worker[w].job
  BY <1>1, <1>2 DEF WorkerType
<1>5. Mine(w).bypass
  BY DEF Retry, Again
<1>6. Moves(w)
  BY <1>2, <1>3, <1>4, <1>5 DEF Moves, Retry, Kept, work, At
<1> QED
  BY <1>6, MoveKeeps DEF Retry, Kept, At

-----------------------------------------------------------------------------
(***************************************************************************)
(* Steps of a worker that change its job.                                  *)
(***************************************************************************)

\* An attempt begins: a job that asks in spite of misses is on record as tried
\* before it does.
LEMMA BeginKeeps ==
  ASSUME FetchAssumption, IInv, NEW w \in Workers, Begin(w)
  PROVE  IInv'
<1> DEFINE j == worker[w].job
<1>1. /\ At(w, "begin") /\ j \in DOMAIN job /\ job[j] \in Job
      /\ worker \in [Workers -> WorkerType] /\ worker[w] \in WorkerType
      /\ worker[w].retried => job[j].bypass
      /\ job \in [1 .. launched -> Job]
  BY DEF Begin, IInv, JobsInv, JobTypes, Assigned, Promised, At, Mine
<1>2. UNCHANGED <<hired, launched, inflight, queue, caller>>
      /\ UNCHANGED <<circuit, offline, session, reset, notified>>
  BY DEF Begin, Kept, reach
<1>3. /\ job' \in {job, [job EXCEPT ![j].tried = @ \/ job[j].bypass]}
      /\ worker' = [worker EXCEPT ![w] = worker'[w]]
      /\ worker'[w] \in WorkerType
      /\ worker'[w].at \in {"end", "get"} /\ worker'[w].job = j
      /\ worker'[w].retried => job'[j].tried \/ job'[j].stopped
  <2>1. CASE job[j].stopped /\ End(w, FALSE) /\ UNCHANGED job
    <3>1. worker'[w] = [worker[w] EXCEPT !.at = "end", !.ok = FALSE, !.open = FALSE,
                                  !.bypass = FALSE, !.answer = "down"]
          /\ worker' = [worker EXCEPT ![w] = worker'[w]]
      BY <1>1, <2>1 DEF End
    <3>2. worker'[w] \in WorkerType /\ worker'[w].at = "end" /\ worker'[w].job = j
          /\ worker'[w].retried = worker[w].retried
      <4>1. worker'[w] = Through(worker[w], FALSE)
        BY <3>1 DEF Through
      <4>2. worker[w] \in WorkerType /\ FALSE \in BOOLEAN
        BY <1>1
      <4>3. /\ Through(worker[w], FALSE) \in WorkerType
            /\ Through(worker[w], FALSE).at = "end"
            /\ Through(worker[w], FALSE).job = worker[w].job
            /\ Through(worker[w], FALSE).retried = worker[w].retried
        BY <4>2, ThroughFacts
      <4> QED
        BY <4>1, <4>3
    <3> QED
      BY <1>1, <2>1, <3>1, <3>2
  <2>2. CASE /\ job' = [job EXCEPT ![j].tried = @ \/ job[j].bypass]
             /\ \E ok \in BOOLEAN : End(w, ok)
    <3>1. PICK ok \in BOOLEAN : End(w, ok)
      BY <2>2
    <3>2. worker'[w] = [worker[w] EXCEPT !.at = "end", !.ok = ok, !.open = FALSE,
                                  !.bypass = FALSE, !.answer = "down"]
          /\ worker' = [worker EXCEPT ![w] = worker'[w]]
      BY <1>1, <3>1 DEF End
    <3>3. worker'[w] \in WorkerType /\ worker'[w].at = "end" /\ worker'[w].job = j
          /\ worker'[w].retried = worker[w].retried
      <4>1. worker'[w] = Through(worker[w], ok)
        BY <3>2 DEF Through
      <4> QED
        BY <1>1, <4>1, ThroughFacts
    <3>4. job[j].bypass => job'[j].tried
      BY <1>1, <2>2 DEF Job
    <3> QED
      BY <1>1, <2>2, <3>2, <3>3, <3>4
  <2>3. CASE /\ job' = [job EXCEPT ![j].tried = @ \/ job[j].bypass]
             /\ worker' = [worker EXCEPT ![w].at = "get", ![w].bypass = job[j].bypass,
                                          ![w].retried = @ \/ job[j].bypass]
    <3>1. worker' = [worker EXCEPT ![w] = worker'[w]]
      BY <1>1, <2>3 DEF WorkerType
    <3>2. worker'[w] \in WorkerType /\ worker'[w].at = "get" /\ worker'[w].job = j
          /\ (worker'[w].retried => worker[w].retried \/ job[j].bypass)
      BY <1>1, <2>3 DEF WorkerType, Places, Job
    <3>3. job[j].bypass => job'[j].tried
      BY <1>1, <2>3 DEF Job
    <3> QED
      BY <1>1, <2>3, <3>1, <3>2, <3>3
  <2> QED
    BY <2>1, <2>2, <2>3 DEF Begin, Mine
<1>4. /\ DOMAIN job' = DOMAIN job /\ job' \in [1 .. launched -> Job]
      /\ \A i \in DOMAIN job :
           /\ job'[i].key = job[i].key /\ job'[i].session = job[i].session
           /\ job'[i].bypass = job[i].bypass /\ job'[i].stopped = job[i].stopped
           /\ job'[i].state = job[i].state /\ job'[i].ok = job[i].ok
           /\ job'[i].waiters = job[i].waiters
           /\ job[i].tried => job'[i].tried
  <2>1. CASE job' = job
    BY <1>1, <2>1
  <2>2. CASE job' = [job EXCEPT ![j].tried = @ \/ job[j].bypass]
    <3>1. job' \in [1 .. launched -> Job] /\ DOMAIN job' = DOMAIN job
      BY <1>1, <2>2 DEF Job
    <3>2. \A i \in DOMAIN job : i # j => job'[i] = job[i]
      BY <1>1, <2>2
    <3>3. /\ job'[j].key = job[j].key /\ job'[j].session = job[j].session
          /\ job'[j].bypass = job[j].bypass /\ job'[j].stopped = job[j].stopped
          /\ job'[j].state = job[j].state /\ job'[j].ok = job[j].ok
          /\ job'[j].waiters = job[j].waiters
          /\ job[j].tried => job'[j].tried
      BY <1>1, <2>2 DEF Job
    <3> QED
      BY <1>1, <3>1, <3>2, <3>3
  <2> QED
    BY <1>3, <2>1, <2>2
<1>5. /\ \A v \in Workers : v # w => worker'[v] = worker[v]
      /\ worker' \in [Workers -> WorkerType]
      /\ \A v \in Workers : worker'[v].job = worker[v].job
      /\ \A v \in Workers : worker'[v].at = "idle" <=> worker[v].at = "idle"
  BY <1>1, <1>3 DEF At
<1> HIDE DEF j
<1>6. JobTypes'
  <2>1. \A i \in DOMAIN job :
       job[i].waiters = {c \in Callers : caller[c].at # "idle" /\ caller[c].job = i}
    BY DEF IInv, JobsInv, JobTypes
  <2>2. \A i \in DOMAIN job :
       job[i].state = "running" <=> \E v \in Workers : worker[v].job = i
    BY DEF IInv, JobsInv, JobTypes
  <2>3. \A i \in DOMAIN job' :
       job'[i].waiters = {c \in Callers : caller'[c].at # "idle" /\ caller'[c].job = i}
    BY <1>2, <1>4, <2>1
  <2>4. \A i \in DOMAIN job' :
       job'[i].state = "running" <=> \E v \in Workers : worker'[v].job = i
    BY <1>4, <1>5, <2>2
  <2>5. \A i \in DOMAIN queue' :
          queue'[i] \in DOMAIN job' /\ job'[queue'[i]].state = "queued"
    BY <1>2, <1>4 DEF IInv, JobsInv, JobTypes
  <2> QED
    BY <1>2, <1>4, <1>5, <2>3, <2>4, <2>5 DEF IInv, JobsInv, JobTypes
<1>7. Active' = Active
  BY <1>4 DEF Active
<1>8. Assigned'
  <2>1. \A v \in Workers : IF worker'[v].at = "idle"
                           THEN worker'[v].job = 0 /\ ~worker'[v].retried
                           ELSE worker'[v].job \in DOMAIN job'
    BY <1>1, <1>3, <1>4, <1>5 DEF IInv, JobsInv, Assigned, At
  <2> QED
    BY <1>2, <1>4, <1>5, <1>7, <2>1 DEF IInv, JobsInv, Assigned, At
<1>9. OneJobPerKey' /\ PromotionIsKept'
  BY <1>2, <1>4, <1>7 DEF IInv, JobsInv, Assigned, OneJobPerKey, PromotionIsKept, Active
<1>10. Promised'
  <2>1. \A v \in Workers : v # w /\ worker[v].retried => worker[v].job \in DOMAIN job
    BY DEF IInv, JobsInv, Assigned, At
  <2>2. \A v \in Workers : worker'[v].retried =>
       IF At(v, "begin")' THEN Mine(v)'.bypass ELSE Mine(v)'.tried \/ Mine(v)'.stopped
    BY <1>1, <1>3, <1>4, <1>5, <2>1 DEF IInv, JobsInv, Promised, At, Mine
  <2> QED
    BY <1>2, <1>4, <2>2 DEF IInv, JobsInv, Assigned, Promised
<1>11. ReachInv'
  BY <1>1, <1>2, <1>4, <1>5, ReachStays DEF Lasting, reach, At
<1> QED
  BY <1>6, <1>8, <1>9, <1>10, <1>11 DEF IInv, JobsInv

\* A worker that has just taken a job.
LEMMA TakenFacts ==
  ASSUME FetchAssumption, NEW j \in 0 .. MaxJobs
  PROVE  /\ [Free EXCEPT !.at = "begin", !.job = j] \in WorkerType
         /\ [Free EXCEPT !.at = "begin", !.job = j].at = "begin"
         /\ [Free EXCEPT !.at = "begin", !.job = j].job = j
         /\ ~[Free EXCEPT !.at = "begin", !.job = j].retried
<1>1. "down" \in Answers
  BY DEF FetchAssumption
<1> QED
  BY <1>1 DEF Free, WorkerType, Places

\* A job that has just ended.
Ended(r, ok) == [r EXCEPT !.state = "done", !.ok = ok]

LEMMA RunningFacts ==
  ASSUME NEW r \in Job
  PROVE  LET x == [r EXCEPT !.state = "running"] IN
         /\ x \in Job /\ x.state = "running"
         /\ x.key = r.key /\ x.session = r.session /\ x.bypass = r.bypass
         /\ x.stopped = r.stopped /\ x.ok = r.ok
         /\ x.waiters = r.waiters /\ x.tried = r.tried
<1> DEFINE x == [r EXCEPT !.state = "running"]
<1>1. x \in Job /\ x.state = "running"
  BY DEF Job
<1>2. x.key = r.key /\ x.session = r.session /\ x.bypass = r.bypass
  BY DEF Job
<1>3. x.stopped = r.stopped /\ x.ok = r.ok
  BY DEF Job
<1>4. x.waiters = r.waiters /\ x.tried = r.tried
  BY DEF Job
<1> QED
  BY <1>1, <1>2, <1>3, <1>4

LEMMA EndedFacts ==
  ASSUME NEW r \in Job, NEW ok \in BOOLEAN
  PROVE  /\ Ended(r, ok) \in Job
         /\ Ended(r, ok).state = "done" /\ Ended(r, ok).ok = ok
         /\ Ended(r, ok).key = r.key /\ Ended(r, ok).session = r.session
         /\ Ended(r, ok).bypass = r.bypass /\ Ended(r, ok).stopped = r.stopped
         /\ Ended(r, ok).waiters = r.waiters /\ Ended(r, ok).tried = r.tried
<1>1. /\ Ended(r, ok) \in Job
      /\ Ended(r, ok).state = "done" /\ Ended(r, ok).ok = ok
  BY DEF Ended, Job
<1>2. /\ Ended(r, ok).key = r.key /\ Ended(r, ok).session = r.session
      /\ Ended(r, ok).bypass = r.bypass /\ Ended(r, ok).stopped = r.stopped
  BY DEF Ended, Job
<1>3. Ended(r, ok).waiters = r.waiters /\ Ended(r, ok).tried = r.tried
  BY DEF Ended, Job
<1> QED
  BY <1>1, <1>2, <1>3

\* What the invariant says of jobs, in the form the steps below use.
LEMMA JobFacts ==
  ASSUME FetchAssumption, IInv
  PROVE  /\ launched \in Nat /\ DOMAIN job = 1 .. launched /\ job \in [1 .. launched -> Job]
         /\ worker \in [Workers -> WorkerType] /\ caller \in [Callers -> CallerType]
         /\ \A i \in DOMAIN job : job[i].waiters =
              {c \in Callers : caller[c].at # "idle" /\ caller[c].job = i}
         /\ \A i \in DOMAIN job :
              job[i].state = "running" <=> \E w \in Workers : worker[w].job = i
         /\ \A w \in Workers : ~At(w, "idle") =>
              worker[w].job \in DOMAIN job /\ job[worker[w].job].state = "running"
         /\ 0 \notin DOMAIN job
BY DEF FetchAssumption, IInv, JobsInv, JobTypes, Assigned, At

\* A worker takes the first job of the queue, which nobody else has in hand.
LEMMA TakeKeeps ==
  ASSUME FetchAssumption, IInv, NEW w \in Workers, Take(w)
  PROVE  IInv'
<1> DEFINE j == Head(queue)
<1>1. /\ queue \in Seq(Jobs) /\ queue # <<>>
      /\ \A h, i \in DOMAIN queue : queue[h] = queue[i] => h = i
      /\ \A i \in DOMAIN queue : queue[i] \in DOMAIN job /\ job[queue[i]].state = "queued"
      /\ Len(queue) <= Capacity
      /\ At(w, "idle") /\ worker[w].job = 0
      /\ hired \in {Workers, {}} /\ launched \in 0 .. MaxJobs
      /\ inflight \in [Keys -> 0 .. launched]
  BY DEF IInv, JobsInv, JobTypes, Assigned, Take
<1>2. /\ Tail(queue) \in Seq(Jobs) /\ Len(Tail(queue)) = Len(queue) - 1
      /\ Len(queue) > 0 /\ j = queue[1] /\ 1 \in DOMAIN queue
      /\ DOMAIN Tail(queue) = 1 .. Len(queue) - 1
      /\ \A i \in DOMAIN Tail(queue) : i + 1 \in DOMAIN queue /\ Tail(queue)[i] = queue[i + 1]
  BY <1>1, TailFacts
<1>3. j \in DOMAIN job /\ job[j].state = "queued" /\ j \in Jobs
      /\ \A v \in Workers : worker[v].job # j
  <2>1. j \in DOMAIN job /\ job[j].state = "queued" /\ j \in Jobs
    BY <1>1, <1>2
  <2>2. ~\E v \in Workers : worker[v].job = j
    BY <2>1, JobFacts
  <2> QED
    BY <2>1, <2>2
<1>4. /\ UNCHANGED <<hired, launched, inflight, caller>>
      /\ UNCHANGED <<circuit, offline, session, reset, notified>>
      /\ queue' = Tail(queue)
      /\ job' = [job EXCEPT ![j].state = "running"]
      /\ worker' = [worker EXCEPT ![w] = [Free EXCEPT !.at = "begin", !.job = j]]
  BY DEF Take, Kept, reach
<1> HIDE DEF j
<1>5. /\ worker' \in [Workers -> WorkerType]
      /\ worker'[w].at = "begin" /\ worker'[w].job = j /\ ~worker'[w].retried
      /\ \A v \in Workers : v # w => worker'[v] = worker[v]
  <2> DEFINE taken == [Free EXCEPT !.at = "begin", !.job = j]
  <2>1. taken \in WorkerType /\ taken.at = "begin" /\ taken.job = j /\ ~taken.retried
    <3>1. j \in 0 .. MaxJobs
      BY <1>3 DEF Jobs, FetchAssumption
    <3> QED
      BY <3>1, TakenFacts
  <2>2. worker' = [worker EXCEPT ![w] = taken]
    BY <1>4
  <2> HIDE DEF taken
  <2>3. worker \in [Workers -> WorkerType]
    BY JobFacts
  <2> QED
    BY <2>1, <2>2, <2>3
<1>6. /\ DOMAIN job' = DOMAIN job /\ job' \in [1 .. launched -> Job]
      /\ \A i \in DOMAIN job : i # j => job'[i] = job[i]
      /\ job'[j].state = "running"
      /\ \A i \in DOMAIN job :
           /\ job'[i].key = job[i].key /\ job'[i].session = job[i].session
           /\ job'[i].bypass = job[i].bypass /\ job'[i].stopped = job[i].stopped
           /\ job'[i].ok = job[i].ok /\ job'[i].waiters = job[i].waiters
           /\ job'[i].tried = job[i].tried
  <2>1. /\ job \in [1 .. launched -> Job] /\ DOMAIN job = 1 .. launched
        /\ job[j] \in Job
    BY <1>3, JobFacts
  <2>2. job' = [job EXCEPT ![j] = [job[j] EXCEPT !.state = "running"]]
    BY <1>4
  <2> DEFINE x == [job[j] EXCEPT !.state = "running"]
  <2>3. /\ job'[j] = x
        /\ \A i \in DOMAIN job : i # j => job'[i] = job[i]
        /\ DOMAIN job' = DOMAIN job
    BY <1>3, <2>1, <2>2
  <2>4. /\ x \in Job /\ x.state = "running"
        /\ x.key = job[j].key /\ x.session = job[j].session
        /\ x.bypass = job[j].bypass /\ x.stopped = job[j].stopped
        /\ x.ok = job[j].ok /\ x.waiters = job[j].waiters
        /\ x.tried = job[j].tried
    BY <2>1, RunningFacts
  <2> HIDE DEF x
  <2>5. job' \in [1 .. launched -> Job]
    BY <2>1, <2>2, <2>4 DEF x
  <2>6. ASSUME NEW i \in DOMAIN job
        PROVE  /\ job'[i].key = job[i].key /\ job'[i].session = job[i].session
               /\ job'[i].bypass = job[i].bypass /\ job'[i].stopped = job[i].stopped
               /\ job'[i].ok = job[i].ok /\ job'[i].waiters = job[i].waiters
               /\ job'[i].tried = job[i].tried
    <3>1. CASE i = j
      BY <2>3, <2>4, <3>1
    <3>2. CASE i # j
      BY <2>3, <3>2
    <3> QED
      BY <3>1, <3>2
  <2> QED
    BY <2>3, <2>4, <2>5, <2>6
<1>7. Active' = Active
  BY <1>3, <1>6 DEF Active
<1>8. ASSUME NEW i \in DOMAIN queue'
      PROVE  queue'[i] \in DOMAIN job' /\ job'[queue'[i]].state = "queued"
  <2>1. i \in 1 .. Len(queue) - 1 /\ i + 1 \in DOMAIN queue /\ queue'[i] = queue[i + 1]
    BY <1>2, <1>4
  <2>2. i + 1 # 1 /\ queue[i + 1] # j
    BY <1>1, <1>2, <2>1
  <2> QED
    BY <1>1, <1>6, <2>1, <2>2
<1>9. JobTypes'
  <2>1. \A i \in DOMAIN job' :
       job'[i].waiters = {c \in Callers : caller'[c].at # "idle" /\ caller'[c].job = i}
    BY <1>4, <1>6, JobFacts
  <2>2. ASSUME NEW i \in DOMAIN job'
        PROVE  job'[i].state = "running" <=> \E v \in Workers : worker'[v].job = i
    <3>1. CASE i = j
      BY <1>5, <1>6, <3>1
    <3>2. CASE i # j
      <4>1. i # 0
        BY <1>6, JobFacts
      <4>2. \A v \in Workers : worker'[v].job = i <=> worker[v].job = i
        BY <1>1, <1>5, <3>2, <4>1
      <4> QED
        BY <1>6, <3>2, <4>2, JobFacts
    <3> QED
      BY <3>1, <3>2
  <2>3. Len(queue') <= Capacity
    BY <1>1, <1>2, <1>4 DEF FetchAssumption
  <2> QED
    BY <1>1, <1>4, <1>5, <1>6, <1>8, <2>1, <2>2, <2>3, JobFacts DEF JobTypes
<1>10. Assigned'
  <2>1. \A h, i \in DOMAIN queue' : queue'[h] = queue'[i] => h = i
    BY <1>1, <1>2, <1>4
  <2>2. \A v \in Workers : IF worker'[v].at = "idle"
                           THEN worker'[v].job = 0 /\ ~worker'[v].retried
                           ELSE worker'[v].job \in DOMAIN job'
    BY <1>3, <1>5, <1>6 DEF IInv, JobsInv, Assigned, At
  <2>3. \A u, v \in Workers : worker'[u].at # "idle" /\ worker'[u].job = worker'[v].job
          => u = v
    BY <1>3, <1>5 DEF IInv, JobsInv, Assigned, At
  <2>4. /\ \A c \in Callers : caller'[c].at # "idle" => caller'[c].job \in DOMAIN job'
        /\ \A k \in Keys : inflight'[k] # 0 => inflight'[k] \in Active'
    BY <1>4, <1>6, <1>7 DEF IInv, JobsInv, Assigned
  <2>5. queue' \in Seq(Jobs)
    BY <1>2, <1>4
  <2> QED
    BY <2>1, <2>2, <2>3, <2>4, <2>5 DEF Assigned, At
<1>11. OneJobPerKey' /\ PromotionIsKept'
  BY <1>4, <1>6, <1>7 DEF IInv, JobsInv, Assigned, OneJobPerKey, PromotionIsKept, Active
<1>12. Promised'
  <2>1. \A v \in Workers : worker'[v].retried =>
       IF At(v, "begin")' THEN Mine(v)'.bypass ELSE Mine(v)'.tried \/ Mine(v)'.stopped
    BY <1>5, <1>6 DEF IInv, JobsInv, Assigned, Promised, At, Mine
  <2> QED
    BY <1>3, <1>4, <1>6, <2>1 DEF IInv, JobsInv, Assigned, Promised
<1>13. ReachInv'
  BY <1>1, <1>4, <1>5, <1>6, ReachStays DEF Lasting, reach, At
<1> QED
  BY <1>9, <1>10, <1>11, <1>12, <1>13 DEF IInv, JobsInv

\* A job ends, and with it the promise it was to keep.
LEMMA CompleteKeeps ==
  ASSUME FetchAssumption, IInv, NEW w \in Workers, Complete(w)
  PROVE  IInv'
<1> DEFINE j == worker[w].job
<1>1. /\ At(w, "end") /\ j \in DOMAIN job /\ job[j].state = "running"
      /\ worker[w].ok \in BOOLEAN /\ j \in Jobs
      /\ hired \in {Workers, {}} /\ launched \in 0 .. MaxJobs
      /\ inflight \in [Keys -> 0 .. launched]
      /\ queue \in Seq(Jobs) /\ Len(queue) <= Capacity
      /\ \A h, i \in DOMAIN queue : queue[h] = queue[i] => h = i
      /\ \A i \in DOMAIN queue : queue[i] \in DOMAIN job /\ job[queue[i]].state = "queued"
  BY JobFacts DEF IInv, JobsInv, JobTypes, Assigned, Complete, At, WorkerType, Jobs
<1>2. \A v \in Workers : v # w => worker[v].job # j
  BY <1>1 DEF IInv, JobsInv, Assigned, At
<1>3. /\ UNCHANGED <<hired, launched, queue, caller>>
      /\ UNCHANGED <<circuit, offline, session, reset, notified>>
      /\ job' = [job EXCEPT ![j].state = "done", ![j].ok = worker[w].ok]
      /\ inflight' = [k \in Keys |-> IF inflight[k] = j THEN 0 ELSE inflight[k]]
      /\ worker' = [worker EXCEPT ![w] = Free]
  BY DEF Complete, reach
<1>4. job[j].bypass /\ ~worker[w].ok => job[j].tried \/ job[j].stopped
  BY <1>1 DEF Complete, Again, IInv, JobsInv, Promised, At, Mine
<1> HIDE DEF j
<1>5. /\ worker' \in [Workers -> WorkerType]
      /\ worker'[w].at = "idle" /\ worker'[w].job = 0 /\ ~worker'[w].retried
      /\ \A v \in Workers : v # w => worker'[v] = worker[v]
  BY <1>3, JobFacts DEF WorkerType, Free, Places, FetchAssumption
<1>6. /\ DOMAIN job' = DOMAIN job /\ job' \in [1 .. launched -> Job]
      /\ \A i \in DOMAIN job : i # j => job'[i] = job[i]
      /\ job'[j].state = "done" /\ job'[j].ok = worker[w].ok
      /\ \A i \in DOMAIN job :
           /\ job'[i].key = job[i].key /\ job'[i].session = job[i].session
           /\ job'[i].bypass = job[i].bypass /\ job'[i].stopped = job[i].stopped
           /\ job'[i].waiters = job[i].waiters /\ job'[i].tried = job[i].tried
  <2>1. job' = [job EXCEPT ![j] = Ended(job[j], worker[w].ok)]
    BY <1>1, <1>3, JobFacts DEF Ended
  <2>2. job[j] \in Job
    BY <1>1, JobFacts
  <2> QED
    BY <1>1, <2>1, <2>2, EndedFacts, JobFacts
<1>7. Active' = Active \ {j}
  BY <1>1, <1>6 DEF Active
<1>8. JobTypes'
  <2>1. \A i \in DOMAIN job' :
       job'[i].waiters = {c \in Callers : caller'[c].at # "idle" /\ caller'[c].job = i}
    BY <1>3, <1>6, JobFacts
  <2>2. ASSUME NEW i \in DOMAIN job'
        PROVE  job'[i].state = "running" <=> \E v \in Workers : worker'[v].job = i
    <3>1. CASE i = j
      <4>1. i # 0
        BY <1>1, <3>1, JobFacts
      <4> QED
        BY <1>2, <1>5, <1>6, <3>1, <4>1
    <3>2. CASE i # j
      <4>1. i # 0 /\ i \in DOMAIN job /\ job'[i] = job[i]
            /\ (job[i].state = "running" <=> \E v \in Workers : worker[v].job = i)
        BY <1>6, <3>2, JobFacts
      <4>2. worker'[w].job # i /\ worker[w].job # i
        BY <1>5, <3>2, <4>1 DEF j
      <4>3. (\E v \in Workers : worker'[v].job = i) <=> \E v \in Workers : worker[v].job = i
        BY <1>5, <4>2
      <4> QED
        BY <4>1, <4>3
    <3> QED
      BY <3>1, <3>2
  <2>3. \A i \in DOMAIN queue' : queue'[i] \in DOMAIN job' /\ job'[queue'[i]].state = "queued"
    BY <1>1, <1>3, <1>6
  <2>4. inflight' \in [Keys -> 0 .. launched]
    BY <1>1, <1>3
  <2> QED
    BY <1>1, <1>3, <1>5, <1>6, <2>1, <2>2, <2>3, <2>4, JobFacts DEF JobTypes
<1>9. Assigned'
  <2>1. \A v \in Workers : IF worker'[v].at = "idle"
                           THEN worker'[v].job = 0 /\ ~worker'[v].retried
                           ELSE worker'[v].job \in DOMAIN job'
    BY <1>5, <1>6 DEF IInv, JobsInv, Assigned, At
  <2>2. \A u, v \in Workers : worker'[u].at # "idle" /\ worker'[u].job = worker'[v].job
          => u = v
    BY <1>5, JobFacts DEF IInv, JobsInv, Assigned, At
  <2>3. /\ \A c \in Callers : caller'[c].at # "idle" => caller'[c].job \in DOMAIN job'
        /\ \A k \in Keys : inflight'[k] # 0 => inflight'[k] \in Active'
    BY <1>3, <1>6, <1>7 DEF IInv, JobsInv, Assigned
  <2> QED
    BY <1>1, <1>3, <2>1, <2>2, <2>3 DEF Assigned, At
<1>10. OneJobPerKey'
  BY <1>1, <1>3, <1>6, <1>7, JobFacts DEF IInv, JobsInv, OneJobPerKey, Active, Job
<1>11. PromotionIsKept'
  BY <1>3, <1>6 DEF IInv, JobsInv, Assigned, PromotionIsKept
<1>12. Promised'
  <2>1. \A v \in Workers : worker'[v].retried =>
       IF At(v, "begin")' THEN Mine(v)'.bypass ELSE Mine(v)'.tried \/ Mine(v)'.stopped
    BY <1>5, <1>6 DEF IInv, JobsInv, Assigned, Promised, At, Mine
  <2>2. \A i \in DOMAIN job' : job'[i].state = "done" /\ job'[i].bypass /\ ~job'[i].ok =>
       job'[i].tried \/ job'[i].stopped
    BY <1>4, <1>6 DEF IInv, JobsInv, Promised
  <2>3. \A c \in Callers : caller'[c].at = "waiting" /\ caller'[c].active =>
       job'[caller'[c].job].bypass
    BY <1>3, <1>6 DEF IInv, JobsInv, Assigned, Promised
  <2> QED
    BY <2>1, <2>2, <2>3 DEF Promised
<1>13. ReachInv'
  BY <1>1, <1>3, <1>5, <1>6, ReachStays DEF Lasting, reach, At
<1> QED
  BY <1>8, <1>9, <1>10, <1>11, <1>12, <1>13 DEF IInv, JobsInv

-----------------------------------------------------------------------------
(***************************************************************************)
(* Steps of callers, of the session and of time.                           *)
(***************************************************************************)

\* Workers and queue are left alone; a job may be promoted while it is under
\* way, and stopped; a job that is under way is given up only if it is stopped.
Edits ==
  /\ UNCHANGED <<hired, launched, queue, worker>>
  /\ job' \in [1 .. launched -> Job]
  /\ \A i \in DOMAIN job :
       /\ job'[i].key = job[i].key /\ job'[i].session = job[i].session
       /\ job'[i].state = job[i].state /\ job'[i].ok = job[i].ok
       /\ job'[i].tried = job[i].tried
       /\ job[i].stopped => job'[i].stopped
       /\ job[i].bypass => job'[i].bypass
       /\ job[i].state = "done" => job'[i].bypass = job[i].bypass
  /\ \A k \in Keys : \/ inflight'[k] = inflight[k]
                     \/ /\ inflight'[k] = 0
                        /\ inflight[k] \in Active => job'[inflight[k]].stopped
  /\ inflight' \in [Keys -> 0 .. launched]

\* Such a step keeps the jobs' half if it is right about the callers.
LEMMA EditKeepsJobs ==
  ASSUME FetchAssumption, IInv, Edits, caller' \in [Callers -> CallerType],
         \A i \in DOMAIN job : job'[i].waiters =
           {c \in Callers : caller'[c].at # "idle" /\ caller'[c].job = i},
         \A c \in Callers : caller'[c].at # "idle" => caller'[c].job \in DOMAIN job,
         \A c \in Callers : caller'[c].at = "waiting" /\ caller'[c].active =>
           job'[caller'[c].job].bypass,
         PromotionIsKept'
  PROVE  JobsInv' /\ Lasting
<1>1. DOMAIN job' = DOMAIN job /\ DOMAIN job = 1 .. launched
  BY JobFacts DEF Edits
<1>2. Active' = Active
  BY <1>1 DEF Edits, Active
<1>3. JobTypes'
  <2>0. /\ worker' = worker
        /\ \A i \in DOMAIN job : job'[i].state = job[i].state
        /\ \A i \in DOMAIN job :
             job[i].state = "running" <=> \E v \in Workers : worker[v].job = i
    BY JobFacts DEF Edits
  <2>1. \A i \in DOMAIN job' :
       job'[i].state = "running" <=> \E v \in Workers : worker'[v].job = i
    BY <1>1, <2>0
  <2>2. \A i \in DOMAIN queue' : queue'[i] \in DOMAIN job' /\ job'[queue'[i]].state = "queued"
    BY <1>1 DEF Edits, IInv, JobsInv, JobTypes
  <2>3. Len(queue') <= Capacity /\ hired' \in {Workers, {}} /\ launched' \in 0 .. MaxJobs
        /\ worker' \in [Workers -> WorkerType]
    BY DEF Edits, IInv, JobsInv, JobTypes
  <2>4. job' \in [1 .. launched' -> Job] /\ inflight' \in [Keys -> 0 .. launched']
    BY DEF Edits
  <2> QED
    BY <1>1, <2>1, <2>2, <2>3, <2>4 DEF JobTypes
<1>4. Assigned'
  <2>1. /\ queue' \in Seq(Jobs)
        /\ \A h, i \in DOMAIN queue' : queue'[h] = queue'[i] => h = i
    BY DEF Edits, IInv, JobsInv, Assigned
  <2>2. \A v \in Workers : IF worker'[v].at = "idle"
                           THEN worker'[v].job = 0 /\ ~worker'[v].retried
                           ELSE worker'[v].job \in DOMAIN job'
    BY <1>1 DEF Edits, IInv, JobsInv, Assigned, At
  <2>3. \A u, v \in Workers : worker'[u].at # "idle" /\ worker'[u].job = worker'[v].job
          => u = v
    BY DEF Edits, IInv, JobsInv, Assigned, At
  <2>4. \A k \in Keys : inflight'[k] # 0 => inflight'[k] \in Active'
    BY <1>2 DEF Edits, IInv, JobsInv, Assigned
  <2> QED
    BY <1>1, <2>1, <2>2, <2>3, <2>4 DEF Assigned, At
<1>5. OneJobPerKey'
  <2>1. SUFFICES ASSUME NEW i \in Active, ~job'[i].stopped
                 PROVE  inflight'[job[i].key] = i
    BY <1>1, <1>2 DEF OneJobPerKey, Edits, Active
  <2>2. i \in DOMAIN job /\ job[i].key \in Keys /\ ~job[i].stopped
    BY <2>1, JobFacts DEF Active, Edits, Job
  <2>3. inflight[job[i].key] = i
    BY <2>2 DEF IInv, JobsInv, OneJobPerKey
  <2> QED
    BY <2>1, <2>2, <2>3 DEF Edits
<1>6. Promised'
  <2>1. \A v \in Workers : worker'[v].retried =>
       IF At(v, "begin")' THEN Mine(v)'.bypass ELSE Mine(v)'.tried \/ Mine(v)'.stopped
    BY DEF Edits, IInv, JobsInv, Assigned, Promised, At, Mine
  <2>2. \A i \in DOMAIN job' : job'[i].state = "done" /\ job'[i].bypass /\ ~job'[i].ok =>
       job'[i].tried \/ job'[i].stopped
    BY <1>1 DEF Edits, IInv, JobsInv, Promised
  <2> QED
    BY <2>1, <2>2 DEF Promised
<1>7. Lasting
  BY <1>1 DEF Edits, Lasting
<1> QED
  BY <1>3, <1>4, <1>5, <1>6, <1>7 DEF JobsInv

\* Such a step leaves the other half alone, too.
LEMMA EditKeeps ==
  ASSUME IInv, Edits, JobsInv', Lasting, UNCHANGED <<reach, session, reset, notified>>
  PROVE  IInv'
BY ReachStays DEF Edits, IInv

\* A job that is joined, and a job that is stopped or loses a waiter.
Joined(r, active, waiters) == [r EXCEPT !.bypass = @ \/ active, !.waiters = waiters]

LEMMA JoinedFacts ==
  ASSUME NEW r \in Job, NEW active \in BOOLEAN, NEW waiters \in SUBSET Callers
  PROVE  /\ Joined(r, active, waiters) \in Job
         /\ Joined(r, active, waiters).waiters = waiters
         /\ r.bypass \/ active => Joined(r, active, waiters).bypass
         /\ Joined(r, active, waiters).key = r.key
         /\ Joined(r, active, waiters).session = r.session
         /\ Joined(r, active, waiters).stopped = r.stopped
         /\ Joined(r, active, waiters).state = r.state
         /\ Joined(r, active, waiters).ok = r.ok
         /\ Joined(r, active, waiters).tried = r.tried
BY DEF Joined, Job

Left(r, stopped, waiters) == [r EXCEPT !.waiters = waiters, !.stopped = stopped]

LEMMA LeftFacts ==
  ASSUME NEW r \in Job, NEW stopped \in BOOLEAN, NEW waiters \in SUBSET Callers
  PROVE  /\ Left(r, stopped, waiters) \in Job
         /\ Left(r, stopped, waiters).waiters = waiters
         /\ Left(r, stopped, waiters).stopped = stopped
         /\ Left(r, stopped, waiters).key = r.key
         /\ Left(r, stopped, waiters).session = r.session
         /\ Left(r, stopped, waiters).bypass = r.bypass
         /\ Left(r, stopped, waiters).state = r.state
         /\ Left(r, stopped, waiters).ok = r.ok
         /\ Left(r, stopped, waiters).tried = r.tried
BY DEF Left, Job

\* A caller that joins a job, and the promise it is given.
LEMMA JoinKeeps ==
  ASSUME FetchAssumption, IInv, NEW c \in Callers, NEW k \in Keys,
         NEW active \in BOOLEAN, NEW waits \in BOOLEAN,
         caller[c].at = "idle", Join(c, k, active, waits),
         UNCHANGED <<hired, worker, reach, session, reset, notified>>
  PROVE  IInv'
<1> DEFINE j == inflight[k]
           ws == IF waits THEN job[j].waiters \cup {c} ELSE job[j].waiters
<1>1. /\ j \in DOMAIN job /\ job[j].state # "done" /\ job[j] \in Job
      /\ job \in [1 .. launched -> Job] /\ DOMAIN job = 1 .. launched
      /\ inflight \in [Keys -> 0 .. launched]
  BY JobFacts DEF Join, Joinable, IInv, JobsInv, JobTypes, Assigned, Active
<1>2. ws \in SUBSET Callers
  BY <1>1 DEF Job
<1>3. /\ job' = [job EXCEPT ![j] = Joined(job[j], active, ws)]
      /\ UNCHANGED <<launched, inflight, queue>>
  BY <1>1 DEF Join, Joined
<1> HIDE DEF ws
<1>4. /\ job' \in [1 .. launched -> Job]
      /\ \A i \in DOMAIN job : i # j => job'[i] = job[i]
      /\ job'[j] = Joined(job[j], active, ws)
  BY <1>1, <1>2, <1>3, JoinedFacts
<1>5. Edits
  <2>1. \A i \in DOMAIN job :
       /\ job'[i].key = job[i].key /\ job'[i].session = job[i].session
       /\ job'[i].state = job[i].state /\ job'[i].ok = job[i].ok
       /\ job'[i].tried = job[i].tried
       /\ job[i].stopped => job'[i].stopped
       /\ job[i].bypass => job'[i].bypass
       /\ job[i].state = "done" => job'[i].bypass = job[i].bypass
    BY <1>1, <1>2, <1>4, JoinedFacts
  <2> QED
    BY <1>1, <1>3, <1>4, <2>1 DEF Edits
<1>6. caller' = [caller EXCEPT ![c] =
        IF waits THEN [at |-> "waiting", job |-> j, active |-> active, ok |-> FALSE]
        ELSE Quiet]
  BY DEF Join, Waits
<1>7. /\ caller' \in [Callers -> CallerType]
      /\ \A d \in Callers : d # c => caller'[d] = caller[d]
      /\ waits => caller'[c].at = "waiting" /\ caller'[c].job = j
                  /\ caller'[c].active = active
      /\ ~waits => caller'[c].at = "idle"
  <2>1. j \in 0 .. MaxJobs
    BY <1>1 DEF IInv, JobsInv, JobTypes, FetchAssumption
  <2> HIDE DEF j
  <2>2. CASE waits
    BY <1>6, <2>1, <2>2, JobFacts DEF CallerType
  <2>3. CASE ~waits
    <3>1. Quiet \in CallerType /\ Quiet.at = "idle"
      BY DEF Quiet, CallerType, FetchAssumption
    <3> QED
      BY <1>6, <2>3, <3>1, JobFacts
  <2> QED
    BY <2>2, <2>3
<1>8. \A i \in DOMAIN job : job'[i].waiters =
           {d \in Callers : caller'[d].at # "idle" /\ caller'[d].job = i}
  <2>1. ASSUME NEW i \in DOMAIN job, i # j
        PROVE  job'[i].waiters = {d \in Callers : caller'[d].at # "idle" /\ caller'[d].job = i}
    BY <1>4, <1>7, <2>1, JobFacts
  <2>2. job'[j].waiters = ws
    BY <1>1, <1>2, <1>4, JoinedFacts
  <2>3. job[j].waiters = {d \in Callers : caller[d].at # "idle" /\ caller[d].job = j}
    BY <1>1, JobFacts
  <2>4. ws = {d \in Callers : caller'[d].at # "idle" /\ caller'[d].job = j}
    BY <1>7, <2>3 DEF ws
  <2> QED
    BY <2>1, <2>2, <2>4
<1>9. \A d \in Callers : caller'[d].at # "idle" => caller'[d].job \in DOMAIN job
  BY <1>1, <1>7 DEF IInv, JobsInv, Assigned
<1>10. \A d \in Callers : caller'[d].at = "waiting" /\ caller'[d].active =>
           job'[caller'[d].job].bypass
  <2>1. active => Joined(job[j], active, ws).bypass
    BY <1>1, <1>2, JoinedFacts, Zenon
  <2>2. waits /\ active => job'[j].bypass
    BY <1>4, <2>1, Zenon
  <2> QED
    BY <1>5, <1>7, <2>2 DEF Edits, IInv, JobsInv, Assigned, Promised
<1>11. PromotionIsKept'
  BY <1>5, <1>7, <1>9 DEF Edits, IInv, JobsInv, Assigned, PromotionIsKept
<1>12. JobsInv' /\ Lasting
  BY <1>5, <1>7, <1>8, <1>9, <1>10, <1>11, EditKeepsJobs
<1> QED
  BY <1>5, <1>12, EditKeeps

\* A caller whose wait has ended.
GotAnswer(r, ok) == [r EXCEPT !.at = "answered", !.ok = ok]
TooLate(r) == [r EXCEPT !.at = "late"]

LEMMA WaitEndFacts ==
  ASSUME NEW r \in CallerType, NEW ok \in BOOLEAN
  PROVE  /\ GotAnswer(r, ok) \in CallerType /\ TooLate(r) \in CallerType
         /\ GotAnswer(r, ok).at = "answered" /\ TooLate(r).at = "late"
         /\ GotAnswer(r, ok).ok = ok
         /\ GotAnswer(r, ok).job = r.job /\ TooLate(r).job = r.job
         /\ GotAnswer(r, ok).active = r.active /\ TooLate(r).active = r.active
BY DEF GotAnswer, TooLate, CallerType

\* The end of a wait, by an answer or by time.
LEMMA WaitEndKeeps ==
  ASSUME FetchAssumption, IInv, NEW c \in Callers, Answered(c) \/ TimedOut(c)
  PROVE  IInv'
<1>1. /\ UNCHANGED <<hired, launched, job, inflight, queue, worker>>
      /\ UNCHANGED <<reach, session, reset, notified>>
      /\ caller[c].at = "waiting" /\ caller[c].job \in DOMAIN job
      /\ job[caller[c].job] \in Job
      /\ inflight \in [Keys -> 0 .. launched]
  BY JobFacts DEF Answered, TimedOut, work, IInv, JobsInv, JobTypes, Assigned
<1>2. Edits
  BY <1>1, JobFacts DEF Edits
<1>3. /\ caller' \in [Callers -> CallerType]
      /\ \A d \in Callers : /\ d # c => caller'[d] = caller[d]
                            /\ caller'[d].job = caller[d].job
                            /\ caller'[d].active = caller[d].active
      /\ \/ /\ caller'[c].at = "answered" /\ caller'[c].ok = job[caller[c].job].ok
            /\ job[caller[c].job].state = "done"
         \/ caller'[c].at = "late"
  <2>1. job[caller[c].job].ok \in BOOLEAN
    BY <1>1 DEF Job
  <2>2. CASE Answered(c)
    <3> DEFINE ok == job[caller[c].job].ok
    <3>1. caller' = [caller EXCEPT ![c].at = "answered", ![c].ok = ok]
          /\ job[caller[c].job].state = "done" /\ ok \in BOOLEAN
      BY <2>1, <2>2 DEF Answered
    <3>2. caller \in [Callers -> CallerType] /\ caller[c] \in CallerType
      BY JobFacts
    <3> HIDE DEF ok
    <3>3. caller' = [caller EXCEPT ![c] = GotAnswer(caller[c], ok)]
      BY <3>1, <3>2 DEF GotAnswer
    <3>4. /\ GotAnswer(caller[c], ok) \in CallerType
          /\ GotAnswer(caller[c], ok).at = "answered"
          /\ GotAnswer(caller[c], ok).ok = ok
          /\ GotAnswer(caller[c], ok).job = caller[c].job
          /\ GotAnswer(caller[c], ok).active = caller[c].active
      BY <3>1, <3>2, WaitEndFacts
    <3>5. caller' \in [Callers -> CallerType] /\ caller'[c] = GotAnswer(caller[c], ok)
          /\ \A d \in Callers : d # c => caller'[d] = caller[d]
      BY <3>2, <3>3, <3>4
    <3> QED
      BY <3>1, <3>4, <3>5 DEF ok
  <2>3. CASE TimedOut(c)
    <3>1. caller' = [caller EXCEPT ![c].at = "late"]
      BY <2>3 DEF TimedOut
    <3>2. caller' = [caller EXCEPT ![c] = TooLate(caller[c])]
      BY <3>1, JobFacts DEF TooLate
    <3> QED
      BY <2>1, <3>2, WaitEndFacts, JobFacts
  <2> QED
    BY <2>2, <2>3
<1>4. \A d \in Callers : caller'[d].at # "idle" <=> caller[d].at # "idle"
  BY <1>1, <1>3
<1>5. \A i \in DOMAIN job : job'[i].waiters =
           {d \in Callers : caller'[d].at # "idle" /\ caller'[d].job = i}
  BY <1>1, <1>3, <1>4, JobFacts
<1>6. \A d \in Callers : caller'[d].at # "idle" => caller'[d].job \in DOMAIN job
  BY <1>3, <1>4 DEF IInv, JobsInv, Assigned
<1>7. \A d \in Callers : caller'[d].at = "waiting" /\ caller'[d].active =>
           job'[caller'[d].job].bypass
  BY <1>1, <1>3 DEF IInv, JobsInv, Promised
<1>8. PromotionIsKept'
  BY <1>1, <1>3 DEF IInv, JobsInv, Promised, PromotionIsKept
<1>9. JobsInv' /\ Lasting
  BY <1>2, <1>3, <1>5, <1>6, <1>7, <1>8, EditKeepsJobs
<1> QED
  BY <1>1, <1>2, <1>9, EditKeeps

\* A caller that leaves; a job nobody waits for and nobody works on is given up.
LEMMA ReleaseKeeps ==
  ASSUME FetchAssumption, IInv, NEW c \in Callers, Release(c)
  PROVE  IInv'
<1> DEFINE j == caller[c].job
           gone == /\ job[j].waiters = {c} /\ caller[c].at = "late"
                   /\ job[j].state = "done"
           stopped == job[j].stopped \/ gone
           ws == job[j].waiters \ {c}
<1>1. /\ j \in DOMAIN job /\ job[j] \in Job /\ caller[c].at # "idle"
      /\ job \in [1 .. launched -> Job] /\ DOMAIN job = 1 .. launched
      /\ inflight \in [Keys -> 0 .. launched]
  BY JobFacts DEF Release, IInv, JobsInv, JobTypes, Assigned
<1>2. ws \in SUBSET Callers /\ stopped \in BOOLEAN
  BY <1>1 DEF Job
<1>3. /\ job' = [job EXCEPT ![j] = Left(job[j], stopped, ws)]
      /\ inflight' = [k \in Keys |-> IF gone /\ inflight[k] = j THEN 0 ELSE inflight[k]]
      /\ caller' = [caller EXCEPT ![c] = Quiet]
      /\ UNCHANGED <<hired, launched, queue, worker, reach, session, reset, notified>>
  BY <1>1 DEF Release, Left
<1>4. (gone => job[j].state = "done") /\ ws = job[j].waiters \ {c}
  OBVIOUS
<1>5. job[j].stopped => stopped
  OBVIOUS
<1> HIDE DEF ws, stopped, gone
<1>6. /\ job' \in [1 .. launched -> Job]
      /\ \A i \in DOMAIN job : i # j => job'[i] = job[i]
      /\ job'[j] = Left(job[j], stopped, ws)
  BY <1>1, <1>2, <1>3, LeftFacts
<1>7. Edits
  <2>1. \A i \in DOMAIN job :
       /\ job'[i].key = job[i].key /\ job'[i].session = job[i].session
       /\ job'[i].state = job[i].state /\ job'[i].ok = job[i].ok
       /\ job'[i].tried = job[i].tried
       /\ job[i].stopped => job'[i].stopped
       /\ job[i].bypass => job'[i].bypass
       /\ job[i].state = "done" => job'[i].bypass = job[i].bypass
    BY <1>1, <1>2, <1>5, <1>6, LeftFacts
  <2>2. \A k \in Keys : \/ inflight'[k] = inflight[k]
                        \/ inflight'[k] = 0 /\ inflight[k] \notin Active
    BY <1>3, <1>4 DEF Active
  <2>3. inflight' \in [Keys -> 0 .. launched]
    BY <1>1, <1>3, JobFacts
  <2> QED
    BY <1>3, <1>6, <2>1, <2>2, <2>3 DEF Edits
<1>8. /\ caller' \in [Callers -> CallerType]
      /\ \A d \in Callers : d # c => caller'[d] = caller[d]
      /\ caller'[c].at = "idle"
  <2>1. Quiet \in CallerType /\ Quiet.at = "idle"
    BY DEF Quiet, CallerType, FetchAssumption
  <2> QED
    BY <1>3, <2>1, JobFacts
<1>9. \A i \in DOMAIN job : job'[i].waiters =
           {d \in Callers : caller'[d].at # "idle" /\ caller'[d].job = i}
  <2>1. ASSUME NEW i \in DOMAIN job, i # j
        PROVE  job'[i].waiters = {d \in Callers : caller'[d].at # "idle" /\ caller'[d].job = i}
    BY <1>6, <1>8, <2>1, JobFacts
  <2>2. job'[j].waiters = job[j].waiters \ {c}
    BY <1>1, <1>2, <1>4, <1>6, LeftFacts
  <2>3. job[j].waiters = {d \in Callers : caller[d].at # "idle" /\ caller[d].job = j}
    BY <1>1, JobFacts
  <2>4. job'[j].waiters = {d \in Callers : caller'[d].at # "idle" /\ caller'[d].job = j}
    BY <1>8, <2>2, <2>3
  <2> QED
    BY <2>1, <2>4
<1>10. \A d \in Callers : caller'[d].at # "idle" => caller'[d].job \in DOMAIN job
  BY <1>8 DEF IInv, JobsInv, Assigned
<1>11. \A d \in Callers : caller'[d].at = "waiting" /\ caller'[d].active =>
           job'[caller'[d].job].bypass
  BY <1>7, <1>8 DEF Edits, IInv, JobsInv, Assigned, Promised
<1>12. PromotionIsKept'
  BY <1>7, <1>8, <1>10 DEF Edits, IInv, JobsInv, Assigned, PromotionIsKept
<1>13. JobsInv' /\ Lasting
  BY <1>7, <1>8, <1>9, <1>10, <1>11, <1>12, EditKeepsJobs
<1> QED
  BY <1>3, <1>7, <1>13, EditKeeps

\* A job that is launched.
Fresh(k, s, active, accepted, waiters) ==
  [key |-> k, session |-> s, bypass |-> active, stopped |-> ~accepted,
   state |-> IF accepted THEN "queued" ELSE "done", ok |-> FALSE,
   waiters |-> waiters, tried |-> FALSE]

LEMMA FreshFacts ==
  ASSUME NEW k \in Keys, NEW s \in Sessions, NEW active \in BOOLEAN,
         NEW accepted \in BOOLEAN, NEW ws \in SUBSET Callers
  PROVE  /\ Fresh(k, s, active, accepted, ws) \in Job
         /\ Fresh(k, s, active, accepted, ws).key = k
         /\ Fresh(k, s, active, accepted, ws).bypass = active
         /\ Fresh(k, s, active, accepted, ws).waiters = ws
         /\ Fresh(k, s, active, accepted, ws).state # "running"
         /\ accepted => Fresh(k, s, active, accepted, ws).state = "queued"
         /\ ~accepted => /\ Fresh(k, s, active, accepted, ws).state = "done"
                         /\ Fresh(k, s, active, accepted, ws).stopped
BY DEF Fresh, Job

\* A job that is given up.
Stopped(r) == [r EXCEPT !.stopped = TRUE]

LEMMA StoppedFacts ==
  ASSUME NEW r \in Job
  PROVE  /\ Stopped(r) \in Job /\ Stopped(r).stopped
         /\ Stopped(r).key = r.key /\ Stopped(r).session = r.session
         /\ Stopped(r).bypass = r.bypass /\ Stopped(r).state = r.state
         /\ Stopped(r).ok = r.ok /\ Stopped(r).waiters = r.waiters
         /\ Stopped(r).tried = r.tried
BY DEF Stopped, Job

\* A caller that launches a job in place of an earlier session's.
LEMMA LaunchKeeps ==
  ASSUME FetchAssumption, IInv, NEW c \in Callers, NEW k \in Keys,
         NEW active \in BOOLEAN, NEW waits \in BOOLEAN,
         caller[c].at = "idle", Launch(c, k, active, waits),
         UNCHANGED <<hired, worker, reach, session, reset, notified>>
  PROVE  IInv'
<1> DEFINE new == launched + 1
           old == inflight[k]
           accepted == Accepts
           ws == IF waits THEN {c} ELSE {}
           fresh == Fresh(k, session, active, accepted, ws)
           kept == [j \in DOMAIN job |-> IF j = old THEN Stopped(job[j]) ELSE job[j]]
<1>1. /\ accepted \in BOOLEAN /\ ws \in SUBSET Callers /\ session \in Sessions
      /\ launched \in Nat /\ launched < MaxJobs /\ MaxJobs \in Nat
      /\ new \in 0 .. MaxJobs /\ new \in Jobs /\ new \in Nat /\ new # 0
      /\ new \notin DOMAIN job
      /\ job \in [1 .. launched -> Job] /\ DOMAIN job = 1 .. launched
      /\ inflight \in [Keys -> 0 .. launched]
  BY JobFacts DEF Launch, IInv, JobsInv, JobTypes, ReachInv, ReachTypes, FetchAssumption,
                  Jobs, Accepts
<1>2. /\ queue \in Seq(Jobs) /\ Len(queue) <= Capacity
      /\ \A h, i \in DOMAIN queue : queue[h] = queue[i] => h = i
      /\ \A i \in DOMAIN queue : queue[i] \in DOMAIN job /\ job[queue[i]].state = "queued"
      /\ accepted => Len(queue) < Capacity
      /\ hired \in {Workers, {}} /\ Capacity \in Nat
  BY DEF Accepts, IInv, JobsInv, JobTypes, Assigned, FetchAssumption
<1>3. /\ launched' = new
      /\ job' = Append(kept, fresh)
      /\ inflight' = [inflight EXCEPT ![k] = IF accepted THEN new ELSE 0]
      /\ queue' = IF accepted THEN Append(queue, new) ELSE queue
      /\ caller' = [caller EXCEPT ![c] =
           IF waits THEN [at |-> "waiting", job |-> new, active |-> active, ok |-> FALSE]
           ELSE Quiet]
  BY DEF Launch, Waits, Fresh, Stopped
<1>4. /\ fresh \in Job /\ fresh.key = k /\ fresh.bypass = active /\ fresh.waiters = ws
      /\ fresh.state # "running"
      /\ accepted => fresh.state = "queued"
      /\ ~accepted => fresh.state = "done" /\ fresh.stopped
  BY <1>1, FreshFacts
<1>5. ws = IF waits THEN {c} ELSE {}
  OBVIOUS
<1> HIDE DEF accepted, ws, fresh
<1>6. /\ kept \in [1 .. launched -> Job]
      /\ \A i \in DOMAIN job :
           /\ kept[i].key = job[i].key /\ kept[i].session = job[i].session
           /\ kept[i].bypass = job[i].bypass /\ kept[i].state = job[i].state
           /\ kept[i].ok = job[i].ok /\ kept[i].waiters = job[i].waiters
           /\ kept[i].tried = job[i].tried
           /\ job[i].stopped => kept[i].stopped
           /\ i = old => kept[i].stopped
  BY <1>1, StoppedFacts
<1> HIDE DEF kept
<1>7. /\ job' \in [1 .. new -> Job] /\ DOMAIN job' = 1 .. new /\ job'[new] = fresh
      /\ \A i \in DOMAIN job : i \in DOMAIN job' /\ job'[i] = kept[i]
      /\ \A i \in DOMAIN job' : i \in DOMAIN job \/ i = new
  <2>1. /\ Append(kept, fresh) \in [1 .. launched + 1 -> Job]
        /\ Append(kept, fresh)[launched + 1] = fresh
        /\ \A i \in 1 .. launched : Append(kept, fresh)[i] = kept[i]
    <3>1. launched \in Nat /\ kept \in [1 .. launched -> Job] /\ fresh \in Job
      BY <1>1, <1>4, <1>6
    <3> QED
      BY <3>1, AppendFacts
  <2> QED
    BY <1>1, <1>3, <2>1
<1> HIDE DEF new
<1>8. /\ caller' \in [Callers -> CallerType]
      /\ \A d \in Callers : d # c => caller'[d] = caller[d]
      /\ waits => caller'[c].at = "waiting" /\ caller'[c].job = new
                  /\ caller'[c].active = active
      /\ ~waits => caller'[c].at = "idle"
  <2>1. CASE waits
    BY <1>1, <1>3, <2>1, JobFacts DEF CallerType
  <2>2. CASE ~waits
    <3>1. Quiet \in CallerType /\ Quiet.at = "idle"
      BY DEF Quiet, CallerType, FetchAssumption
    <3> QED
      BY <1>3, <2>2, <3>1, JobFacts
  <2> QED
    BY <2>1, <2>2
<1>9. /\ \A v \in Workers : worker'[v] = worker[v] /\ worker[v].job # new
      /\ \A d \in Callers : caller[d].at # "idle" => caller[d].job \in DOMAIN job
  BY <1>1, JobFacts DEF IInv, JobsInv, Assigned
<1>10. /\ queue' \in Seq(Jobs) /\ Len(queue') <= Capacity
       /\ \A h, i \in DOMAIN queue' : queue'[h] = queue'[i] => h = i
       /\ \A i \in DOMAIN queue' : queue'[i] \in DOMAIN job' /\ job'[queue'[i]].state = "queued"
  <2>1. CASE accepted
    <3>1. queue' = Append(queue, new)
      BY <1>3, <2>1
    <3>2. /\ queue' \in Seq(Jobs) /\ Len(queue') = Len(queue) + 1
          /\ DOMAIN queue' = 1 .. Len(queue) + 1
          /\ queue'[Len(queue) + 1] = new
          /\ \A i \in DOMAIN queue : queue'[i] = queue[i]
          /\ DOMAIN queue = 1 .. Len(queue) /\ Len(queue) \in Nat
      BY <1>1, <1>2, <3>1
    <3>3. \A i \in DOMAIN queue' : i \in DOMAIN queue \/ i = Len(queue) + 1
      BY <3>2
    <3>4. job'[new].state = "queued" /\ new \in DOMAIN job'
      BY <1>1, <1>4, <1>7, <2>1
    <3>5. \A i \in DOMAIN queue : queue'[i] # new
      BY <1>1, <1>2, <3>2
    <3>6. \A h, i \in DOMAIN queue' : queue'[h] = queue'[i] => h = i
      BY <1>2, <3>2, <3>3, <3>5
    <3>7. ASSUME NEW i \in DOMAIN queue'
          PROVE  queue'[i] \in DOMAIN job' /\ job'[queue'[i]].state = "queued"
      <4>1. CASE i = Len(queue) + 1
        BY <3>2, <3>4, <4>1
      <4>2. CASE i \in DOMAIN queue
        <5>1. /\ queue'[i] = queue[i] /\ queue[i] \in DOMAIN job
              /\ job[queue[i]].state = "queued"
          BY <1>2, <3>2, <4>2
        <5>2. /\ queue[i] \in DOMAIN job'
              /\ job'[queue[i]].state = job[queue[i]].state
          BY <1>6, <1>7, <5>1
        <5> QED
          BY <5>1, <5>2
      <4> QED
        BY <3>3, <4>1, <4>2
    <3> QED
      BY <1>2, <2>1, <3>2, <3>6, <3>7
  <2>2. CASE ~accepted
    <3>1. queue' = queue
      BY <1>3, <2>2
    <3>2. \A i \in DOMAIN job : job'[i].state = job[i].state
      BY <1>6, <1>7
    <3> QED
      BY <1>2, <1>7, <3>1, <3>2
  <2> QED
    BY <2>1, <2>2
<1>11. inflight' \in [Keys -> 0 .. new]
       /\ inflight'[k] = (IF accepted THEN new ELSE 0)
       /\ \A l \in Keys : l # k => inflight'[l] = inflight[l]
  BY <1>1, <1>3 DEF new
<1>12. JobTypes'
  <2>1. ASSUME NEW i \in DOMAIN job
        PROVE  /\ job'[i].waiters =
                    {d \in Callers : caller'[d].at # "idle" /\ caller'[d].job = i}
               /\ job'[i].state = "running" <=> \E v \in Workers : worker'[v].job = i
    <3>1. job'[i].waiters = {d \in Callers : caller[d].at # "idle" /\ caller[d].job = i}
      BY <1>6, <1>7, JobFacts
    <3>2. \A d \in Callers : caller'[d].at # "idle" /\ caller'[d].job = i <=>
                             caller[d].at # "idle" /\ caller[d].job = i
      BY <1>1, <1>8
    <3>3. job[i].state = "running" <=> \E v \in Workers : worker[v].job = i
      BY JobFacts
    <3> QED
      BY <1>6, <1>7, <1>9, <3>1, <3>2, <3>3
  <2>2. job'[new].waiters = {d \in Callers : caller'[d].at # "idle" /\ caller'[d].job = new}
    <3>1. job'[new].waiters = ws
      BY <1>4, <1>7
    <3>2. \A d \in Callers : d # c /\ caller'[d].at # "idle" => caller'[d].job # new
      BY <1>1, <1>8, <1>9
    <3>3. CASE waits
      BY <1>5, <1>8, <3>1, <3>2, <3>3
    <3>4. CASE ~waits
      BY <1>5, <1>8, <3>1, <3>2, <3>4
    <3> QED
      BY <3>3, <3>4
  <2>3. job'[new].state = "running" <=> \E v \in Workers : worker'[v].job = new
    BY <1>4, <1>7, <1>9
  <2>4. worker' \in [Workers -> WorkerType] /\ hired' \in {Workers, {}}
    BY <1>2, JobFacts
  <2>5. /\ launched' = new /\ new \in 0 .. MaxJobs
        /\ job' \in [1 .. launched' -> Job] /\ inflight' \in [Keys -> 0 .. launched']
    BY <1>1, <1>3, <1>7, <1>11
  <2>6. \A i \in DOMAIN job' :
          /\ job'[i].waiters = {d \in Callers : caller'[d].at # "idle" /\ caller'[d].job = i}
          /\ job'[i].state = "running" <=> \E v \in Workers : worker'[v].job = i
    BY <1>7, <2>1, <2>2, <2>3
  <2>7. /\ Len(queue') <= Capacity /\ caller' \in [Callers -> CallerType]
        /\ \A i \in DOMAIN queue' : queue'[i] \in DOMAIN job' /\ job'[queue'[i]].state = "queued"
    BY <1>8, <1>10
  <2> QED
    BY <2>4, <2>5, <2>6, <2>7 DEF JobTypes
<1>13. Active \subseteq Active' /\ \A i \in Active' : i \in Active \/ (i = new /\ accepted)
  BY <1>4, <1>6, <1>7 DEF Active
<1>14. Assigned'
  <2>1. \A v \in Workers : IF worker'[v].at = "idle"
                           THEN worker'[v].job = 0 /\ ~worker'[v].retried
                           ELSE worker'[v].job \in DOMAIN job'
    BY <1>7, <1>9 DEF IInv, JobsInv, Assigned, At
  <2>2. \A u, v \in Workers : worker'[u].at # "idle" /\ worker'[u].job = worker'[v].job
          => u = v
    BY <1>9 DEF IInv, JobsInv, Assigned, At
  <2>3. \A d \in Callers : caller'[d].at # "idle" => caller'[d].job \in DOMAIN job'
    BY <1>1, <1>7, <1>8, <1>9
  <2>4. \A l \in Keys : inflight'[l] # 0 => inflight'[l] \in Active'
    <3>1. accepted => new \in Active'
      BY <1>1, <1>4, <1>7 DEF Active
    <3> QED
      BY <1>11, <1>13, <3>1 DEF IInv, JobsInv, Assigned
  <2> QED
    BY <1>10, <2>1, <2>2, <2>3, <2>4 DEF Assigned, At
<1>15. OneJobPerKey'
  <2>1. SUFFICES ASSUME NEW i \in Active', ~job'[i].stopped
                 PROVE  inflight'[job'[i].key] = i
    BY DEF OneJobPerKey
  <2>2. CASE i = new /\ accepted
    BY <1>4, <1>7, <1>11, <2>2
  <2>3. CASE i \in Active
    <3>1. i \in DOMAIN job /\ job'[i].key = job[i].key /\ ~job[i].stopped /\ i # old
          /\ job[i].key \in Keys
      BY <1>1, <1>6, <1>7, <2>1, <2>3 DEF Active, Job
    <3>2. inflight[job[i].key] = i
      BY <2>3, <3>1 DEF IInv, JobsInv, OneJobPerKey
    <3> QED
      BY <1>11, <3>1, <3>2
  <2> QED
    BY <1>13, <2>2, <2>3
<1>16. PromotionIsKept'
  BY <1>6, <1>7, <1>8, <1>9 DEF IInv, JobsInv, PromotionIsKept
<1>17. Promised'
  <2>1. \A v \in Workers : worker'[v].retried =>
       IF At(v, "begin")' THEN Mine(v)'.bypass ELSE Mine(v)'.tried \/ Mine(v)'.stopped
    BY <1>6, <1>7, <1>9 DEF IInv, JobsInv, Assigned, Promised, At, Mine
  <2>2. \A i \in DOMAIN job' : job'[i].state = "done" /\ job'[i].bypass /\ ~job'[i].ok =>
       job'[i].tried \/ job'[i].stopped
    BY <1>4, <1>6, <1>7 DEF IInv, JobsInv, Promised
  <2>3. \A d \in Callers : caller'[d].at = "waiting" /\ caller'[d].active =>
       job'[caller'[d].job].bypass
    BY <1>4, <1>6, <1>7, <1>8, <1>9 DEF IInv, JobsInv, Promised
  <2> QED
    BY <2>1, <2>2, <2>3 DEF Promised
<1>18. ReachInv'
  BY <1>6, <1>7, ReachStays DEF Lasting
<1> QED
  BY <1>12, <1>14, <1>15, <1>16, <1>17, <1>18 DEF IInv, JobsInv

\* launchOrJoinBlob.
LEMMA AskKeeps ==
  ASSUME FetchAssumption, IInv, NEW c \in Callers, Ask(c)
  PROVE  IInv'
<1>1. PICK k \in Keys, active \in BOOLEAN, waits \in BOOLEAN :
        Join(c, k, active, waits) \/ Launch(c, k, active, waits)
  BY DEF Ask
<1>2. caller[c].at = "idle" /\ UNCHANGED <<hired, worker, reach, session, reset, notified>>
  BY DEF Ask
<1>3. CASE Join(c, k, active, waits)
  BY <1>2, <1>3, JoinKeeps
<1>4. CASE Launch(c, k, active, waits)
  BY <1>2, <1>4, LaunchKeeps
<1> QED
  BY <1>1, <1>3, <1>4

\* A step that stops jobs, and gives up none but these.
LEMMA StopKeeps ==
  ASSUME FetchAssumption, IInv, NEW gone \in SUBSET (DOMAIN job),
         job' = [j \in DOMAIN job |-> IF j \in gone THEN Stopped(job[j]) ELSE job[j]],
         \A k \in Keys : \/ inflight'[k] = inflight[k]
                         \/ inflight'[k] = 0 /\ inflight[k] \in gone \cup {0},
         inflight' \in [Keys -> 0 .. launched],
         UNCHANGED <<hired, launched, queue, worker, caller>>
  PROVE  JobsInv' /\ Lasting /\ Edits
<1>1. /\ job \in [1 .. launched -> Job] /\ DOMAIN job = 1 .. launched
      /\ \A i \in DOMAIN job : job[i] \in Job
  <2>1. job \in [1 .. launched -> Job]
    BY JobFacts
  <2> QED
    BY <2>1
<1>2. /\ job' \in [1 .. launched -> Job]
      /\ \A i \in DOMAIN job :
           /\ job'[i].key = job[i].key /\ job'[i].session = job[i].session
           /\ job'[i].state = job[i].state /\ job'[i].ok = job[i].ok
           /\ job'[i].tried = job[i].tried /\ job'[i].bypass = job[i].bypass
           /\ job'[i].waiters = job[i].waiters
           /\ job[i].stopped => job'[i].stopped
           /\ i \in gone => job'[i].stopped
  <2>1. /\ DOMAIN job' = DOMAIN job
        /\ \A i \in DOMAIN job :
             /\ i \in gone => job'[i] = Stopped(job[i])
             /\ i \notin gone => job'[i] = job[i]
    OBVIOUS
  <2>2. \A i \in DOMAIN job : job'[i] \in Job
    BY <1>1, <2>1, StoppedFacts
  <2>3. job' \in [1 .. launched -> Job]
    BY <1>1, <2>1, <2>2
  <2>4. \A i \in gone : i \in DOMAIN job
    OBVIOUS
  <2> QED
    BY <1>1, <2>1, <2>3, <2>4, StoppedFacts
<1>3. Edits
  <2>1. 0 \notin Active
    BY JobFacts DEF Active
  <2> QED
    BY <1>2, <2>1 DEF Edits
<1>4. \A i \in DOMAIN job : job'[i].waiters =
           {c \in Callers : caller'[c].at # "idle" /\ caller'[c].job = i}
  BY <1>2, JobFacts
<1>5. \A c \in Callers : caller'[c].at # "idle" => caller'[c].job \in DOMAIN job
  BY DEF IInv, JobsInv, Assigned
<1>6. \A c \in Callers : caller'[c].at = "waiting" /\ caller'[c].active =>
           job'[caller'[c].job].bypass
  BY <1>2, <1>5 DEF IInv, JobsInv, Promised
<1>7. PromotionIsKept'
  BY <1>2, <1>5 DEF IInv, JobsInv, PromotionIsKept
<1>8. caller' \in [Callers -> CallerType]
  BY JobFacts
<1> QED
  BY <1>3, <1>4, <1>5, <1>6, <1>7, <1>8, EditKeepsJobs

\* A deadline passes, or the jobs of an earlier session are given up.
LEMMA ExpireKeeps ==
  ASSUME FetchAssumption, IInv, Expire
  PROVE  IInv'
<1>1. PICK j \in DOMAIN job : job' = [job EXCEPT ![j].stopped = TRUE]
  BY DEF Expire
<1>2. /\ UNCHANGED <<hired, launched, inflight, queue, worker, caller>>
      /\ UNCHANGED <<reach, session, reset, notified>>
      /\ inflight \in [Keys -> 0 .. launched]
  BY DEF Expire, IInv, JobsInv, JobTypes
<1>3. job' = [i \in DOMAIN job |-> IF i \in {j} THEN Stopped(job[i]) ELSE job[i]]
  BY <1>1, JobFacts DEF Stopped
<1>4. {j} \in SUBSET (DOMAIN job)
  OBVIOUS
<1>5. JobsInv' /\ Lasting /\ Edits
  BY <1>2, <1>3, <1>4, StopKeeps
<1> QED
  BY <1>2, <1>5, EditKeeps

LEMMA ResetJobsKeeps ==
  ASSUME FetchAssumption, IInv, ResetJobs
  PROVE  IInv'
<1> DEFINE gone == {j \in DOMAIN job : \E k \in Keys : inflight[k] = j}
<1>1. /\ job' = [j \in DOMAIN job |-> IF j \in gone THEN Stopped(job[j]) ELSE job[j]]
      /\ inflight' = [k \in Keys |-> 0]
  BY DEF ResetJobs, Stopped
<1>2. /\ UNCHANGED <<hired, launched, queue, worker, caller>>
      /\ UNCHANGED <<circuit, offline, session, notified>>
      /\ reset' = "no" /\ reset = "jobs"
  BY DEF ResetJobs, reach
<1>3. \A k \in Keys : inflight'[k] = 0 /\ inflight[k] \in gone \cup {0}
  BY <1>1 DEF IInv, JobsInv, Assigned, Active
<1>4. inflight' \in [Keys -> 0 .. launched]
  BY <1>1, JobFacts
<1>5. gone \in SUBSET (DOMAIN job)
  OBVIOUS
<1> HIDE DEF gone
<1>6. JobsInv' /\ Lasting /\ Edits
  BY <1>1, <1>2, <1>3, <1>4, <1>5, StopKeeps
<1>7. ReachTypes' /\ MarksAreCurrent'
  BY <1>2 DEF IInv, ReachInv, ReachTypes, MarksAreCurrent
<1>8. ProbeIsHeld'
  BY <1>2, <1>6 DEF IInv, ReachInv, JobsInv, Assigned, ReachTypes, ProbeIsHeld, Lasting, At, Mine
<1> QED
  BY <1>6, <1>7, <1>8 DEF IInv, ReachInv

\* A step that leaves every job alone.
LEMMA JobsStay ==
  ASSUME IInv, UNCHANGED <<hired, work, worker, caller>>
  PROVE  JobsInv' /\ Lasting
<1> USE DEF work, IInv, JobsInv
<1>1. JobTypes' /\ Assigned'
  BY DEF JobTypes, Assigned, Active, At
<1>2. OneJobPerKey' /\ Promised' /\ PromotionIsKept'
  BY DEF OneJobPerKey, Promised, PromotionIsKept, Active, At, Mine
<1>3. Lasting
  BY DEF Lasting
<1> QED
  BY <1>1, <1>2, <1>3

\* The session ends: no probe outlives it, and its marks are to go.
LEMMA SessionKeeps ==
  ASSUME FetchAssumption, IInv, ResetSession \/ ResetMarks \/ Cool
  PROVE  IInv'
<1>1. UNCHANGED <<hired, work, worker, caller>>
  BY DEF ResetSession, ResetMarks, Cool
<1>2. JobsInv' /\ Lasting
  BY <1>1, JobsStay
<1>3. CASE ResetSession
  <2>1. session' \in Sessions
    BY <1>3 DEF ResetSession, IInv, ReachInv, ReachTypes, Sessions, FetchAssumption
  <2>2. /\ circuit' = [circuit EXCEPT !.probe = Nobody] /\ reset' = "marks"
        /\ UNCHANGED <<offline, notified>>
    BY <1>3 DEF ResetSession
  <2>3. ReachTypes'
    BY <2>1, <2>2 DEF IInv, ReachInv, ReachTypes
  <2>4. ProbeIsHeld' /\ MarksAreCurrent'
    BY <2>2 DEF IInv, ReachInv, ReachTypes, ProbeIsHeld, MarksAreCurrent
  <2> QED
    BY <1>2, <2>3, <2>4 DEF IInv, ReachInv
<1>4. CASE ResetMarks
  <2>1. notified' = {} /\ reset' = "jobs" /\ UNCHANGED <<circuit, offline, session>>
    BY <1>4 DEF ResetMarks, reach
  <2>2. ReachTypes' /\ MarksAreCurrent'
    BY <2>1 DEF IInv, ReachInv, ReachTypes, MarksAreCurrent
  <2>3. ProbeIsHeld'
    BY <1>1, <2>1 DEF IInv, ReachInv, ProbeIsHeld, At, Mine, work
  <2> QED
    BY <1>2, <2>2, <2>3 DEF IInv, ReachInv
<1>5. CASE Cool
  <2>1. /\ circuit' = [circuit EXCEPT !.cooled = TRUE]
        /\ UNCHANGED <<offline, session, reset, notified>>
    BY <1>5 DEF Cool
  <2>2. ReachTypes' /\ MarksAreCurrent'
    BY <2>1 DEF IInv, ReachInv, ReachTypes, MarksAreCurrent
  <2>3. ProbeIsHeld'
    BY <1>1, <2>1 DEF IInv, ReachInv, ReachTypes, ProbeIsHeld, At, Mine, work
  <2> QED
    BY <1>2, <2>2, <2>3 DEF IInv, ReachInv
<1> QED
  BY <1>3, <1>4, <1>5

\* Job j keeps its budget, and its place for those who ask next.
Spares(j) ==
  /\ job'[j].stopped = job[j].stopped
  /\ inflight[job[j].key] = j => inflight'[job[j].key] = j

\* Joining promotes and counts, and no more.
LEMMA JoinSpares ==
  ASSUME IInv, NEW c \in Callers, NEW k \in Keys, NEW active \in BOOLEAN,
         NEW waits \in BOOLEAN, Join(c, k, active, waits), NEW j \in Active
  PROVE  Spares(j)
<1>1. job \in [1 .. launched -> Job] /\ j \in DOMAIN job
  BY DEF IInv, JobsInv, JobTypes, Active
<1>2. /\ job' = [job EXCEPT ![inflight[k]].bypass = @ \/ active,
                           ![inflight[k]].waiters = IF waits THEN @ \cup {c} ELSE @]
      /\ UNCHANGED inflight
  BY DEF Join
<1>3. job'[j].stopped = job[j].stopped
  BY <1>1, <1>2 DEF Job
<1> QED
  BY <1>2, <1>3 DEF Spares

\* What a launch replaces is of an earlier session.
LEMMA LaunchSpares ==
  ASSUME IInv, NEW c \in Callers, NEW k \in Keys, NEW active \in BOOLEAN,
         NEW waits \in BOOLEAN, Launch(c, k, active, waits), NEW j \in Active,
         job[j].session = session, FetchAssumption
  PROVE  Spares(j)
<1> DEFINE old == inflight[k]
           left == [i \in DOMAIN job |->
                      IF i = old THEN Stopped(job[i]) ELSE job[i]]
           fresh == Fresh(k, session, active, Accepts, IF waits THEN {c} ELSE {})
<1>1. /\ launched \in Nat /\ job \in [1 .. launched -> Job] /\ j \in 1 .. launched
      /\ session \in Sessions /\ inflight \in [Keys -> 0 .. launched]
  BY DEF IInv, JobsInv, JobTypes, ReachInv, ReachTypes, Active
<1>2. /\ job' = Append(left, fresh)
      /\ inflight' = [inflight EXCEPT ![k] = IF Accepts THEN launched + 1 ELSE 0]
  BY DEF Launch, Fresh, Stopped
<1>3. j # old
  BY <1>1 DEF Launch, Joinable
<1>4. left \in [1 .. launched -> Job] /\ left[j] = job[j]
  BY <1>1, <1>3, StoppedFacts
<1>5. fresh \in Job
  <2>1. Accepts \in BOOLEAN
    BY DEF Accepts
  <2> QED
    BY <1>1, <2>1, FreshFacts
<1> HIDE DEF left, fresh
<1>6. job'[j] = job[j]
  BY <1>1, <1>2, <1>4, <1>5, AppendFacts
<1>7. inflight[job[j].key] = j => inflight'[job[j].key] = j
  BY <1>1, <1>2, <1>3
<1> QED
  BY <1>6, <1>7 DEF Spares

\* Leaving takes with it only what has ended.
LEMMA ReleaseSpares ==
  ASSUME IInv, NEW c \in Callers, Release(c), NEW j \in Active
  PROVE  Spares(j)
<1> DEFINE i == caller[c].job
           gone == job[i].waiters = {c} /\ caller[c].at = "late" /\ job[i].state = "done"
<1>1. /\ job \in [1 .. launched -> Job] /\ j \in DOMAIN job /\ job[j].state # "done"
      /\ inflight \in [Keys -> 0 .. launched] /\ job[j].key \in Keys
  BY DEF IInv, JobsInv, JobTypes, Active, Job
<1>2. /\ job' = [job EXCEPT ![i].waiters = @ \ {c}, ![i].stopped = @ \/ gone]
      /\ inflight' = [k \in Keys |-> IF gone /\ inflight[k] = i THEN 0 ELSE inflight[k]]
  BY DEF Release
<1>3. gone => i # j
  BY <1>1
<1>4. gone \in BOOLEAN
  OBVIOUS
<1> HIDE DEF gone, i
<1>5. job'[j].stopped = job[j].stopped
  BY <1>1, <1>2, <1>3, <1>4 DEF Job
<1>6. inflight[job[j].key] = j => inflight'[job[j].key] = j
  BY <1>1, <1>2, <1>3
<1> QED
  BY <1>5, <1>6 DEF Spares

-----------------------------------------------------------------------------
(***************************************************************************)
(* The theorems.                                                           *)
(***************************************************************************)

\* The invariant holds in every state of every behaviour.
LEMMA Invariance == Spec => []IInv
<1>1. Init => IInv
  BY FetchAssumption, Initially
<1>2. IInv /\ [Next]_vars => IInv'
  <2> SUFFICES ASSUME IInv, [Next]_vars PROVE IInv'
    OBVIOUS
  <2>1. ASSUME NEW c \in Callers, Ask(c) \/ Answered(c) \/ TimedOut(c) \/ Release(c)
        PROVE  IInv'
    BY <2>1, FetchAssumption, AskKeeps, WaitEndKeeps, ReleaseKeeps
  <2>2. ASSUME NEW w \in Workers, Works(w)
        PROVE  IInv'
    <3>1. CASE Take(w) \/ Begin(w) \/ Complete(w) \/ Retry(w)
      BY <3>1, FetchAssumption, TakeKeeps, BeginKeeps, CompleteKeeps, RetryKeeps
    <3>2. CASE Get(w) \/ Throw(w) \/ Write(w) \/ Mark(w)
      BY <3>2, FetchAssumption, PassagesKeep, MarkKeeps
    <3>3. CASE BeginAttempt(w) \/ FinishAttempt(w) \/ Flag(w)
      BY <3>3, FetchAssumption, BeginAttemptKeeps, FinishAttemptKeeps, FlagKeeps
    <3> QED
      BY <2>2, <3>1, <3>2, <3>3 DEF Works
  <2>3. CASE ResetSession \/ ResetMarks \/ Cool
    BY <2>3, FetchAssumption, SessionKeeps
  <2>4. CASE ResetJobs \/ Expire
    BY <2>4, FetchAssumption, ResetJobsKeeps, ExpireKeeps
  <2>5. CASE UNCHANGED vars
    <3>1. UNCHANGED <<hired, work, worker, caller>>
          /\ UNCHANGED <<reach, session, reset, notified>>
      BY <2>5 DEF vars
    <3> QED
      BY <3>1, JobsStay, ReachStays DEF IInv
  <2> QED
    BY <2>1, <2>2, <2>3, <2>4, <2>5 DEF Next
<1> QED
  BY <1>1, <1>2, PTL DEF Spec

\* The variables keep their types: a job is where its state says, and its
\* waiters are the callers inside awaitManifestBlobFor.
THEOREM TypesKept == Spec => []TypeOK
<1>1. IInv => TypeOK
  BY TypesSplit DEF IInv, JobsInv, ReachInv
<1> QED
  BY <1>1, Invariance, PTL

\* launchOrJoinBlob never has two jobs of a manifest running that are not
\* stopped, whatever callers leave and however often the session is reset.
THEOREM OneJobPerKeyKept == Spec => []OneJobPerKey
<1>1. IInv => OneJobPerKey
  BY DEF IInv, JobsInv
<1> QED
  BY <1>1, Invariance, PTL

\* releaseBlobWaiter and launchOrJoinBlob leave the jobs of the session to the
\* workers: a job is given up by its deadline, a reset or the next session.
THEOREM NoCallerStopsKept == Spec => NoCallerStops
<1>1. ASSUME IInv, [Next]_vars, NEW j \in Active,
             <<caller, launched>>' # <<caller, launched>>,
             job[j].session = session
      PROVE  Spares(j)
  <2>1. ASSUME NEW c \in Callers, Ask(c) PROVE Spares(j)
    BY <1>1, <2>1, FetchAssumption, JoinSpares, LaunchSpares DEF Ask
  <2>2. ASSUME NEW c \in Callers, Answered(c) \/ TimedOut(c) PROVE Spares(j)
    BY <2>2 DEF Answered, TimedOut, work, Spares
  <2>3. ASSUME NEW c \in Callers, Release(c) PROVE Spares(j)
    BY <1>1, <2>3, ReleaseSpares
  <2>4. ASSUME NEW w \in Workers, Works(w) PROVE FALSE
    BY <1>1, <2>4 DEF Works, Take, Begin, Get, Throw, BeginAttempt, FinishAttempt,
                      Flag, Mark, Write, Retry, Complete, Kept, work
  <2>5. ASSUME ResetSession \/ ResetMarks \/ ResetJobs \/ Expire \/ Cool
        PROVE  FALSE
    BY <1>1, <2>5 DEF ResetSession, ResetMarks, ResetJobs, Expire, Cool, work
  <2>6. ASSUME UNCHANGED vars PROVE FALSE
    BY <1>1, <2>6 DEF vars, work
  <2> QED
    BY <1>1, <2>1, <2>2, <2>3, <2>4, <2>5, <2>6 DEF Next
<1>2. IInv /\ [Next]_vars =>
        [<<caller, launched>>' # <<caller, launched>> =>
           \A j \in Active : job[j].session = session =>
             /\ job'[j].stopped = job[j].stopped
             /\ inflight[job[j].key] = j => inflight'[job[j].key] = j]_vars
  BY <1>1 DEF Spares
<1> QED
  BY <1>2, Invariance, PTL DEF Spec, NoCallerStops

\* A caller that promotes a job, before its attempt, during it or after it,
\* gets the attempt it was promised.
THEOREM PromotionIsKeptKept == Spec => []PromotionIsKept
<1>1. IInv => PromotionIsKept
  BY DEF IInv, JobsInv
<1> QED
  BY <1>1, Invariance, PTL

\* The half-open probe of ProviderCircuit is never left behind.
THEOREM ProbeIsHeldKept == Spec => []ProbeIsHeld
<1>1. IInv => ProbeIsHeld
  BY DEF IInv, ReachInv
<1> QED
  BY <1>1, Invariance, PTL

\* markMissingForNotification leaves no mark of an earlier session.
THEOREM MarksAreCurrentKept == Spec => []MarksAreCurrent
<1>1. IInv => MarksAreCurrent
  BY DEF IInv, ReachInv
<1> QED
  BY <1>1, Invariance, PTL
=============================================================================
