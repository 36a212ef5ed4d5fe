---------------------------- MODULE ManifestFetch ----------------------------
(***************************************************************************)
(* Manifests fetched from the one archive that serves them                 *)
(* (src/utils/ManifestFetch.cpp, ManifestFetch.hpp) by the workers of a    *)
(* bounded executor (src/utils/boundedexecutor.hpp).                       *)
(*                                                                         *)
(* A caller launches a job for a manifest or joins the one under way, and  *)
(* may wait for it.  A worker restores the manifest from the local store   *)
(* or asks the archive, which also feeds the circuit that tells whether    *)
(* the archive can be reached.  The client's session can be reset at any   *)
(* time.  g_blobLock, g_circuitLock, g_missingNotifyLock and the           *)
(* executor's lock are each held over one step or one part of a step; what *)
(* a worker does between two of them are steps of their own.               *)
(***************************************************************************)
EXTENDS Integers, FiniteSets, Sequences

CONSTANTS
  Keys,         \* the manifests: a depot and a gid each
  Callers,      \* the threads that ask for them
  Workers,      \* the threads of the executor
  Capacity,     \* m_maxQueue of the executor
  Threshold,    \* m_threshold of the circuit
  Answers,      \* what the archive may answer: "served", "absent", "odd" for
                \* what is no manifest, "limited", "down"
  MaxJobs,      \* bound: jobs launched
  MaxSessions,  \* bound: sessions
  Nobody        \* no thread

ASSUME FetchAssumption ==
  /\ Capacity \in Nat \ {0} /\ Threshold \in Nat \ {0}
  /\ MaxJobs \in Nat \ {0} /\ MaxSessions \in Nat \ {0}
  /\ Answers \subseteq {"served", "absent", "odd", "limited", "down"}
  /\ "down" \in Answers /\ Nobody \notin Workers

Jobs == 1 .. MaxJobs
Sessions == 1 .. MaxSessions

VARIABLES
  hired,     \* the workers that could be started: all or, after a failure, none
  queue,     \* m_tasks of the executor
  launched,  \* how many jobs have been launched
  job,       \* the jobs
  inflight,  \* g_blobInflight: the job of a key, 0 if there is none
  worker,    \* where each worker stands, with its locals
  caller,    \* where each caller stands, with its locals
  circuit,   \* g_providerCircuit; a token is named by the worker that holds it
  offline,   \* g_providersOffline
  session,   \* g_sessionEpoch
  reset,     \* how far resetSessionState has come
  notified   \* g_missingNotified, with the session each is of

work  == <<launched, job, inflight, queue>>
reach == <<circuit, offline>>
vars  == <<hired, work, worker, caller, reach, session, reset, notified>>

\* A BlobJob, with its budget and the result its future holds once it is done.
\* "tried" is history: an attempt of the job has asked in spite of misses.
Job == [key : Keys, session : Sessions, bypass : BOOLEAN, stopped : BOOLEAN,
        state : {"queued", "running", "done"}, ok : BOOLEAN,
        waiters : SUBSET Callers, tried : BOOLEAN]

Free == [at |-> "idle", job |-> 0, retried |-> FALSE, bypass |-> FALSE,
         ok |-> FALSE, answer |-> "down", open |-> FALSE]
Quiet == [at |-> "idle", job |-> 0, active |-> FALSE, ok |-> FALSE]
Closed == [open |-> FALSE, probe |-> Nobody, failed |-> 0, cooled |-> FALSE]

Init ==
  /\ hired \in {Workers, {}}
  /\ queue = <<>> /\ launched = 0
  /\ job = <<>>
  /\ inflight = [k \in Keys |-> 0]
  /\ worker = [w \in Workers |-> Free]
  /\ caller = [c \in Callers |-> Quiet]
  /\ circuit = Closed /\ offline = FALSE
  /\ session = 1 /\ reset = "no"
  /\ notified = {}

-----------------------------------------------------------------------------
(***************************************************************************)
(* Callers.                                                                *)
(***************************************************************************)

\* The job of an earlier session does not serve this one.
Joinable(k) == inflight[k] # 0 /\ job[inflight[k]].session = session

\* A caller that waits is counted among the waiters of its job.
Waits(c, j, active, waits) ==
  caller' = [caller EXCEPT ![c] =
    IF waits THEN [at |-> "waiting", job |-> j, active |-> active, ok |-> FALSE]
    ELSE Quiet]

\* Variant: a joiner leaves the job as it is.
JoinAsIs(c, k, active, waits) ==
  LET j == inflight[k]
  IN /\ Joinable(k)
     /\ job' = [job EXCEPT ![j].waiters = IF waits THEN @ \cup {c} ELSE @]
     /\ Waits(c, j, active, waits)
     /\ UNCHANGED <<launched, inflight, queue>>

Join(c, k, active, waits) ==
  LET j == inflight[k]
  IN /\ Joinable(k)
     /\ job' = [job EXCEPT ![j].bypass = @ \/ active,
                           ![j].waiters = IF waits THEN @ \cup {c} ELSE @]
     /\ Waits(c, j, active, waits)
     /\ UNCHANGED <<launched, inflight, queue>>

\* BoundedExecutor::submit.
Accepts == hired # {} /\ Len(queue) < Capacity

\* The job under way for a key, if it is of an earlier session, is given up.
Launch(c, k, active, waits) ==
  LET new == launched + 1
      old == inflight[k]
      fresh == [key |-> k, session |-> session, bypass |-> active,
                stopped |-> ~Accepts, state |-> IF Accepts THEN "queued" ELSE "done",
                ok |-> FALSE, waiters |-> IF waits THEN {c} ELSE {},
                tried |-> FALSE]
  IN /\ ~Joinable(k) /\ launched < MaxJobs /\ launched' = new
     /\ job' = Append([j \in DOMAIN job |->
                 IF j = old THEN [job[j] EXCEPT !.stopped = TRUE] ELSE job[j]], fresh)
     /\ inflight' = [inflight EXCEPT ![k] = IF Accepts THEN new ELSE 0]
     /\ queue' = IF Accepts THEN Append(queue, new) ELSE queue
     /\ Waits(c, new, active, waits)

\* launchOrJoinBlob, for submitManifestBlob or awaitManifestBlobFor.
Ask(c) ==
  /\ caller[c].at = "idle"
  /\ \E k \in Keys, active, waits \in BOOLEAN :
       Join(c, k, active, waits) \/ Launch(c, k, active, waits)
  /\ UNCHANGED <<hired, worker, reach, session, reset, notified>>

\* awaitManifestBlobFor, when the wait is over.
Answered(c) ==
  /\ caller[c].at = "waiting" /\ job[caller[c].job].state = "done"
  /\ caller' = [caller EXCEPT ![c].at = "answered", ![c].ok = job[caller[c].job].ok]
  /\ UNCHANGED <<hired, work, worker, reach, session, reset, notified>>

TimedOut(c) ==
  /\ caller[c].at = "waiting" /\ job[caller[c].job].state # "done"
  /\ caller' = [caller EXCEPT ![c].at = "late"]
  /\ UNCHANGED <<hired, work, worker, reach, session, reset, notified>>

\* Variant: the last one to give up takes the job along.
ReleaseCancelling(c) ==
  /\ caller[c].at \in {"answered", "late"}
  /\ LET j == caller[c].job
         gone == job[j].waiters = {c} /\ caller[c].at = "late"
     IN /\ job' = [job EXCEPT ![j].waiters = @ \ {c},
                              ![j].stopped = @ \/ gone]
        /\ inflight' = [k \in Keys |-> IF gone /\ inflight[k] = j THEN 0
                                       ELSE inflight[k]]
  /\ caller' = [caller EXCEPT ![c] = Quiet]
  /\ UNCHANGED <<hired, launched, queue, worker, reach, session, reset,
                 notified>>

\* releaseBlobWaiter: only a job nobody works on any more is cancelled.
Release(c) ==
  /\ caller[c].at \in {"answered", "late"}
  /\ LET j == caller[c].job
         last == job[j].waiters = {c}
         gone == last /\ caller[c].at = "late" /\ job[j].state = "done"
     IN /\ job' = [job EXCEPT ![j].waiters = @ \ {c},
                              ![j].stopped = @ \/ gone]
        /\ inflight' = [k \in Keys |-> IF gone /\ inflight[k] = j THEN 0
                                       ELSE inflight[k]]
  /\ caller' = [caller EXCEPT ![c] = Quiet]
  /\ UNCHANGED <<hired, launched, queue, worker, reach, session, reset,
                 notified>>

-----------------------------------------------------------------------------
(***************************************************************************)
(* Workers.                                                                *)
(***************************************************************************)

At(w, place) == worker[w].at = place
Goto(w, place) == worker' = [worker EXCEPT ![w].at = place]
End(w, ok) ==
  worker' = [worker EXCEPT ![w] = [@ EXCEPT !.at = "end", !.ok = ok, !.open = FALSE,
                                  !.bypass = FALSE, !.answer = "down"]]
Mine(w) == job[worker[w].job]

Kept == UNCHANGED <<hired, launched, inflight, caller, session, reset>>

\* BoundedExecutor::run.
Take(w) ==
  /\ w \in hired /\ At(w, "idle") /\ queue # <<>>
  /\ worker' = [worker EXCEPT ![w] = [Free EXCEPT !.at = "begin",
                                                  !.job = Head(queue)]]
  /\ job' = [job EXCEPT ![Head(queue)].state = "running"]
  /\ queue' = Tail(queue)
  /\ UNCHANGED <<reach, notified>> /\ Kept

\* An attempt of the job, up to its request: the first one looks into the local
\* store; the manifest may be there by now; and a recent miss is not asked for
\* again unless someone needs the manifest now.
Begin(w) ==
  /\ At(w, "begin")
  /\ \/ Mine(w).stopped /\ End(w, FALSE) /\ UNCHANGED job
     \/ LET bypass == Mine(w).bypass
        IN /\ ~Mine(w).stopped
           /\ job' = [job EXCEPT ![worker[w].job].tried = @ \/ bypass]
           /\ \/ End(w, TRUE)
              \/ ~bypass /\ End(w, FALSE)
              \/ worker' = [worker EXCEPT ![w].at = "get", ![w].bypass = bypass,
                                           ![w].retried = @ \/ bypass]
  /\ UNCHANGED <<queue, reach, notified>> /\ Kept

\* httpGet: a transfer whose job is stopped ends as if the archive was down,
\* unless it has just been completed.
Get(w) ==
  /\ At(w, "get")
  /\ \E answer \in Answers :
       worker' = [worker EXCEPT ![w].at = "begun", ![w].answer = answer]
  /\ UNCHANGED <<queue, job, reach, notified>> /\ Kept

\* An attempt that throws, or that is found stopped before its transfer, ends.
Throw(w) ==
  /\ At(w, "get") /\ End(w, FALSE)
  /\ UNCHANGED <<queue, job, reach, notified>> /\ Kept

\* What the answer means for the manifest.
Judge(w) ==
  CASE worker[w].answer = "served" ->
         worker' = [worker EXCEPT ![w] = [@ EXCEPT !.at = "write", !.open = FALSE,
                                    !.answer = "down", !.bypass = FALSE]]
    [] worker[w].answer = "absent" /\ worker[w].bypass ->
         worker' = [worker EXCEPT ![w] = [@ EXCEPT !.at = "mark", !.open = FALSE,
                                    !.answer = "down", !.bypass = FALSE]]
    [] OTHER -> End(w, FALSE)

\* beginProviderAttempt and ProviderCircuit::beginAttempt.
BeginAttempt(w) ==
  /\ At(w, "begun")
  /\ \/ /\ Mine(w).session = session /\ ~circuit.open
        /\ Goto(w, "attempt") /\ UNCHANGED circuit
     \/ /\ Mine(w).session = session /\ circuit.open
        /\ circuit.cooled /\ circuit.probe = Nobody
        /\ circuit' = [circuit EXCEPT !.probe = w]
        /\ Goto(w, "attempt")
     \/ /\ \/ Mine(w).session # session
           \/ circuit.open /\ (~circuit.cooled \/ circuit.probe # Nobody)
        /\ Judge(w) /\ UNCHANGED circuit
  /\ UNCHANGED <<queue, job, offline, notified>> /\ Kept

Opened == [open |-> TRUE, probe |-> Nobody, failed |-> circuit.failed,
           cooled |-> FALSE]

\* One more transport failure; as many as the threshold count as any more.
OneMore ==
  LET failed == IF circuit.failed < Threshold THEN circuit.failed + 1
                ELSE Threshold
  IN IF failed = Threshold THEN [Opened EXCEPT !.failed = failed]
     ELSE [circuit EXCEPT !.failed = failed]

\* Variant: a probe that fails stays the probe.
FinishedKeepingProbe(w, answer) ==
  CASE circuit.probe \notin {Nobody, w} -> circuit
    [] circuit.probe \in {Nobody, w} /\ answer \in {"served", "absent", "odd"} -> Closed
    [] circuit.probe = w /\ answer \in {"limited", "down"} ->
         [circuit EXCEPT !.cooled = FALSE]
    [] circuit.probe = Nobody /\ answer = "limited" -> Opened
    [] circuit.probe = Nobody /\ answer = "down" -> OneMore

\* ProviderCircuit::finishAttempt, of what classifyArchiveOutcome makes of the
\* answer.
Finished(w, answer) ==
  CASE circuit.probe \notin {Nobody, w} -> circuit
    [] circuit.probe \in {Nobody, w} /\ answer \in {"served", "absent", "odd"} -> Closed
    [] circuit.probe = w /\ answer \in {"limited", "down"} ->
         [circuit EXCEPT !.probe = Nobody, !.cooled = FALSE]
    [] circuit.probe = Nobody /\ answer = "limited" -> Opened
    [] circuit.probe = Nobody /\ answer = "down" -> OneMore

\* finishProviderAttempt, its locked section: what another session has begun is
\* cancelled.
FinishAttempt(w) ==
  /\ At(w, "attempt")
  /\ IF Mine(w).session = session
     THEN /\ circuit' = Finished(w, worker[w].answer)
          /\ worker' = [worker EXCEPT ![w].at = "flag", ![w].open = circuit'.open]
     ELSE /\ circuit' = [circuit EXCEPT !.probe = IF @ = w THEN Nobody ELSE @]
          /\ Judge(w)
  /\ UNCHANGED <<queue, job, offline, notified>> /\ Kept

\* What the circuit was like is published after the lock is released.
Flag(w) ==
  /\ At(w, "flag")
  /\ offline' = worker[w].open
  /\ Judge(w)
  /\ UNCHANGED <<queue, job, circuit, notified>> /\ Kept

\* Variant: any session may mark.
MarkAnyway(w) ==
  /\ At(w, "mark")
  /\ notified' = notified \cup {<<Mine(w).key, Mine(w).session>>}
  /\ End(w, FALSE)
  /\ UNCHANGED <<queue, job, reach>> /\ Kept

\* markMissingForNotification.
Mark(w) ==
  /\ At(w, "mark")
  /\ notified' = IF Mine(w).session = session
                 THEN notified \cup {<<Mine(w).key, session>>} ELSE notified
  /\ End(w, FALSE)
  /\ UNCHANGED <<queue, job, reach>> /\ Kept

\* writeManifestFile, to the temporary file of the key, and
\* publishDownloadedManifest: either may fail or throw.
Write(w) ==
  /\ At(w, "write")
  /\ \E ok \in BOOLEAN : End(w, ok)
  /\ UNCHANGED <<queue, job, reach, notified>> /\ Kept

\* The locked section at the end of an attempt: a job that was promoted too late
\* for it makes one more.
Again(w) ==
  /\ ~worker[w].ok /\ ~worker[w].retried /\ ~Mine(w).stopped /\ Mine(w).bypass

Retry(w) ==
  /\ At(w, "end") /\ Again(w)
  /\ worker' = [worker EXCEPT ![w].at = "begin", ![w].retried = TRUE]
  /\ UNCHANGED <<queue, job, reach, notified>> /\ Kept

\* Variant: what a failed attempt leaves behind is left to the next caller.
CompleteOnSuccess(w) ==
  /\ At(w, "end") /\ ~Again(w)
  /\ LET j == worker[w].job
     IN IF worker[w].ok
        THEN /\ job' = [job EXCEPT ![j].state = "done", ![j].ok = worker[w].ok]
             /\ inflight' = [k \in Keys |-> IF inflight[k] = j THEN 0 ELSE inflight[k]]
        ELSE UNCHANGED <<job, inflight>>
  /\ worker' = [worker EXCEPT ![w] = Free]
  /\ UNCHANGED <<hired, launched, queue, caller, reach, session, reset,
                 notified>>

Complete(w) ==
  /\ At(w, "end") /\ ~Again(w)
  /\ LET j == worker[w].job
     IN /\ job' = [job EXCEPT ![j].state = "done", ![j].ok = worker[w].ok]
        /\ inflight' = [k \in Keys |-> IF inflight[k] = j THEN 0 ELSE inflight[k]]
  /\ worker' = [worker EXCEPT ![w] = Free]
  /\ UNCHANGED <<hired, launched, queue, caller, reach, session, reset,
                 notified>>

-----------------------------------------------------------------------------
(***************************************************************************)
(* The session and time.                                                   *)
(***************************************************************************)

\* resetSessionState: three locked sections.
ResetSession ==
  /\ reset = "no" /\ session < MaxSessions
  /\ session' = session + 1
  /\ circuit' = [circuit EXCEPT !.probe = Nobody]
  /\ reset' = "marks"
  /\ UNCHANGED <<hired, work, worker, caller, offline, notified>>

ResetMarks ==
  /\ reset = "marks"
  /\ notified' = {} /\ reset' = "jobs"
  /\ UNCHANGED <<hired, work, worker, caller, reach, session>>

\* Variant: the jobs under way are forgotten and keep running.
ResetForgetting ==
  /\ reset = "jobs"
  /\ inflight' = [k \in Keys |-> 0]
  /\ reset' = "no"
  /\ UNCHANGED <<hired, launched, job, queue, worker, caller, reach, session,
                 notified>>

ResetJobs ==
  /\ reset = "jobs"
  /\ job' = [j \in DOMAIN job |->
       IF \E k \in Keys : inflight[k] = j THEN [job[j] EXCEPT !.stopped = TRUE]
       ELSE job[j]]
  /\ inflight' = [k \in Keys |-> 0]
  /\ reset' = "no"
  /\ UNCHANGED <<hired, launched, queue, worker, caller, reach, session,
                 notified>>

\* The deadline of a job passes, and the time until the next probe.
Expire ==
  /\ \E j \in DOMAIN job : /\ job[j].state # "done" /\ ~job[j].stopped
                           /\ job' = [job EXCEPT ![j].stopped = TRUE]
  /\ UNCHANGED <<hired, launched, inflight, queue, worker, caller, reach,
                 session, reset, notified>>

Cool ==
  /\ circuit.open /\ ~circuit.cooled
  /\ circuit' = [circuit EXCEPT !.cooled = TRUE]
  /\ UNCHANGED <<hired, work, worker, caller, offline, session, reset,
                 notified>>

Works(w) ==
  \/ Take(w) \/ Begin(w) \/ Get(w) \/ Throw(w) \/ BeginAttempt(w)
  \/ FinishAttempt(w) \/ Flag(w) \/ Mark(w) \/ Write(w)
  \/ Retry(w) \/ Complete(w)

Next ==
  \/ \E c \in Callers : Ask(c) \/ Answered(c) \/ TimedOut(c) \/ Release(c)
  \/ \E w \in Workers : Works(w)
  \/ ResetSession \/ ResetMarks \/ ResetJobs
  \/ Expire \/ Cool

Spec == Init /\ [][Next]_vars

\* Workers keep running, and so does a thread in resetSessionState.
Fairness ==
  /\ \A w \in Workers : WF_vars(Works(w))
  /\ WF_vars(ResetMarks) /\ WF_vars(ResetJobs)

FairSpec == Spec /\ Fairness

-----------------------------------------------------------------------------
(***************************************************************************)
(* What the fetching of manifests promises.                                *)
(***************************************************************************)

Places == {"idle", "begin", "get", "begun", "attempt", "flag", "mark", "write",
           "end"}

\* The jobs with work to be done.
Active == {j \in DOMAIN job : job[j].state # "done"}

\* The variables keep their types, and a job is where its state says, once.
TypeOK ==
  /\ hired \in {Workers, {}}
  /\ launched \in 0 .. MaxJobs /\ job \in [1 .. launched -> Job]
  /\ inflight \in [Keys -> 0 .. launched]
  /\ \A i \in DOMAIN queue : queue[i] \in DOMAIN job /\ job[queue[i]].state = "queued"
  /\ Len(queue) <= Capacity
  /\ worker \in [Workers -> [at : Places, job : 0 .. MaxJobs, retried : BOOLEAN,
                             bypass : BOOLEAN, ok : BOOLEAN, answer : Answers,
                             open : BOOLEAN]]
  /\ caller \in [Callers -> [at : {"idle", "waiting", "answered", "late"},
                             job : 0 .. MaxJobs, active : BOOLEAN, ok : BOOLEAN]]
  /\ circuit \in [open : BOOLEAN, probe : Workers \cup {Nobody},
                  failed : 0 .. Threshold, cooled : BOOLEAN]
  /\ offline \in BOOLEAN /\ session \in Sessions
  /\ reset \in {"no", "marks", "jobs"}
  /\ notified \subseteq Keys \X Sessions
  /\ \A j \in DOMAIN job :
       /\ job[j].waiters = {c \in Callers : caller[c].at # "idle" /\ caller[c].job = j}
       /\ job[j].state = "running" <=> \E w \in Workers : worker[w].job = j

\* "Without dedupe each spawned its own thread and they raced over the same tmp
\* file": of the jobs for one key at most one is neither done nor stopped, and
\* it is the one that callers join.  A waiter that leaves, a full queue and a
\* reset between two callers keep it so.
OneJobPerKey ==
  \A j \in Active : ~job[j].stopped => inflight[job[j].key] = j

\* "A timed-out waiter may leave, but must not cancel the producer while it is
\* still staging the manifest": no caller that asks, joins or leaves stops a job
\* of the session that has not ended, or takes it from those who ask next.
NoCallerStops ==
  [][<<caller, launched>>' # <<caller, launched>> =>
       \A j \in Active : job[j].session = session =>
         /\ job'[j].stopped = job[j].stopped
         /\ inflight[job[j].key] = j => inflight'[job[j].key] = j]_vars

\* "No promotion can be lost": a caller that needs the manifest now and is told
\* that there is none has had the archive asked, whatever was remembered, unless
\* the job was stopped first.
PromotionIsKept ==
  \A c \in Callers :
    caller[c].at = "answered" /\ caller[c].active /\ ~caller[c].ok =>
      job[caller[c].job].tried \/ job[caller[c].job].stopped

\* "An open circuit admits exactly one real probe": the probe that keeps others
\* out is a worker's that is about to finish it, so that the circuit is never
\* left half open by a session that ended or an answer that came late.
ProbeIsHeld ==
  circuit.probe # Nobody =>
    /\ circuit.open
    /\ At(circuit.probe, "attempt")
    /\ Mine(circuit.probe).session = session

\* A user is told once more in a new session what is not ready: no mark of an
\* earlier session outlives the reset.
MarksAreCurrent ==
  reset # "marks" => \A n \in notified : n[2] = session

\* Every job the executor accepted ends, and with it every wait for it.
EveryJobEnds ==
  \A j \in Jobs : (j \in Active) ~> (j \in DOMAIN job \ Active)

\* "The offline signal is derived from that archive's reachability": once no
\* worker is on its way to it, the signal is what the circuit says.
SignalFollowsCircuit ==
  (\A w \in Workers : ~At(w, "flag")) => offline = circuit.open

\* No two workers are at the temporary file of a key.
OneWriter ==
  \A v, w \in Workers :
    At(v, "write") /\ At(w, "write") /\ Mine(v).key = Mine(w).key => v = w
=============================================================================
