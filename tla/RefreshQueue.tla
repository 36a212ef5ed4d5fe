---------------------------- MODULE RefreshQueue ----------------------------
(***************************************************************************)
(* Background refreshes of prepared apps: the queue that merges requests   *)
(* (src/feats/provision_refresh.hpp, class RefreshQueue) and the detached  *)
(* worker it starts, one at a time (src/feats/appinfo_provision.cpp,       *)
(* startRefreshWorker to refreshInBackground, with src/thread_start.hpp).  *)
(*                                                                         *)
(* Each section under g_refreshScheduleMu is one action; a thread is       *)
(* started outside it, so other requests arrive while a start is under way *)
(* and before a failed one is undone.  thread[t].at is where t stands:     *)
(*                                                                         *)
(*   idle       a caller outside, a worker not created                     *)
(*   starting   to create the worker of thread[t].token                    *)
(*   joining    its detach failed; waiting for that worker to end          *)
(*   unstarted  the start failed; the requests are to be put back          *)
(*   pass       a worker about to begin its pass                           *)
(*   fetch      its requests accepted, the inputs not read yet             *)
(*   finish     the pass over or thrown out of, finishRefresh to come      *)
(*   gone       a worker that has ended                                    *)
(*                                                                         *)
(* A start whose outcome stays uncertain has a live worker and is left     *)
(* alone by the code; it is the start that succeeds.                       *)
(***************************************************************************)
EXTENDS Integers, FiniteSets

CONSTANTS
  Apps,
  Callers,        \* the threads that ask for refreshes
  MaxChange,      \* bound: PICS change numbers
  Flags,          \* reasons, and whether to publish to the running client
  Asked,          \* what callers ask for: sets of flags with a change number
  MaxRequests,    \* bound: calls of refreshInBackground
  MaxGeneration,  \* bound: removals of an app
  MaxEdits,       \* bound: edits of an app's local inputs
  Removed,        \* the apps that are removed and added again
  Edited,         \* the apps whose local inputs are edited
  Faults          \* what may fail: "construct", "detach", "pass"

Workers == 1 .. MaxRequests
Threads == Callers \cup Workers

ASSUME RefreshAssumption ==
  /\ Callers \cap Nat = {}
  /\ MaxChange \in Nat /\ MaxRequests \in Nat
  /\ MaxGeneration \in Nat /\ MaxEdits \in Nat
  /\ {"local", "publish"} \subseteq Flags
  /\ Asked \subseteq [change : 0 .. MaxChange, flags : SUBSET Flags]

VARIABLES
  busy,        \* active_
  active,      \* activeRequests_
  pending,     \* pendingRequests_
  token,       \* g_refreshWorkerToken
  thread,      \* where each thread stands, its token and its requests
  generation,  \* g_cachePublicationGenerations
  local,       \* external: the version of an app's local inputs
  read,        \* the version the last pass read
  told,        \* the version the watcher has asked a refresh for
  asked,       \* bound: calls so far
  promised,    \* history: requests no finished pass has covered
  dormant      \* history: requests were put back after a failed start, and
               \* no call has come since

schedule == <<busy, active, pending, token, dormant>>
inputs   == <<generation, local, told>>
vars     == <<schedule, thread, inputs, read, asked, promised>>

Request   == [generation : 0 .. MaxGeneration, change : 0 .. MaxChange,
              flags : SUBSET Flags]
NoRequest == [generation |-> 0, change |-> 0, flags |-> {}]
Requests  == [Apps -> Request]
None      == [a \in Apps |-> NoRequest]

Place == [at : {"idle", "starting", "joining", "unstarted",
                "pass", "fetch", "finish", "gone"},
          token : 0 .. MaxRequests, batch : Requests]
Rest(t) == [at |-> IF t \in Callers THEN "idle" ELSE "gone",
            token |-> 0, batch |-> None]

Init ==
  /\ busy = FALSE /\ active = None /\ pending = None /\ token = 0
  /\ thread = [t \in Threads |-> [at |-> "idle", token |-> 0, batch |-> None]]
  /\ generation = [a \in Apps |-> 0]
  /\ local = [a \in Apps |-> 0] /\ read = local /\ told = local
  /\ asked = 0
  /\ promised = [a \in Apps |-> {}] /\ dormant = FALSE

-----------------------------------------------------------------------------
(***************************************************************************)
(* Merging.  An app without a request has NoRequest, which is below every  *)
(* request: every request has a flag.                                      *)
(***************************************************************************)

Merged(current, incoming) ==
  IF incoming.generation > current.generation THEN incoming
  ELSE IF incoming.generation < current.generation THEN current
  ELSE [generation |-> current.generation,
        change |-> IF incoming.change > current.change
                   THEN incoming.change ELSE current.change,
        flags |-> current.flags \cup incoming.flags]

StrongerThan(candidate, baseline) ==
  IF candidate.generation # baseline.generation
  THEN candidate.generation > baseline.generation
  ELSE \/ candidate.change > baseline.change
       \/ ~(candidate.flags \subseteq baseline.flags)

\* Serving r asks no more than serving d does.
Dominates(d, r) ==
  \/ d.generation > r.generation
  \/ /\ d.generation = r.generation
     /\ d.change >= r.change
     /\ r.flags \subseteq d.flags

\* What waits after requests arrived while others are being served.
Queued(incoming) ==
  [a \in Apps |->
    IF incoming[a] = NoRequest THEN pending[a]
    ELSE IF active[a] = NoRequest THEN Merged(pending[a], incoming[a])
    ELSE LET merged == Merged(active[a], incoming[a]) IN
         IF StrongerThan(merged, active[a])
         THEN Merged(pending[a], merged) ELSE pending[a]]

-----------------------------------------------------------------------------
(***************************************************************************)
(* Asking for a refresh.                                                   *)
(***************************************************************************)

Go(t, place)  == thread' = [thread EXCEPT ![t] = place]
Starting(n, b) == [at |-> "starting", token |-> n, batch |-> b]

\* A promise is void for an app that has been removed since its generation
\* was looked up.
Promise(incoming) ==
  promised' = [a \in Apps |->
    IF incoming[a] # NoRequest /\ incoming[a].generation = generation[a]
    THEN promised[a] \cup {incoming[a]} ELSE promised[a]]

\* refreshInBackground; the caller looked each app's generation up before.
RefreshInBackground(c, incoming) ==
  /\ thread[c].at = "idle"
  /\ asked < MaxRequests /\ asked' = asked + 1
  /\ incoming # None
  /\ Promise(incoming)
  /\ \/ /\ ~busy
        /\ busy' = TRUE
        /\ active' = [a \in Apps |-> Merged(pending[a], incoming[a])]
        /\ pending' = None
        /\ token' = token + 1 /\ dormant' = FALSE
        /\ Go(c, Starting(token', active'))
     \/ /\ busy
        /\ pending' = Queued(incoming)
        /\ UNCHANGED <<busy, active, token, dormant, thread>>
  /\ UNCHANGED <<generation, local, read>>

\* The PICS callbacks, the coordinator and the cache worker: anything, for any
\* apps, with generations that may be out of date by now.
Ask(c) ==
  \E A \in (SUBSET Apps) \ {{}}, what \in Asked :
    \E g \in [A -> 0 .. MaxGeneration] :
      /\ \A a \in A : g[a] <= generation[a]
      /\ RefreshInBackground(c, [a \in Apps |->
           IF a \in A THEN [generation |-> g[a], change |-> what.change,
                            flags |-> what.flags]
           ELSE NoRequest])
      /\ UNCHANGED told

\* The coordinator has found an app's local inputs changed.
AskLocal(c, a) ==
  /\ told[a] < local[a]
  /\ told' = [told EXCEPT ![a] = local[a]]
  /\ RefreshInBackground(c, [None EXCEPT ![a] =
       [generation |-> generation[a], change |-> 0,
        flags |-> {"local", "publish"}]])

-----------------------------------------------------------------------------
(***************************************************************************)
(* Starting the worker: startRefreshWorker and what follows a failure.     *)
(***************************************************************************)

Begun(t) == [at |-> "pass", token |-> thread[t].token,
             batch |-> thread[t].batch]

Started(t) ==
  /\ thread[t].at = "starting"
  /\ thread' = [thread EXCEPT ![thread[t].token] = Begun(t), ![t] = Rest(t)]
  /\ UNCHANGED <<schedule, inputs, read, asked, promised>>

NotConstructed(t) ==
  /\ "construct" \in Faults
  /\ thread[t].at = "starting"
  /\ Go(t, [thread[t] EXCEPT !.at = "unstarted"])
  /\ UNCHANGED <<schedule, inputs, read, asked, promised>>

\* The worker runs, and the thread that started it waits for its end.
DetachFailed(t) ==
  /\ "detach" \in Faults
  /\ thread[t].at = "starting"
  /\ thread' = [thread EXCEPT ![thread[t].token] = Begun(t),
                              ![t].at = "joining"]
  /\ UNCHANGED <<schedule, inputs, read, asked, promised>>

Joined(t) ==
  /\ thread[t].at = "joining"
  /\ thread[thread[t].token].at = "gone"
  /\ Go(t, [thread[t] EXCEPT !.at = "unstarted"])
  /\ UNCHANGED <<schedule, inputs, read, asked, promised>>

\* Variant: whoever failed to start a worker reopens the gate.
RetainUnchecked(t) ==
  /\ thread[t].at = "unstarted"
  /\ busy' = FALSE /\ active' = None /\ dormant' = TRUE
  /\ pending' = [a \in Apps |-> Merged(pending[a], thread[t].batch[a])]
  /\ Go(t, Rest(t))
  /\ UNCHANGED <<token, inputs, read, asked, promised>>

\* Variant: the gate is reopened and the requests are gone.
RetainDropping(t) ==
  /\ thread[t].at = "unstarted"
  /\ IF thread[t].token = token
     THEN busy' = FALSE /\ active' = None /\ dormant' = TRUE /\ pending' = pending
     ELSE UNCHANGED <<busy, active, pending, dormant>>
  /\ Go(t, Rest(t))
  /\ UNCHANGED <<token, inputs, read, asked, promised>>

\* retainRefreshAfterFailedStart: the requests wait for the next call, unless
\* another worker has been started since.
Retain(t) ==
  /\ thread[t].at = "unstarted"
  /\ IF thread[t].token = token
     THEN /\ busy' = FALSE /\ active' = None /\ dormant' = TRUE
          /\ pending' = [a \in Apps |-> Merged(pending[a], thread[t].batch[a])]
     ELSE UNCHANGED <<busy, active, pending, dormant>>
  /\ Go(t, Rest(t))
  /\ UNCHANGED <<token, inputs, read, asked, promised>>

-----------------------------------------------------------------------------
(***************************************************************************)
(* The worker.                                                             *)
(***************************************************************************)

\* provisionRequestedApps, its snapshot: requests for apps removed since are
\* left out.
Accept(w) ==
  /\ thread[w].at = "pass"
  /\ Go(w, [thread[w] EXCEPT !.at = "fetch", !.batch = [a \in Apps |->
       IF @[a].generation = generation[a] THEN @[a] ELSE NoRequest]])
  /\ UNCHANGED <<schedule, inputs, read, asked, promised>>

\* Its network and disk work, which reads the local inputs of each app.
Fetch(w) ==
  /\ thread[w].at = "fetch"
  /\ read' = [a \in Apps |-> IF thread[w].batch[a] # NoRequest
                             THEN local[a] ELSE read[a]]
  /\ Go(w, [thread[w] EXCEPT !.at = "finish"])
  /\ UNCHANGED <<schedule, inputs, asked, promised>>

\* The pass throws; runGuarded still calls finishRefresh.
Throw(w) ==
  /\ "pass" \in Faults
  /\ thread[w].at \in {"pass", "fetch"}
  /\ Go(w, [thread[w] EXCEPT !.at = "finish"])
  /\ UNCHANGED <<schedule, inputs, read, asked, promised>>

Covered(b) ==
  promised' = [a \in Apps |-> {r \in promised[a] : ~Dominates(b[a], r)}]

\* Variant: the worker leaves what came in meanwhile for the next call.
FinishRefreshStopping(w) ==
  /\ thread[w].at = "finish"
  /\ IF w = token /\ busy
     THEN busy' = FALSE /\ active' = None ELSE UNCHANGED <<busy, active>>
  /\ Covered(thread[w].batch)
  /\ Go(w, Rest(w))
  /\ UNCHANGED <<pending, token, dormant, inputs, read, asked>>

\* Variant: the worker always starts a successor.
FinishRefreshAlways(w) ==
  /\ thread[w].at = "finish"
  /\ Covered(thread[w].batch)
  /\ active' = pending /\ pending' = None /\ busy' = TRUE
  /\ token' = token + 1
  /\ Go(w, Starting(token', pending))
  /\ UNCHANGED <<dormant, inputs, read, asked>>

\* finishRefresh: the worker starts its successor for what came in meanwhile.
FinishRefresh(w) ==
  /\ thread[w].at = "finish"
  /\ Covered(thread[w].batch)
  /\ IF w = token /\ busy
     THEN /\ active' = pending /\ pending' = None /\ dormant' = dormant
          /\ IF pending = None
             THEN busy' = FALSE /\ token' = token /\ Go(w, Rest(w))
             ELSE /\ busy' = TRUE /\ token' = token + 1
                  /\ Go(w, Starting(token', pending))
     ELSE Go(w, Rest(w)) /\ UNCHANGED schedule
  /\ UNCHANGED <<inputs, read, asked>>

-----------------------------------------------------------------------------
\* forgetApp: what was asked for the app before is void.
Forget(a) ==
  /\ a \in Removed /\ generation[a] < MaxGeneration
  /\ generation' = [generation EXCEPT ![a] = @ + 1]
  /\ promised' = [promised EXCEPT ![a] = {}]
  /\ UNCHANGED <<schedule, thread, local, told, read, asked>>

\* external: a script, a key or a manifest of the app is edited.
EditLocal(a) ==
  /\ a \in Edited /\ local[a] < MaxEdits
  /\ local' = [local EXCEPT ![a] = @ + 1]
  /\ UNCHANGED <<schedule, thread, generation, told, read, asked, promised>>

StartStep(t) ==
  Started(t) \/ NotConstructed(t) \/ DetachFailed(t) \/ Joined(t) \/ Retain(t)
WorkerStep(w) == Accept(w) \/ Fetch(w) \/ Throw(w) \/ FinishRefresh(w)

Next ==
  \/ \E c \in Callers : Ask(c) \/ \E a \in Apps : AskLocal(c, a)
  \/ \E t \in Threads : StartStep(t)
  \/ \E w \in Workers : WorkerStep(w)
  \/ \E a \in Apps : Forget(a) \/ EditLocal(a)

Spec == Init /\ [][Next]_vars

\* Threads that are inside a call or a pass go on, and the watcher tells of
\* the edits it sees.
FairSpec ==
  /\ Spec
  /\ \A t \in Threads : WF_vars(StartStep(t))
  /\ \A w \in Workers : WF_vars(WorkerStep(w))
  /\ \A a \in Apps : WF_vars(\E c \in Callers : AskLocal(c, a))

-----------------------------------------------------------------------------
(***************************************************************************)
(* What the queue promises.                                                *)
(***************************************************************************)

\* The states the variables range over.
TypeOK ==
  /\ busy \in BOOLEAN
  /\ active \in Requests /\ pending \in Requests
  /\ token \in 0 .. asked /\ asked \in 0 .. MaxRequests
  /\ thread \in [Threads -> Place]
  /\ generation \in [Apps -> 0 .. MaxGeneration]
  /\ local \in [Apps -> 0 .. MaxEdits]
  /\ read \in [Apps -> 0 .. MaxEdits] /\ told \in [Apps -> 0 .. MaxEdits]
  /\ promised \in [Apps -> SUBSET Request] /\ dormant \in BOOLEAN

Passing(w) == thread[w].at \in {"pass", "fetch", "finish"}

\* "single-worker request coalescing": whatever starts fail and whoever undoes
\* them late, two passes never overlap.
OnePass == \A v, w \in Workers : Passing(v) /\ Passing(w) => v = w

\* No request is merged away, pushed aside or dropped with a failed start: as
\* long as no pass that was not yet over when it came has served it, what is
\* being served or what waits asks at least as much.
NothingForgotten ==
  \A a \in Apps : \A r \in promised[a] :
    Dominates(active[a], r) \/ Dominates(pending[a], r)

\* A request is served by a pass, or rests with a start that failed until the
\* next call: what came in during a pass is picked up by its successor, and the
\* gate never stays shut with nobody behind it.
Attended ==
  \A a \in Apps : (promised[a] # {}) ~> (promised[a] = {} \/ dormant)

\* "changed local inputs re-render even a fresh cache pair": what the watcher
\* has asked a refresh for is read by a pass after it was asked for.
ChangesAreRead ==
  \A a \in Apps : \A v \in 1 .. MaxEdits :
    (told[a] = v) ~> (read[a] >= v)
=============================================================================
