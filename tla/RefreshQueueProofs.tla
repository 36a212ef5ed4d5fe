------------------------- MODULE RefreshQueueProofs -------------------------
(***************************************************************************)
(* One pass at a time, and no request forgotten, for every number of apps, *)
(* callers and workers.                                                    *)
(*                                                                         *)
(* Neither property is inductive.  GateHeld says who may hold the gate:    *)
(* the one thread about to create the worker of the current token, or that *)
(* worker.  Kept says where the requests of the gate's holder are: what is *)
(* active is the batch of whoever still has to serve it or put it back.    *)
(***************************************************************************)
EXTENDS RefreshQueue, TLAPS

Before(t) == thread[t].at \in {"starting", "joining", "unstarted"}

\* Who is before its start, and the worker it starts.
GateHeld ==
  /\ \A t \in Threads : thread[t].token <= token
  /\ \A w \in Workers : w > token => thread[w].at = "idle"
  /\ \A t \in Threads : Before(t) => thread[t].token \in Workers
  /\ \A t \in Threads : thread[t].at = "starting" =>
       busy /\ thread[t].token = token /\ thread[token].at = "idle"
  /\ \A t, u \in Threads :
       thread[t].at = "starting" /\ thread[u].at = "starting" => t = u
  /\ \A w \in Workers : Passing(w) => busy /\ w = token
  /\ \A t \in Threads : thread[t].at = "joining" =>
       thread[thread[t].token].at # "idle"
  /\ \A t \in Threads : thread[t].at = "unstarted" /\ thread[t].token = token =>
       /\ \A u \in Threads : thread[u].at # "starting"
       /\ \A w \in Workers : ~Passing(w)

\* Every start but the last has its own call: there is a worker for each token.
Spare == token < asked \/ (token = asked /\ (busy => pending = None))

\* Each promise is of the app's present generation, and what is held for an app
\* is the batch of whoever holds it.
Kept ==
  /\ \A a \in Apps : /\ active[a].generation <= generation[a]
                     /\ pending[a].generation <= generation[a]
  /\ \A a \in Apps : \A r \in promised[a] : r.generation = generation[a]
  /\ ~busy => active = None
  /\ \A t \in Threads : Before(t) /\ thread[t].token = token =>
       IF busy THEN active = thread[t].batch ELSE active = None
  /\ \A t \in Threads : \A a \in Apps :
       thread[t].batch[a].generation <= generation[a]
  /\ \A w \in Workers : Passing(w) => \A a \in Apps :
       \/ thread[w].batch[a] = active[a]
       \/ /\ thread[w].at # "pass"
          /\ active[a].generation < generation[a]

IInv == TypeOK /\ GateHeld /\ Spare /\ Kept /\ NothingForgotten

-----------------------------------------------------------------------------
(***************************************************************************)
(* Merging.                                                                *)
(***************************************************************************)

\* A request asks at least as much as itself and as the absent request.
LEMMA DominatesSelf ==
  ASSUME RefreshAssumption, NEW r \in Request
  PROVE  Dominates(r, r) /\ Dominates(r, NoRequest) /\ NoRequest \in Request
BY DEF RefreshAssumption, Dominates, Request, NoRequest

\* mergeRefreshRequests never weakens: its result is a request, of one of the
\* two generations, that asks at least as much as either.
LEMMA MergedDominates ==
  ASSUME RefreshAssumption, NEW x \in Request, NEW y \in Request
  PROVE  /\ Merged(x, y) \in Request
         /\ Merged(x, y).generation \in {x.generation, y.generation}
         /\ Dominates(Merged(x, y), x)
         /\ Dominates(Merged(x, y), y)
BY DEF RefreshAssumption, Dominates, Request, Merged

\* Asking at least as much is transitive.
LEMMA DominatesTransitive ==
  ASSUME RefreshAssumption, NEW x \in Request, NEW y \in Request,
         NEW z \in Request, Dominates(x, y), Dominates(y, z)
  PROVE  Dominates(x, z)
BY DEF RefreshAssumption, Dominates, Request

\* A merged request that is not stronger than what is active is served with it.
LEMMA NotStronger ==
  ASSUME RefreshAssumption, NEW x \in Request, NEW y \in Request,
         ~StrongerThan(Merged(x, y), x)
  PROVE  Dominates(x, y)
BY DEF RefreshAssumption, Dominates, Request, Merged, StrongerThan

-----------------------------------------------------------------------------
(***************************************************************************)
(* Types.                                                                  *)
(***************************************************************************)

\* Nothing waits and nothing is served for an app without a request.
LEMMA NoneIsRequests ==
  ASSUME RefreshAssumption
  PROVE  /\ None \in Requests
         /\ \A t \in Threads : Rest(t) \in Place
         /\ \A t \in Callers : Rest(t).at = "idle"
         /\ \A t \in Workers : Rest(t).at = "gone"
         /\ \A t \in Threads : Rest(t).token = 0 /\ Rest(t).batch = None
         /\ \A t \in Workers : t \notin Callers
BY DEF RefreshAssumption, None, NoRequest, Requests, Request, Rest, Place,
       Threads, Workers

\* A call puts requests into the queue, or starts a worker with them.
LEMMA CallTypes ==
  ASSUME RefreshAssumption, TypeOK, Spare,
         NEW c \in Callers, NEW incoming \in Requests,
         RefreshInBackground(c, incoming), told' \in [Apps -> 0 .. MaxEdits]
  PROVE  TypeOK'
<1>1. c \in Threads
  BY DEF Threads
<1>2. /\ [a \in Apps |-> Merged(pending[a], incoming[a])] \in Requests
      /\ Queued(incoming) \in Requests
  BY MergedDominates DEF TypeOK, Requests, Queued
<1>3. promised' \in [Apps -> SUBSET Request]
  BY DEF RefreshInBackground, Promise, TypeOK, Requests
<1>4. asked < MaxRequests /\ asked' = asked + 1 /\ asked' \in 0 .. MaxRequests
  BY DEF RefreshInBackground, TypeOK, RefreshAssumption
<1>5. CASE ~busy
  <2>1. token' = token + 1 /\ token' \in 0 .. asked'
    BY <1>4, <1>5 DEF RefreshInBackground, TypeOK, RefreshAssumption
  <2>2. active' \in Requests /\ pending' \in Requests
    BY <1>2, <1>5, NoneIsRequests DEF RefreshInBackground
  <2>3. Starting(token', active') \in Place
    BY <1>4, <2>1, <2>2 DEF Starting, Place, RefreshAssumption
  <2>4. thread' \in [Threads -> Place]
    BY <1>1, <1>5, <2>3 DEF RefreshInBackground, Go, TypeOK
  <2> QED
    BY <1>3, <1>4, <1>5, <2>1, <2>2, <2>4
    DEF RefreshInBackground, TypeOK
<1>6. CASE busy
  BY <1>2, <1>3, <1>4, <1>6 DEF RefreshInBackground, TypeOK, RefreshAssumption
<1> QED
  BY <1>5, <1>6 DEF TypeOK

\* What callers ask for are requests of generations that have been.
LEMMA AskedRequests ==
  ASSUME RefreshAssumption, TypeOK, NEW c \in Callers,
         Ask(c) \/ \E a \in Apps : AskLocal(c, a)
  PROVE  \E incoming \in Requests :
           /\ RefreshInBackground(c, incoming)
           /\ told' \in [Apps -> 0 .. MaxEdits]
           /\ \A a \in Apps : incoming[a].generation <= generation[a]
<1>1. CASE Ask(c)
  <2>1. PICK A \in (SUBSET Apps) \ {{}}, what \in Asked :
          \E g \in [A -> 0 .. MaxGeneration] :
            /\ \A a \in A : g[a] <= generation[a]
            /\ RefreshInBackground(c, [a \in Apps |->
                 IF a \in A THEN [generation |-> g[a], change |-> what.change,
                                  flags |-> what.flags]
                 ELSE NoRequest])
            /\ UNCHANGED told
    BY <1>1 DEF Ask
  <2>2. PICK g \in [A -> 0 .. MaxGeneration] :
            /\ \A a \in A : g[a] <= generation[a]
            /\ RefreshInBackground(c, [a \in Apps |->
                 IF a \in A THEN [generation |-> g[a], change |-> what.change,
                                  flags |-> what.flags]
                 ELSE NoRequest])
            /\ UNCHANGED told
    BY <2>1
  <2> DEFINE incoming == [a \in Apps |->
                 IF a \in A THEN [generation |-> g[a], change |-> what.change,
                                  flags |-> what.flags]
                 ELSE NoRequest]
  <2>3. incoming \in Requests
    BY DEF RefreshAssumption, Requests, Request, NoRequest
  <2>4. \A a \in Apps : incoming[a].generation <= generation[a]
    BY <2>2 DEF NoRequest, TypeOK, RefreshAssumption
  <2> HIDE DEF incoming
  <2>5. RefreshInBackground(c, incoming) /\ told' = told
    BY <2>2 DEF incoming
  <2> QED
    BY <2>3, <2>4, <2>5 DEF TypeOK
<1>2. CASE \E a \in Apps : AskLocal(c, a)
  <2>1. PICK a \in Apps : AskLocal(c, a)
    BY <1>2
  <2> DEFINE incoming == [None EXCEPT ![a] =
               [generation |-> generation[a], change |-> 0,
                flags |-> {"local", "publish"}]]
  <2>2. incoming \in Requests
    BY DEF None, NoRequest, Requests, Request, TypeOK, RefreshAssumption
  <2>3. \A x \in Apps : incoming[x].generation <= generation[x]
    BY DEF None, NoRequest, TypeOK, RefreshAssumption
  <2> HIDE DEF incoming
  <2>4. RefreshInBackground(c, incoming)
    BY <2>1 DEF AskLocal, incoming
  <2>5. told' \in [Apps -> 0 .. MaxEdits]
    BY <2>1 DEF AskLocal, TypeOK
  <2> QED
    BY <2>2, <2>3, <2>4, <2>5
<1> QED
  BY <1>1, <1>2

\* The steps keep the types.
LEMMA TypeStep ==
  ASSUME RefreshAssumption, TypeOK, GateHeld, Spare, Next
  PROVE  TypeOK'
<1>1. ASSUME NEW c \in Callers, Ask(c) \/ \E a \in Apps : AskLocal(c, a)
      PROVE  TypeOK'
  BY <1>1, AskedRequests, CallTypes
<1>3. ASSUME NEW t \in Threads, Started(t)
      PROVE  TypeOK'
  <2>1. thread[t].token \in Threads /\ Begun(t) \in Place
    BY <1>3 DEF Started, GateHeld, Before, TypeOK, Threads, Place, Begun
  <2> QED
    BY <1>3, <2>1, NoneIsRequests DEF Started, TypeOK, schedule, inputs
<1>4. ASSUME NEW t \in Threads, NotConstructed(t)
      PROVE  TypeOK'
  BY <1>4 DEF NotConstructed, Go, TypeOK, Place, schedule, inputs
<1>5. ASSUME NEW t \in Threads, DetachFailed(t)
      PROVE  TypeOK'
  <2>1. thread[t].token \in Threads /\ Begun(t) \in Place
    BY <1>5 DEF DetachFailed, GateHeld, Before, TypeOK, Threads, Place, Begun
  <2>2. thread' \in [Threads -> Place]
    BY <1>5, <2>1 DEF DetachFailed, TypeOK, Place
  <2> QED
    BY <1>5, <2>2 DEF DetachFailed, TypeOK, schedule, inputs
<1>6. ASSUME NEW t \in Threads, Joined(t)
      PROVE  TypeOK'
  BY <1>6 DEF Joined, Go, TypeOK, Place, schedule, inputs
<1>7. ASSUME NEW t \in Threads, Retain(t)
      PROVE  TypeOK'
  <2>1. [a \in Apps |-> Merged(pending[a], thread[t].batch[a])] \in Requests
    BY MergedDominates DEF TypeOK, Requests, Place
  <2>2. thread' \in [Threads -> Place]
    BY <1>7, NoneIsRequests DEF Retain, Go, TypeOK
  <2> QED
    BY <1>7, <2>1, <2>2, NoneIsRequests DEF Retain, TypeOK, inputs
<1>8. ASSUME NEW w \in Workers, Accept(w)
      PROVE  TypeOK'
  <2>1. w \in Threads
    BY DEF Threads
  <2>2. [a \in Apps |-> IF thread[w].batch[a].generation = generation[a]
                        THEN thread[w].batch[a] ELSE NoRequest] \in Requests
    BY <2>1, DominatesSelf, NoneIsRequests
    DEF TypeOK, Requests, Place, None
  <2>3. thread' \in [Threads -> Place]
    BY <1>8, <2>1, <2>2 DEF Accept, Go, TypeOK, Place
  <2> QED
    BY <1>8, <2>3 DEF Accept, TypeOK, schedule, inputs
<1>9. ASSUME NEW w \in Workers, Fetch(w)
      PROVE  TypeOK'
  <2>1. w \in Threads
    BY DEF Threads
  <2> QED
    BY <1>9, <2>1 DEF Fetch, Go, TypeOK, Place, schedule, inputs
<1>10. ASSUME NEW w \in Workers, Throw(w)
      PROVE  TypeOK'
  <2>1. w \in Threads
    BY DEF Threads
  <2> QED
    BY <1>10, <2>1 DEF Throw, Go, TypeOK, Place, schedule, inputs
<1>11. ASSUME NEW w \in Workers, FinishRefresh(w)
      PROVE  TypeOK'
  <2>1. w \in Threads /\ Rest(w) \in Place /\ None \in Requests
    BY NoneIsRequests DEF Threads
  <2>2. promised' \in [Apps -> SUBSET Request]
    BY <1>11 DEF FinishRefresh, Covered, TypeOK
  <2>3. busy /\ pending # None => token + 1 \in 0 .. asked
    BY DEF Spare, TypeOK, RefreshAssumption
  <2>4. busy /\ pending # None => Starting(token + 1, pending) \in Place
    BY <2>3 DEF Starting, Place, TypeOK, RefreshAssumption
  <2>5. thread' \in [Threads -> Place]
    BY <1>11, <2>1, <2>4 DEF FinishRefresh, Go, TypeOK, schedule
  <2> QED
    BY <1>11, <2>1, <2>2, <2>3, <2>5
    DEF FinishRefresh, TypeOK, schedule, inputs
<1>12. ASSUME NEW a \in Apps, Forget(a)
      PROVE  TypeOK'
  BY <1>12 DEF Forget, TypeOK, schedule, RefreshAssumption
<1>13. ASSUME NEW a \in Apps, EditLocal(a)
      PROVE  TypeOK'
  BY <1>13 DEF EditLocal, TypeOK, schedule, RefreshAssumption
<1> QED
  BY <1>1, <1>3, <1>4, <1>5, <1>6, <1>7, <1>8, <1>9, <1>10, <1>11,
     <1>12, <1>13
  DEF Next, StartStep, WorkerStep

-----------------------------------------------------------------------------
(***************************************************************************)
(* One pass at a time.                                                     *)
(***************************************************************************)

\* A new start: nobody held the gate, or the worker that did leaves it.
LEMMA StartGate ==
  ASSUME RefreshAssumption, TypeOK, GateHeld, NEW t \in Threads, NEW b,
         token' = token + 1, token' \in Workers, busy' = TRUE,
         \A u \in Threads : thread[u].at = "starting" => u = t,
         \A w \in Workers : Passing(w) => w = t,
         thread[t].at \in {"idle", "finish"}, t # token', t \in Workers => t <= token,
         Go(t, Starting(token', b))
  PROVE  GateHeld'
<1> DEFINE n == token'
<1>1. /\ thread'[t].at = "starting" /\ thread'[t].token = n
      /\ \A u \in Threads : u # t => thread'[u] = thread[u]
  BY DEF Go, Starting, TypeOK
<1>2. token \in Nat /\ Workers \subseteq Threads /\ Workers \subseteq Nat
  BY DEF TypeOK, RefreshAssumption, Threads, Workers
<1>3. thread[n].at = "idle" /\ thread'[n] = thread[n]
  BY <1>1, <1>2 DEF GateHeld
<1>4. \A u \in Threads : thread[u].token <= token /\ thread[u].token \in Nat
  BY <1>2 DEF GateHeld, TypeOK, Place, RefreshAssumption
<1>5. \A u \in Threads : u # t /\ thread[u].at = "joining" =>
        thread'[thread'[u].token].at # "idle"
  <2>1. SUFFICES ASSUME NEW u \in Threads, u # t, thread[u].at = "joining"
                 PROVE  thread'[thread'[u].token].at # "idle"
    OBVIOUS
  <2>2. thread[u].token \in Workers /\ thread[thread[u].token].at # "idle"
    BY <2>1 DEF GateHeld, Before
  <2> QED
    BY <1>1, <1>2, <2>1, <2>2
<1>6. \A u \in Threads : u # t => thread'[u].at # "starting"
  BY <1>1
<1>7. \A w \in Workers : ~Passing(w)'
  BY <1>1, <1>2 DEF Passing
<1>8. \A w \in Workers : w > n => thread'[w].at = "idle"
  BY <1>1, <1>2 DEF GateHeld
<1>9. \A u \in Threads : Before(u)' => thread'[u].token \in Workers
  BY <1>1 DEF GateHeld, Before
<1>10. \A u \in Threads : thread'[u].token <= n
  BY <1>1, <1>2, <1>4
<1>11. \A u \in Threads : thread'[u].at = "unstarted" => thread'[u].token # n
  BY <1>1, <1>2, <1>4
<1> HIDE DEF n
<1> QED
  BY <1>1, <1>3, <1>5, <1>6, <1>7, <1>8, <1>9, <1>10, <1>11 DEF GateHeld, n

\* The steps keep the gate with its one holder, and a worker for each token.
LEMMA GateStep ==
  ASSUME RefreshAssumption, TypeOK, GateHeld, Spare, Next
  PROVE  GateHeld' /\ Spare'
<1> USE DEF Before, Passing
<1>0. /\ Workers \subseteq Threads /\ Callers \subseteq Threads
      /\ Workers \subseteq Nat /\ token \in Nat
      /\ \A t \in Workers : t \notin Callers
      /\ \A t \in Threads : Rest(t).token = 0
      /\ \A t \in Threads : ~(Rest(t).at \in {"starting", "joining", "unstarted",
                                        "pass", "fetch", "finish"})
      /\ \A t \in Workers : Rest(t).at = "gone"
  BY DEF TypeOK, RefreshAssumption, Threads, Workers, Rest
<1>1. ASSUME NEW c \in Callers, Ask(c) \/ \E a \in Apps : AskLocal(c, a)
      PROVE  GateHeld' /\ Spare'
  <2>1. PICK incoming \in Requests : RefreshInBackground(c, incoming)
    BY <1>1, AskedRequests
  <2>2. CASE ~busy
    <3>1. /\ token' = token + 1 /\ busy' = TRUE /\ pending' = None
          /\ Go(c, Starting(token', active')) /\ thread[c].at = "idle"
      BY <2>1, <2>2 DEF RefreshInBackground
    <3>2. asked < MaxRequests /\ asked' = asked + 1
      BY <2>1 DEF RefreshInBackground
    <3>3. token' \in Workers /\ c # token' /\ c \in Threads /\ c \notin Workers
      BY <3>1, <3>2, <1>0 DEF TypeOK, Workers, RefreshAssumption
    <3>4. /\ \A u \in Threads : thread[u].at # "starting"
          /\ \A w \in Workers : ~Passing(w)
      BY <2>2 DEF GateHeld
    <3>5. GateHeld'
      BY <3>1, <3>3, <3>4, StartGate
    <3> QED
      BY <3>1, <3>2, <3>5 DEF Spare, TypeOK, RefreshAssumption
  <2>3. CASE busy
    <3>1. /\ UNCHANGED <<busy, token, thread>> /\ asked' = asked + 1
      BY <2>1, <2>3 DEF RefreshInBackground
    <3> QED
      BY <3>1 DEF GateHeld, Spare, TypeOK, RefreshAssumption
  <2> QED
    BY <2>2, <2>3 DEF TypeOK
<1>2. ASSUME NEW t \in Threads, Started(t)
      PROVE  GateHeld' /\ Spare'
  <2>1. /\ UNCHANGED <<busy, pending, token, asked>> /\ thread[t].at = "starting"
        /\ busy /\ thread[t].token = token /\ token \in Workers
        /\ thread[token].at = "idle" /\ token \in Threads /\ t # token
    BY <1>0, <1>2 DEF Started, schedule, GateHeld
  <2>2. /\ thread'[token].at = "pass" /\ thread'[token].token = token
        /\ thread'[t].at = Rest(t).at /\ thread'[t].token = 0
        /\ \A u \in Threads : u # t /\ u # token => thread'[u] = thread[u]
    BY <1>0, <1>2, <2>1 DEF Started, Begun, TypeOK
  <2> HIDE DEF Before, Passing
  <2>3. /\ \A u \in Threads : thread'[u].token <= token'
        /\ \A w \in Workers : w > token' => thread'[w].at = "idle"
    <3>1. \A w \in Workers : thread[w].at = "idle" /\ w > token => w # t
      BY <2>1
    <3>2. /\ \A u \in Threads : thread[u].token <= token
          /\ \A w \in Workers : w > token => thread[w].at = "idle"
      BY DEF GateHeld
    <3>3. /\ token' = token /\ token <= token /\ 0 <= token
          /\ \A w \in Workers : w > token => w # token
      BY <1>0, <2>1
    <3>4. ASSUME NEW u \in Threads PROVE thread'[u].token <= token'
      BY <2>1, <2>2, <3>2, <3>3, <3>4
    <3>5. ASSUME NEW w \in Workers, w > token PROVE thread'[w].at = "idle"
      BY <1>0, <2>2, <3>1, <3>2, <3>3, <3>5
    <3> QED
      BY <3>3, <3>4, <3>5
  <2>4. \A u \in Threads : Before(u)' =>
          u # t /\ u # token /\ Before(u) /\ thread'[u] = thread[u]
    BY <1>0, <2>1, <2>2 DEF Before
  <2>5. \A u \in Threads : thread'[u].at # "starting"
    BY <2>1, <2>4 DEF GateHeld, Before
  <2>6. \A w \in Workers : Passing(w)' => busy' /\ w = token'
    BY <1>0, <2>1, <2>2 DEF GateHeld, Passing
  <2>7. \A u \in Threads : thread'[u].at = "joining" =>
          thread'[thread'[u].token].at # "idle"
    <3>1. SUFFICES ASSUME NEW u \in Threads, thread'[u].at = "joining"
                   PROVE  thread'[thread'[u].token].at # "idle"
      OBVIOUS
    <3>2. /\ thread'[u] = thread[u] /\ thread[u].token \in Workers
          /\ thread[thread[u].token].at # "idle"
      BY <2>4, <3>1 DEF GateHeld, Before
    <3>3. CASE thread[u].token = t
      BY <1>0, <2>2, <3>2, <3>3
    <3>4. CASE thread[u].token # t
      BY <1>0, <2>1, <2>2, <3>2, <3>4
    <3> QED
      BY <3>3, <3>4
  <2>8. \A u \in Threads : thread'[u].at = "unstarted" =>
          thread'[u].token # token'
    BY <2>1, <2>4 DEF GateHeld, Before
  <2>9. Spare'
    BY <2>1 DEF Spare
  <2>10. \A u \in Threads : Before(u)' => thread'[u].token \in Workers
    BY <2>4 DEF GateHeld
  <2> QED
    BY <2>3, <2>5, <2>6, <2>7, <2>8, <2>9, <2>10 DEF GateHeld
<1>3. ASSUME NEW t \in Threads, NotConstructed(t)
      PROVE  GateHeld' /\ Spare'
  BY <1>0, <1>3 DEF NotConstructed, Go, GateHeld, Spare, schedule, TypeOK
<1>4. ASSUME NEW t \in Threads, DetachFailed(t)
      PROVE  GateHeld' /\ Spare'
  <2>1. /\ UNCHANGED <<busy, pending, token, asked>> /\ thread[t].at = "starting"
        /\ busy /\ thread[t].token = token /\ token \in Workers
        /\ thread[token].at = "idle" /\ token \in Threads /\ t # token
    BY <1>0, <1>4 DEF DetachFailed, schedule, GateHeld
  <2>2. /\ thread'[token].at = "pass" /\ thread'[token].token = token
        /\ thread'[t].at = "joining" /\ thread'[t].token = token
        /\ \A u \in Threads : u # t /\ u # token => thread'[u] = thread[u]
    BY <1>0, <1>4, <2>1 DEF DetachFailed, Begun, TypeOK, Place
  <2> HIDE DEF Before, Passing
  <2>3. /\ \A u \in Threads : thread'[u].token <= token'
        /\ \A w \in Workers : w > token' => thread'[w].at = "idle"
    <3>1. \A w \in Workers : thread[w].at = "idle" /\ w > token => w # t
      BY <2>1
    <3>2. /\ \A u \in Threads : thread[u].token <= token
          /\ \A w \in Workers : w > token => thread[w].at = "idle"
      BY DEF GateHeld
    <3>3. /\ token' = token /\ token <= token /\ 0 <= token
          /\ \A w \in Workers : w > token => w # token
      BY <1>0, <2>1
    <3>4. ASSUME NEW u \in Threads PROVE thread'[u].token <= token'
      BY <2>1, <2>2, <3>2, <3>3, <3>4
    <3>5. ASSUME NEW w \in Workers, w > token PROVE thread'[w].at = "idle"
      BY <1>0, <2>2, <3>1, <3>2, <3>3, <3>5
    <3> QED
      BY <3>3, <3>4, <3>5
  <2>4. \A u \in Threads : Before(u)' =>
          u = t \/ (u # token /\ Before(u) /\ thread'[u] = thread[u])
    BY <1>0, <2>1, <2>2 DEF Before
  <2>5. \A u \in Threads : thread'[u].at # "starting"
    BY <2>1, <2>2, <2>4 DEF GateHeld, Before
  <2>6. \A w \in Workers : Passing(w)' => busy' /\ w = token'
    BY <1>0, <2>1, <2>2 DEF GateHeld, Passing
  <2>7. \A u \in Threads : thread'[u].at = "joining" =>
          thread'[thread'[u].token].at # "idle"
    <3>1. SUFFICES ASSUME NEW u \in Threads, thread'[u].at = "joining"
                   PROVE  thread'[thread'[u].token].at # "idle"
      OBVIOUS
    <3>2. CASE u = t
      BY <2>2, <3>2
    <3>3. CASE u # t
      <4>1. /\ thread'[u] = thread[u] /\ thread[u].token \in Workers
            /\ thread[thread[u].token].at # "idle"
        BY <2>4, <3>1, <3>3 DEF GateHeld, Before
      <4>2. CASE thread[u].token = t
        BY <2>2, <4>1, <4>2
      <4>3. CASE thread[u].token # t
        BY <1>0, <2>1, <2>2, <4>1, <4>3
      <4> QED
        BY <4>2, <4>3
    <3> QED
      BY <3>2, <3>3
  <2>8. \A u \in Threads : thread'[u].at = "unstarted" =>
          thread'[u].token # token'
    BY <2>1, <2>2, <2>4 DEF GateHeld, Before
  <2>9. Spare'
    BY <2>1 DEF Spare
  <2>10. \A u \in Threads : Before(u)' => thread'[u].token \in Workers
    BY <2>1, <2>2, <2>4 DEF GateHeld
  <2> QED
    BY <2>3, <2>5, <2>6, <2>7, <2>8, <2>9, <2>10 DEF GateHeld
<1>5. ASSUME NEW t \in Threads, Joined(t)
      PROVE  GateHeld' /\ Spare'
  BY <1>0, <1>5 DEF Joined, Go, GateHeld, Spare, schedule, TypeOK
<1>6. ASSUME NEW t \in Threads, Retain(t)
      PROVE  GateHeld' /\ Spare'
  BY <1>0, <1>6 DEF Retain, Go, GateHeld, Spare, TypeOK
<1>7. ASSUME NEW w \in Workers, Accept(w)
      PROVE  GateHeld' /\ Spare'
  BY <1>0, <1>7 DEF Accept, Go, GateHeld, Spare, schedule, TypeOK
<1>8. ASSUME NEW w \in Workers, Fetch(w) \/ Throw(w)
      PROVE  GateHeld' /\ Spare'
  <2>1. /\ UNCHANGED <<busy, pending, token, asked>>
        /\ Passing(w) /\ w \in Threads
        /\ thread'[w].at \in {"fetch", "finish"}
        /\ thread'[w].token = thread[w].token
        /\ \A u \in Threads : u # w => thread'[u] = thread[u]
    BY <1>0, <1>8 DEF Fetch, Throw, Go, schedule, TypeOK, Place
  <2>2. /\ \A u \in Threads : Before(u)' => Before(u) /\ thread'[u] = thread[u]
        /\ \A v \in Workers : Passing(v)' => Passing(v)
        /\ \A u \in Threads : thread'[u].token = thread[u].token
        /\ \A v \in Workers : thread[v].at = "idle" => v # w
        /\ \A v \in Threads : thread[v].at # "idle" => thread'[v].at # "idle"
    BY <1>0, <2>1
  <2>3. Spare'
    BY <2>1 DEF Spare
  <2> HIDE DEF Before, Passing
  <2>4. \A v \in Workers : thread[v].at = "idle" => thread'[v].at = "idle"
    BY <1>0, <2>1, <2>2
  <2>5. \A u \in Threads : thread'[u].at = "starting" => Before(u)'
    BY DEF Before
  <2>6. \A u \in Threads : thread'[u].at = "joining" =>
          Before(u) /\ thread[u].at = "joining" /\ thread'[u] = thread[u]
    BY <2>2 DEF Before
  <2>7. \A u \in Threads : thread'[u].at = "joining" =>
          thread'[thread'[u].token].at # "idle"
    BY <1>0, <2>2, <2>6 DEF GateHeld
  <2>8. ASSUME NEW u \in Threads, thread'[u].at = "unstarted",
               thread'[u].token = token'
        PROVE  FALSE
    <3>1. Before(u)'
      BY <2>8 DEF Before
    <3>2. thread[u].at = "unstarted" /\ thread[u].token = token
      <4>1. thread'[u] = thread[u] /\ token' = token
        BY <2>1, <2>2, <3>1
      <4> QED
        BY <2>8, <4>1
    <3>3. \A v \in Workers : ~Passing(v)
      BY <3>2 DEF GateHeld
    <3> QED
      BY <2>1, <3>3
  <2>9. \A u \in Threads : thread'[u].at = "starting" => thread[u].at = "starting"
    BY <2>2, <2>5
  <2>10. \A u \in Threads : thread[u].at # "starting"
    <3>1. w = token /\ thread[w].at # "idle"
      BY <2>1, <2>2 DEF GateHeld
    <3>2. \A u \in Threads : thread[u].at = "starting" => thread[token].at = "idle"
      BY DEF GateHeld
    <3> QED
      BY <3>1, <3>2
  <2>11. /\ \A u \in Threads : thread'[u].token <= token'
         /\ \A v \in Workers : v > token' => thread'[v].at = "idle"
         /\ \A u \in Threads : Before(u)' => thread'[u].token \in Workers
         /\ \A v \in Workers : Passing(v)' => busy' /\ v = token'
    BY <2>1, <2>2, <2>4 DEF GateHeld
  <2> QED
    BY <2>3, <2>7, <2>8, <2>9, <2>10, <2>11 DEF GateHeld
<1>9. ASSUME NEW w \in Workers, FinishRefresh(w)
      PROVE  GateHeld' /\ Spare'
  <2>1. busy /\ w = token /\ w \in Threads
    BY <1>0, <1>9 DEF FinishRefresh, GateHeld
  <2>2. /\ \A u \in Threads : thread[u].at # "starting"
        /\ \A v \in Workers : Passing(v) => v = w
    BY <1>9, <2>1 DEF FinishRefresh, GateHeld
  <2>3. CASE pending = None
    <3>1. /\ busy' = FALSE /\ pending' = None /\ UNCHANGED <<token, asked>>
          /\ thread'[w].at = "gone" /\ thread'[w].token = 0
          /\ \A u \in Threads : u # w => thread'[u] = thread[u]
      BY <1>0, <1>9, <2>1, <2>3 DEF FinishRefresh, Go, TypeOK
    <3>2. /\ \A u \in Threads : thread'[u].at # "starting"
          /\ \A v \in Workers : ~Passing(v)'
      BY <1>0, <2>2, <3>1
    <3>3. ASSUME NEW u \in Threads, thread'[u].at = "joining"
          PROVE  thread'[thread'[u].token].at # "idle"
      <4>1. u # w /\ thread'[u] = thread[u] /\ thread[u].at = "joining"
        BY <3>1, <3>3
      <4>2. thread[u].token \in Threads /\ thread[thread[u].token].at # "idle"
        BY <1>0, <4>1 DEF GateHeld
      <4> QED
        BY <3>1, <4>1, <4>2
    <3>4. \A u \in Threads : thread'[u].token <= token'
      BY <1>0, <3>1 DEF GateHeld
    <3>5. \A v \in Workers : v > token' => thread'[v].at = "idle"
      BY <1>0, <2>1, <3>1 DEF GateHeld
    <3>6. \A u \in Threads : Before(u)' => thread'[u].token \in Workers
      BY <3>1 DEF GateHeld
    <3>7. Spare'
      BY <3>1 DEF Spare, TypeOK
    <3> QED
      BY <3>2, <3>3, <3>4, <3>5, <3>6, <3>7 DEF GateHeld
  <2>4. CASE pending # None
    <3>1. /\ busy' = TRUE /\ token' = token + 1 /\ pending' = None
          /\ asked' = asked /\ Go(w, Starting(token', pending))
          /\ thread[w].at = "finish"
      BY <1>9, <2>1, <2>4 DEF FinishRefresh
    <3>2. token < asked
      BY <2>1, <2>4 DEF Spare
    <3>3. token' \in Workers /\ w # token'
      BY <2>1, <3>1, <3>2, <1>0 DEF Workers, TypeOK, RefreshAssumption
    <3>4. GateHeld'
      BY <1>0, <2>1, <2>2, <3>1, <3>3, StartGate
    <3> QED
      BY <3>1, <3>2, <3>4, <1>0 DEF Spare, TypeOK, RefreshAssumption
  <2> QED
    BY <2>3, <2>4
<1>10. ASSUME NEW a \in Apps, Forget(a) \/ EditLocal(a)
      PROVE  GateHeld' /\ Spare'
  BY <1>10 DEF Forget, EditLocal, GateHeld, Spare, schedule
<1> QED
  BY <1>1, <1>2, <1>3, <1>4, <1>5, <1>6, <1>7, <1>8, <1>9, <1>10
  DEF Next, StartStep, WorkerStep
-----------------------------------------------------------------------------
(***************************************************************************)
(* Nothing is forgotten.                                                   *)
(***************************************************************************)

\* A call leaves every promise, the new ones included, with what is served or
\* with what waits.
LEMMA CallKeeps ==
  ASSUME RefreshAssumption, TypeOK, Kept, NothingForgotten,
         NEW c \in Callers, NEW incoming \in Requests,
         RefreshInBackground(c, incoming), NEW a \in Apps,
         NEW r \in promised'[a]
  PROVE  Dominates(active'[a], r) \/ Dominates(pending'[a], r)
<1> DEFINE i == incoming[a]
           m == Merged(pending[a], i)
           n == Merged(active[a], i)
<1>1. /\ i \in Request /\ active[a] \in Request /\ pending[a] \in Request
      /\ promised[a] \subseteq Request
  BY DEF TypeOK, Requests
<1>2. r \in promised[a] \/ (r = i /\ i # NoRequest)
  BY DEF RefreshInBackground, Promise, TypeOK
<1>3. r \in Request
  BY <1>1, <1>2
<1>4. m \in Request /\ Dominates(m, pending[a]) /\ Dominates(m, i)
  BY <1>1, MergedDominates
<1>5. n \in Request /\ Dominates(n, active[a]) /\ Dominates(n, i)
  BY <1>1, MergedDominates
<1>6. r \in promised[a] => Dominates(active[a], r) \/ Dominates(pending[a], r)
  BY DEF NothingForgotten
<1>7. CASE ~busy
  <2>1. active'[a] = m
    BY <1>7 DEF RefreshInBackground
  <2>2. active[a] = NoRequest
    BY <1>7 DEF Kept, None
  <2>3. Dominates(m, NoRequest) /\ NoRequest \in Request
    BY <1>4, DominatesSelf
  <2> HIDE DEF m, n, i
  <2> QED
    BY <1>1, <1>2, <1>3, <1>4, <1>6, <2>1, <2>2, <2>3, DominatesTransitive
<1>8. CASE busy
  <2>1. active' = active /\ pending'[a] = Queued(incoming)[a]
    BY <1>8 DEF RefreshInBackground
  <2>2. CASE i = NoRequest
    BY <1>2, <1>6, <2>1, <2>2 DEF Queued
  <2>3. CASE i # NoRequest /\ active[a] = NoRequest
    <3>1. pending'[a] = m
      BY <2>1, <2>3 DEF Queued
    <3> HIDE DEF m, n, i
    <3> QED
      BY <1>1, <1>2, <1>3, <1>4, <1>6, <2>1, <3>1, DominatesTransitive
  <2>4. CASE i # NoRequest /\ active[a] # NoRequest /\ StrongerThan(n, active[a])
    <3>1. pending'[a] = Merged(pending[a], n)
      BY <2>1, <2>4 DEF Queued
    <3>2. /\ Merged(pending[a], n) \in Request
          /\ Dominates(Merged(pending[a], n), pending[a])
          /\ Dominates(Merged(pending[a], n), n)
      BY <1>1, <1>5, MergedDominates
    <3> HIDE DEF m, n, i
    <3> QED
      BY <1>1, <1>2, <1>3, <1>5, <1>6, <2>1, <3>1, <3>2, DominatesTransitive
  <2>5. CASE i # NoRequest /\ active[a] # NoRequest /\ ~StrongerThan(n, active[a])
    <3>1. pending'[a] = pending[a]
      BY <2>1, <2>5 DEF Queued
    <3>2. Dominates(active[a], i)
      BY <1>1, <2>5, NotStronger
    <3> QED
      BY <1>2, <1>6, <2>1, <3>1, <3>2
  <2> QED
    BY <2>2, <2>3, <2>4, <2>5
<1> QED
  BY <1>7, <1>8 DEF TypeOK

\* A merged request is of a generation that has been.
LEMMA MergedGeneration ==
  ASSUME RefreshAssumption, NEW x \in Request, NEW y \in Request,
         NEW g \in Nat, x.generation <= g, y.generation <= g
  PROVE  Merged(x, y).generation <= g
BY MergedDominates DEF Request, RefreshAssumption
\* The steps keep the requests of the gate's holder where Kept says they are, and
\* with them every promise.
LEMMA KeptStep ==
  ASSUME RefreshAssumption, TypeOK, GateHeld, Spare, Kept, NothingForgotten,
         TypeOK', GateHeld', Next
  PROVE  Kept' /\ NothingForgotten'
<1> USE DEF Before, Passing
<1>0. /\ Workers \subseteq Threads /\ Callers \subseteq Threads
      /\ Workers \subseteq Nat /\ token \in Nat
      /\ \A a \in Apps : generation[a] \in Nat /\ None[a] = NoRequest
      /\ NoRequest.generation = 0
      /\ \A t \in Threads : Rest(t).token = 0 /\ Rest(t).batch = None
      /\ \A t \in Threads : ~(Rest(t).at \in {"starting", "joining", "unstarted",
                                        "pass", "fetch", "finish"})
      /\ \A a \in Apps : /\ active[a] \in Request /\ pending[a] \in Request
                        /\ promised[a] \subseteq Request
      /\ \A t \in Threads : \A a \in Apps : thread[t].batch[a] \in Request
      /\ \A t \in Threads : thread[t].token \in Nat
  BY DEF TypeOK, RefreshAssumption, Threads, Workers, Rest, None, NoRequest,
         Requests, Place
<1>1. ASSUME NEW c \in Callers, Ask(c) \/ \E a \in Apps : AskLocal(c, a)
      PROVE  Kept' /\ NothingForgotten'
  <2>1. PICK incoming \in Requests :
          /\ RefreshInBackground(c, incoming)
          /\ \A a \in Apps : incoming[a].generation <= generation[a]
    BY <1>1, AskedRequests
  <2>2. NothingForgotten'
    BY <2>1, CallKeeps DEF NothingForgotten
  <2>3. \A a \in Apps : incoming[a] \in Request
    BY DEF Requests
  <2>4. \A a \in Apps : Merged(pending[a], incoming[a]).generation <= generation[a]
    BY <1>0, <2>1, <2>3, MergedGeneration DEF Kept
  <2>5. \A a \in Apps : \A r \in promised'[a] : r.generation = generation'[a]
    BY <2>1 DEF RefreshInBackground, Promise, Kept, TypeOK
  <2>6. CASE ~busy
    <3>1. /\ busy' = TRUE /\ pending' = None /\ token' = token + 1
          /\ generation' = generation
          /\ \A a \in Apps : active'[a] = Merged(pending[a], incoming[a])
          /\ thread'[c] = Starting(token', active') /\ c \in Threads
          /\ \A u \in Threads : u # c => thread'[u] = thread[u]
          /\ c \notin Workers
      BY <1>0, <2>1, <2>6
      DEF RefreshInBackground, Go, TypeOK, Workers, RefreshAssumption
    <3>2. /\ thread'[c].batch = active' /\ thread'[c].at = "starting"
      BY <3>1 DEF Starting
    <3>3. \A u \in Threads : u # c => thread'[u].token # token'
      BY <1>0, <3>1 DEF GateHeld
    <3>4. \A w \in Workers : ~Passing(w)'
      BY <1>0, <2>6, <3>1 DEF GateHeld
    <3>5. \A a \in Apps : /\ active'[a].generation <= generation'[a]
                        /\ pending'[a].generation <= generation'[a]
      BY <1>0, <2>4, <3>1
    <3>6. \A u \in Threads : \A a \in Apps :
            thread'[u].batch[a].generation <= generation'[a]
      BY <3>1, <3>2, <3>5 DEF Kept
    <3> QED
      BY <2>2, <2>5, <3>1, <3>2, <3>3, <3>4, <3>5, <3>6 DEF Kept
  <2>7. CASE busy
    <3>1. /\ UNCHANGED <<busy, active, token, thread, generation>>
          /\ pending' = Queued(incoming)
      BY <2>1, <2>7 DEF RefreshInBackground
    <3>2. ASSUME NEW a \in Apps
          PROVE  pending'[a].generation <= generation[a]
      <4>1. /\ Merged(active[a], incoming[a]) \in Request
            /\ Merged(active[a], incoming[a]).generation <= generation[a]
        BY <1>0, <2>1, <2>3, MergedDominates, MergedGeneration DEF Kept
      <4>2. Merged(pending[a], Merged(active[a], incoming[a])).generation
              <= generation[a]
        BY <1>0, <4>1, MergedGeneration DEF Kept
      <4> QED
        BY <2>4, <3>1, <4>1, <4>2 DEF Queued, Kept
    <3> QED
      BY <2>2, <2>5, <2>7, <3>1, <3>2 DEF Kept
  <2> QED
    BY <2>6, <2>7 DEF TypeOK
<1>2. ASSUME NEW t \in Threads, Started(t) \/ DetachFailed(t)
      PROVE  Kept' /\ NothingForgotten'
  <2>1. /\ busy /\ thread[t].token = token /\ token \in Workers /\ t # token
        /\ active = thread[t].batch /\ token \in Threads
        /\ \A w \in Workers : ~Passing(w)
    BY <1>0, <1>2 DEF Started, DetachFailed, GateHeld, Kept
  <2>2. /\ UNCHANGED <<busy, active, pending, token, generation, promised>>
        /\ thread'[token].at = "pass" /\ thread'[token].batch = active
        /\ thread'[t].batch \in {active, None}
        /\ thread'[t].at \in {"idle", "gone", "joining"}
        /\ thread'[t].at = "joining" => thread'[t].batch = active
        /\ \A u \in Threads : u # t /\ u # token => thread'[u] = thread[u]
    <3>1. CASE Started(t)
      <4>1. thread' = [thread EXCEPT ![token] = Begun(t), ![t] = Rest(t)]
        BY <2>1, <3>1 DEF Started
      <4>2. Rest(t).at \in {"idle", "gone"}
        BY DEF Rest
      <4> QED
        BY <1>0, <2>1, <3>1, <4>1, <4>2
        DEF Started, Begun, schedule, inputs, TypeOK
    <3>2. CASE DetachFailed(t)
      BY <1>0, <2>1, <3>2 DEF DetachFailed, Begun, schedule, inputs, TypeOK, Place
    <3> QED
      BY <1>2, <3>1, <3>2
  <2>3. NothingForgotten'
    BY <2>2 DEF NothingForgotten
  <2>4. \A u \in Threads : \A a \in Apps :
          thread'[u].batch[a].generation <= generation'[a]
    BY <1>0, <2>1, <2>2 DEF Kept
  <2> QED
    BY <1>0, <2>1, <2>2, <2>3, <2>4 DEF Kept
<1>3. ASSUME NEW t \in Threads, NotConstructed(t) \/ Joined(t)
      PROVE  Kept' /\ NothingForgotten'
  <2>1. /\ UNCHANGED <<busy, active, pending, token, generation, promised>>
        /\ Before(t) /\ thread'[t].at = "unstarted"
        /\ thread'[t].batch = thread[t].batch
        /\ thread'[t].token = thread[t].token
        /\ \A u \in Threads : u # t => thread'[u] = thread[u]
    BY <1>0, <1>3 DEF NotConstructed, Joined, Go, schedule, inputs, TypeOK, Place
  <2> QED
    BY <1>0, <2>1 DEF Kept, NothingForgotten
<1>4. ASSUME NEW t \in Threads, Retain(t)
      PROVE  Kept' /\ NothingForgotten'
  <2>1. /\ UNCHANGED <<token, generation, promised>>
        /\ thread'[t] = Rest(t)
        /\ \A u \in Threads : u # t => thread'[u] = thread[u]
    BY <1>0, <1>4 DEF Retain, Go, inputs, TypeOK
  <2>2. \A u \in Threads : \A a \in Apps :
          thread'[u].batch[a].generation <= generation'[a]
    BY <1>0, <2>1 DEF Kept
  <2>3. CASE thread[t].token = token
    <3>1. /\ busy' = FALSE /\ active' = None
          /\ \A a \in Apps : pending'[a] = Merged(pending[a], thread[t].batch[a])
      BY <1>4, <2>3 DEF Retain
    <3>2. \A w \in Workers : ~Passing(w)'
      BY <3>1 DEF GateHeld
    <3>3. ASSUME NEW a \in Apps
          PROVE  /\ pending'[a].generation <= generation[a]
                 /\ \A r \in promised[a] : Dominates(pending'[a], r)
      <4> DEFINE m == Merged(pending[a], thread[t].batch[a])
      <4>1. /\ m \in Request /\ Dominates(m, pending[a])
            /\ Dominates(m, thread[t].batch[a])
            /\ Dominates(m, NoRequest) /\ NoRequest \in Request
        BY <1>0, MergedDominates, DominatesSelf
      <4>2. m.generation <= generation[a]
        BY <1>0, MergedGeneration DEF Kept
      <4>3. active[a] \in {thread[t].batch[a], NoRequest}
        BY <1>0, <1>4, <2>3 DEF Kept, Retain
      <4>4. pending'[a] = m
        BY <3>1
      <4> HIDE DEF m
      <4>5. ASSUME NEW r \in promised[a]
            PROVE  Dominates(m, r)
        <5>1. Dominates(active[a], r) \/ Dominates(pending[a], r)
          BY DEF NothingForgotten
        <5> QED
          BY <1>0, <4>1, <4>3, <5>1, DominatesTransitive
      <4> QED
        BY <4>2, <4>4, <4>5
    <3> QED
      BY <1>0, <2>1, <2>2, <3>1, <3>2, <3>3 DEF Kept, NothingForgotten
  <2>4. CASE thread[t].token # token
    <3>1. UNCHANGED <<busy, active, pending>>
      BY <1>4, <2>4 DEF Retain
    <3> QED
      BY <1>0, <2>1, <2>2, <3>1 DEF Kept, NothingForgotten
  <2> QED
    BY <2>3, <2>4
<1>5. ASSUME NEW w \in Workers, Accept(w)
      PROVE  Kept' /\ NothingForgotten'
  <2>1. /\ UNCHANGED <<busy, active, pending, token, generation, promised>>
        /\ w \in Threads /\ thread[w].at = "pass" /\ thread'[w].at = "fetch"
        /\ \A a \in Apps : thread'[w].batch[a] =
             IF thread[w].batch[a].generation = generation[a]
             THEN thread[w].batch[a] ELSE NoRequest
        /\ \A u \in Threads : u # w => thread'[u] = thread[u]
    BY <1>0, <1>5 DEF Accept, Go, schedule, inputs, TypeOK, Place
  <2>2. \A a \in Apps : /\ thread[w].batch[a] = active[a]
                      /\ active[a].generation <= generation[a]
                      /\ active[a].generation \in Nat
    BY <1>0, <2>1 DEF Kept, Request, RefreshAssumption
  <2>3. \A a \in Apps : \/ thread'[w].batch[a] = active[a]
                      \/ active[a].generation < generation[a]
    BY <1>0, <2>1, <2>2
  <2>4. \A u \in Threads : \A a \in Apps :
          thread'[u].batch[a].generation <= generation'[a]
    BY <1>0, <2>1 DEF Kept
  <2> QED
    BY <1>0, <2>1, <2>3, <2>4 DEF Kept, NothingForgotten
<1>6. ASSUME NEW w \in Workers, Fetch(w) \/ Throw(w)
      PROVE  Kept' /\ NothingForgotten'
  <2>1. /\ UNCHANGED <<busy, active, pending, token, generation, promised>>
        /\ w \in Threads /\ Passing(w) /\ thread'[w].at = "finish"
        /\ thread'[w].batch = thread[w].batch
        /\ \A u \in Threads : u # w => thread'[u] = thread[u]
    BY <1>0, <1>6 DEF Fetch, Throw, Go, schedule, inputs, TypeOK, Place
  <2> QED
    BY <1>0, <2>1 DEF Kept, NothingForgotten
<1>7. ASSUME NEW w \in Workers, FinishRefresh(w)
      PROVE  Kept' /\ NothingForgotten'
  <2>1. /\ busy /\ w = token /\ w \in Threads /\ Passing(w)
        /\ active' = pending /\ pending' = None /\ generation' = generation
        /\ \A u \in Threads : u # w => thread'[u] = thread[u]
        /\ \A a \in Apps : promised'[a] =
             {r \in promised[a] : ~Dominates(thread[w].batch[a], r)}
    BY <1>0, <1>7
    DEF FinishRefresh, GateHeld, Covered, Go, inputs, TypeOK
  <2>2. ASSUME NEW a \in Apps, NEW r \in promised'[a]
        PROVE  Dominates(active'[a], r) /\ r.generation = generation'[a]
    <3>1. /\ r \in promised[a] /\ ~Dominates(thread[w].batch[a], r)
          /\ r.generation = generation[a] /\ r \in Request
      BY <1>0, <2>1 DEF Kept
    <3>2. Dominates(active[a], r) \/ Dominates(pending[a], r)
      BY <3>1 DEF NothingForgotten
    <3>3. thread[w].batch[a] = active[a] \/ active[a].generation < r.generation
      BY <2>1, <3>1 DEF Kept
    <3>4. active[a].generation < r.generation => ~Dominates(active[a], r)
      BY <1>0, <3>1 DEF Dominates, Request, RefreshAssumption
    <3> QED
      BY <2>1, <3>1, <3>2, <3>3, <3>4
  <2>3. \A a \in Apps : /\ active'[a].generation <= generation'[a]
                      /\ pending'[a].generation <= generation'[a]
    BY <1>0, <2>1 DEF Kept
  <2>4. CASE pending = None
    <3>1. busy' = FALSE /\ token' = token /\ thread'[w] = Rest(w)
      BY <1>0, <1>7, <2>1, <2>4 DEF FinishRefresh, Go, TypeOK
    <3>2. \A v \in Workers : ~Passing(v)'
      BY <3>1 DEF GateHeld
    <3>3. \A u \in Threads : \A a \in Apps :
            thread'[u].batch[a].generation <= generation'[a]
      BY <1>0, <2>1, <3>1 DEF Kept
    <3> QED
      BY <2>1, <2>2, <2>3, <2>4, <3>1, <3>2, <3>3 DEF Kept, NothingForgotten
  <2>5. CASE pending # None
    <3>1. /\ busy' = TRUE /\ token' = token + 1
          /\ thread'[w].at = "starting" /\ thread'[w].batch = active'
      BY <1>0, <1>7, <2>1, <2>5 DEF FinishRefresh, Go, TypeOK, Starting
    <3>2. \A v \in Workers : ~Passing(v)'
      BY <1>0, <2>1, <3>1 DEF GateHeld
    <3>3. \A u \in Threads : u # w => thread'[u].token # token'
      BY <1>0, <2>1, <3>1 DEF GateHeld
    <3>4. \A u \in Threads : \A a \in Apps :
            thread'[u].batch[a].generation <= generation'[a]
      BY <2>1, <2>3, <3>1 DEF Kept
    <3> QED
      BY <2>2, <2>3, <3>1, <3>2, <3>3, <3>4 DEF Kept, NothingForgotten
  <2> QED
    BY <2>4, <2>5
<1>8. ASSUME NEW a \in Apps, Forget(a)
      PROVE  Kept' /\ NothingForgotten'
  <2>1. /\ UNCHANGED <<busy, active, pending, token, thread>>
        /\ generation'[a] = generation[a] + 1 /\ promised'[a] = {}
        /\ \A b \in Apps : b # a => /\ generation'[b] = generation[b]
                                  /\ promised'[b] = promised[b]
    BY <1>0, <1>8 DEF Forget, schedule, TypeOK
  <2>2. \A b \in Apps : generation[b] <= generation'[b] /\ generation'[b] \in Nat
    BY <1>0, <2>1
  <2>3. \A b \in Apps : /\ active[b].generation \in Nat
                      /\ pending[b].generation \in Nat
                      /\ \A t \in Threads : thread[t].batch[b].generation \in Nat
    BY <1>0 DEF Request, RefreshAssumption
  <2>4. \A b \in Apps : /\ active'[b].generation <= generation'[b]
                      /\ pending'[b].generation <= generation'[b]
                      /\ \A t \in Threads :
                           thread'[t].batch[b].generation <= generation'[b]
    BY <1>0, <2>1, <2>2, <2>3 DEF Kept
  <2>5. \A w \in Workers : Passing(w) => \A b \in Apps :
          \/ thread[w].batch[b] = active[b]
          \/ thread[w].at # "pass" /\ active[b].generation < generation'[b]
    BY <1>0, <2>2, <2>3 DEF Kept
  <2> QED
    BY <2>1, <2>4, <2>5 DEF Kept, NothingForgotten
<1>9. ASSUME NEW a \in Apps, EditLocal(a)
      PROVE  Kept' /\ NothingForgotten'
  BY <1>9 DEF EditLocal, Kept, NothingForgotten, schedule
<1> QED
  BY <1>1, <1>2, <1>3, <1>4, <1>5, <1>6, <1>7, <1>8, <1>9
  DEF Next, StartStep, WorkerStep
-----------------------------------------------------------------------------
(***************************************************************************)
(* The theorems.                                                           *)
(***************************************************************************)

\* At the start nobody holds the gate and nothing is promised.
LEMMA InitInv ==
  ASSUME RefreshAssumption, Init
  PROVE  IInv
<1>1. TypeOK
  <2>1. None \in Requests
    BY NoneIsRequests
  <2>2. [at |-> "idle", token |-> 0, batch |-> None] \in Place
    BY <2>1 DEF Place, RefreshAssumption
  <2>3. thread \in [Threads -> Place]
    BY <2>2 DEF Init
  <2>4. /\ generation \in [Apps -> 0 .. MaxGeneration]
        /\ local \in [Apps -> 0 .. MaxEdits]
        /\ read = local /\ told = local
    BY DEF Init, RefreshAssumption
  <2>5. promised \in [Apps -> SUBSET Request]
    BY DEF Init
  <2>6. busy \in BOOLEAN /\ dormant \in BOOLEAN
    BY DEF Init
  <2>7. active \in Requests /\ pending \in Requests
    BY <2>1 DEF Init
  <2>8. token \in 0 .. asked /\ asked \in 0 .. MaxRequests
    BY DEF Init, RefreshAssumption
  <2>9. read \in [Apps -> 0 .. MaxEdits] /\ told \in [Apps -> 0 .. MaxEdits]
    BY <2>4
  <2> QED
    BY <2>3, <2>4, <2>5, <2>6, <2>7, <2>8, <2>9, Zenon DEF TypeOK
<1>2. GateHeld /\ Spare
  BY DEF Init, GateHeld, Spare, Before, Passing, Threads, Workers
<1>3. Kept /\ NothingForgotten
  BY DEF Init, Kept, NothingForgotten, Before, Passing, Threads, Workers,
         None, NoRequest
<1> QED
  BY <1>1, <1>2, <1>3 DEF IInv

\* The strengthened invariant holds of every behaviour.
THEOREM Invariant == Spec => []IInv
<1>1. Init => IInv
  BY RefreshAssumption, InitInv
<1>2. IInv /\ [Next]_vars => IInv'
  <2> SUFFICES ASSUME IInv, [Next]_vars
               PROVE  IInv'
    OBVIOUS
  <2>1. CASE Next
    <3>1. TypeOK'
      BY <2>1, RefreshAssumption, TypeStep DEF IInv
    <3>2. GateHeld' /\ Spare'
      BY <2>1, RefreshAssumption, GateStep DEF IInv
    <3>3. Kept' /\ NothingForgotten'
      BY <2>1, <3>1, <3>2, RefreshAssumption, KeptStep DEF IInv
    <3> QED
      BY <3>1, <3>2, <3>3 DEF IInv
  <2>2. CASE UNCHANGED vars
    BY <2>2 DEF vars, schedule, inputs, IInv, TypeOK, GateHeld, Spare, Kept,
                NothingForgotten, Before, Passing
  <2> QED
    BY <2>1, <2>2
<1> QED
  BY <1>1, <1>2, PTL DEF Spec

\* The variables keep their types.
THEOREM TypesHold == Spec => []TypeOK
BY Invariant, PTL DEF IInv

\* Two passes never overlap, whatever starts fail and however late whoever
\* started a worker undoes it.
THEOREM OnePassHolds == Spec => []OnePass
<1>1. IInv => OnePass
  BY DEF IInv, GateHeld, OnePass
<1> QED
  BY <1>1, Invariant, PTL

\* No request is merged away, pushed aside or dropped with a failed start.
THEOREM NothingForgottenHolds == Spec => []NothingForgotten
BY Invariant, PTL DEF IInv
=============================================================================
