---------------------------- MODULE InputProofs ----------------------------
(***************************************************************************)
(* Theorems about the input of a channel: AsyncReq, the pool of worker     *)
(* threads that serves its read requests among others, and InputBuf, the   *)
(* circular buffer that the reads fill.  The books of the pool are right   *)
(* for any number of threads, requests and idle places.  What the handler  *)
(* of messages reads is what the peer sent, and messages are counted       *)
(* exactly, for every size of the buffer and every way in which the bytes  *)
(* are cut into reads.                                                     *)
(***************************************************************************)
EXTENDS AsyncReq, InputBuf, ProofLemmas

-----------------------------------------------------------------------------
(* The worker pool.                                                        *)


WorkerStates == {"none", "busy", "idle", "leaving", "left"}
ReqStates == {"free", "deferred", "running", "done"}
SdStates == {"STOPPED", "NORMAL", "PENDING"}

\* The requests that come to an end.
Ending == Reqs \cup {ChanReq}

Idle == {w \in Workers : worker[w] = "idle"}
Threads == {w \in Workers : worker[w] # "none"}
Active == {o \in Objs : sd_state[o] # "STOPPED"}

Typed ==
  /\ worker \in [Workers -> WorkerStates]
  /\ wt_req \in [Workers -> AllReqs \cup {NoReq, ShutdownReq}]
  /\ wtrunning_count \in Nat
  /\ req_state \in [AllReqs -> ReqStates]
  /\ sd_state \in [Objs -> SdStates]
  /\ visiting \in Seq(Objs)

\* IdleListExact without cardinalities.
IdleBooks ==
  /\ Lists(wtlist, Idle) /\ Len(wtlist) <= MaxIdle
  /\ \A w \in Idle : wt_req[w] = NoReq

Holds(w, r) == worker[w] = "busy" /\ wt_req[w] = r

\* OneWorkerPerRequest without cardinalities.
Held ==
  /\ \A r \in Ending : req_state[r] = "running" => \E w \in Workers : Holds(w, r)
  /\ \A r \in Ending, w \in Workers : Holds(w, r) => req_state[r] = "running"
  /\ \A r \in Ending, v, w \in Workers : Holds(v, r) /\ Holds(w, r) => v = w

ThreadBooks == wtrunning_count = Cardinality(Threads)

\* The subsystem of the requests is active exactly while there are threads.
ActiveBooks ==
  /\ Lists(shutdown_active, Active)
  /\ wtrunning_count = 0 <=> sd_state["async"] = "STOPPED"

PInv == Typed /\ IdleBooks /\ Held /\ ThreadBooks /\ ActiveBooks

-----------------------------------------------------------------------------
\* The requests that end, the timer and the special values are told apart.
LEMMA ReqFacts ==
  /\ Ending \subseteq AllReqs /\ TimerReq \in AllReqs /\ TimerReq \notin Ending
  /\ ShutdownReq \notin Ending /\ NoReq \notin Ending
  /\ "async" \in Objs /\ "channel" \in Objs
BY AsyncReqAssumption DEF Ending, AllReqs

\* What the invariant says is what the runs check.
LEMMA PInvIsExact ==
  ASSUME PInv
  PROVE  PoolExact
<1>1. OneWorkerPerRequest
  <2> SUFFICES ASSUME NEW r \in Ending
               PROVE  Cardinality({w \in Workers : worker[w] = "busy" /\ wt_req[w] = r})
                        = IF req_state[r] = "running" THEN 1 ELSE 0
    BY DEF OneWorkerPerRequest, Ending
  <2> DEFINE H == {w \in Workers : worker[w] = "busy" /\ wt_req[w] = r}
  <2>1. CASE req_state[r] = "running"
    <3>1. PICK w \in Workers : Holds(w, r)
      BY <2>1 DEF PInv, Held
    <3>2. H = {w}
      BY <3>1 DEF PInv, Held, Holds
    <3> HIDE DEF H
    <3>3. Cardinality(H) = 1
      BY <3>2, FS_Singleton
    <3> QED
      BY <2>1, <3>3 DEF H
  <2>2. CASE req_state[r] # "running"
    <3>1. H = {}
      BY <2>2 DEF PInv, Held, Holds
    <3> HIDE DEF H
    <3>2. Cardinality(H) = 0
      BY <3>1, FS_EmptySet
    <3> QED
      BY <2>2, <3>2 DEF H
  <2> QED
    BY <2>1, <2>2
<1>2. IdleListExact
  <2>1. ToSet(wtlist) = Idle /\ Cardinality(Idle) = Len(wtlist)
    BY ListsCount DEF PInv, IdleBooks
  <2> QED
    BY <2>1 DEF IdleListExact, PInv, IdleBooks, Idle
<1>3. RunningCountExact
  <2>1. ToSet(shutdown_active) = Active /\ Cardinality(Active) = Len(shutdown_active)
    BY ListsCount DEF PInv, ActiveBooks
  <2>2. (wtrunning_count = 0) = (sd_state["async"] = "STOPPED")
    BY DEF PInv, ActiveBooks
  <2> QED
    BY <2>1, <2>2 DEF RunningCountExact, PInv, ThreadBooks, Threads, Active
<1> QED
  BY <1>1, <1>2, <1>3 DEF PoolExact

\* An empty pool satisfies the invariant.
LEMMA InitPInv == Init => PInv
<1> SUFFICES ASSUME Init PROVE PInv
  OBVIOUS
<1>1. Typed
  BY EmptySeq DEF Init, SdInit, Typed, WorkerStates, ReqStates, SdStates
<1>2. Idle = {} /\ Threads = {} /\ Active = {}
  BY DEF Init, SdInit, Idle, Threads, Active
<1>3. IdleBooks
  <2>1. Len(<<>>) <= MaxIdle
    BY AsyncReqAssumption, EmptySeq
  <2> QED
    BY <1>2, <2>1, ListsEmpty DEF IdleBooks, Init
<1>4. Held
  BY ReqFacts DEF Held, Holds, Init
<1>5. ThreadBooks
  BY <1>2, FS_EmptySet DEF ThreadBooks, Init
<1>6. ActiveBooks
  BY <1>2, ListsEmpty, ReqFacts DEF ActiveBooks, Init, SdInit
<1> QED
  BY <1>1, <1>3, <1>4, <1>5, <1>6 DEF PInv

-----------------------------------------------------------------------------
(* The operations on the pool.                                             *)

\* A worker g that has no request takes one that nobody has.
Takes(g, r) ==
  /\ worker' = [worker EXCEPT ![g] = "busy"]
  /\ wt_req' = [wt_req EXCEPT ![g] = r]
  /\ req_state' = [req_state EXCEPT ![r] = "running"]

\* A worker that takes a request holds that one alone.
LEMMA TakesKeepsHeld ==
  ASSUME Typed, Held, NEW g \in Workers, worker[g] # "busy",
         NEW r \in AllReqs, req_state[r] # "running", Takes(g, r)
  PROVE  /\ Held'
         /\ worker' \in [Workers -> WorkerStates]
         /\ wt_req' \in [Workers -> AllReqs \cup {NoReq, ShutdownReq}]
         /\ req_state' \in [AllReqs -> ReqStates]
<1>1. /\ worker' \in [Workers -> WorkerStates]
      /\ wt_req' \in [Workers -> AllReqs \cup {NoReq, ShutdownReq}]
      /\ req_state' \in [AllReqs -> ReqStates]
  BY DEF Typed, Takes, WorkerStates, ReqStates
<1>2. ASSUME NEW w \in Workers, NEW s \in Ending
      PROVE  Holds(w, s)' <=> (IF w = g THEN s = r ELSE Holds(w, s))
  BY DEF Typed, Takes, Holds
<1>3. ASSUME NEW s \in Ending
      PROVE  req_state'[s] = IF s = r THEN "running" ELSE req_state[s]
  BY ReqFacts DEF Typed, Takes
<1>4. \A w \in Workers : r \in Ending => ~Holds(w, r)
  BY DEF Held
<1>5. \A s \in Ending : ~Holds(g, s)
  BY DEF Holds
<1>6. ASSUME NEW s \in Ending, req_state'[s] = "running"
      PROVE  \E w \in Workers : Holds(w, s)'
  <2>1. CASE s = r
    BY <1>2, <2>1
  <2>2. CASE s # r
    <3>1. PICK w \in Workers : Holds(w, s)
      BY <1>3, <1>6, <2>2 DEF Held
    <3> QED
      BY <1>2, <1>5, <3>1
  <2> QED
    BY <2>1, <2>2
<1>7. ASSUME NEW s \in Ending, NEW w \in Workers, Holds(w, s)'
      PROVE  req_state'[s] = "running"
  BY <1>2, <1>3, <1>7 DEF Held
<1>8. ASSUME NEW s \in Ending, NEW v \in Workers, NEW w \in Workers,
             Holds(v, s)', Holds(w, s)'
      PROVE  v = w
  BY <1>2, <1>4, <1>8 DEF Held
<1> QED
  BY <1>1, <1>6, <1>7, <1>8 DEF Held

\* GiveToIdle, for a request that nobody has.
LEMMA GiveKeeps ==
  ASSUME PInv, wtlist # <<>>, NEW r \in AllReqs, req_state[r] # "running",
         GiveToIdle(r), req_state' = [req_state EXCEPT ![r] = "running"]
  PROVE  /\ Held' /\ IdleBooks' /\ ThreadBooks'
         /\ worker' \in [Workers -> WorkerStates]
         /\ wt_req' \in [Workers -> AllReqs \cup {NoReq, ShutdownReq}]
         /\ req_state' \in [AllReqs -> ReqStates]
         /\ wtrunning_count' = wtrunning_count
<1> DEFINE g == Head(wtlist)
<1>1. g \in Idle /\ Lists(Tail(wtlist), Idle \ {g}) /\ Len(Tail(wtlist)) = Len(wtlist) - 1
  BY ListsTail DEF PInv, IdleBooks
<1>2. g \in Workers /\ worker[g] = "idle"
  BY <1>1 DEF Idle
<1>3. Takes(g, r)
  BY DEF GiveToIdle, Takes
<1>4. wtlist' = Tail(wtlist) /\ wtrunning_count' = wtrunning_count
  BY DEF GiveToIdle
<1> HIDE DEF g
<1>5. /\ Held' /\ worker' \in [Workers -> WorkerStates]
      /\ wt_req' \in [Workers -> AllReqs \cup {NoReq, ShutdownReq}]
      /\ req_state' \in [AllReqs -> ReqStates]
  BY <1>2, <1>3, TakesKeepsHeld DEF PInv
<1>6. Idle' = Idle \ {g} /\ Threads' = Threads
  BY <1>2, <1>3 DEF Idle, Threads, Takes, PInv, Typed
<1>7. \A w \in Idle' : wt_req'[w] = NoReq
  BY <1>3, <1>6 DEF Takes, PInv, Typed, IdleBooks, Idle
<1>8. Len(wtlist') <= MaxIdle
  <2>1. Len(wtlist) \in Nat /\ MaxIdle \in Nat /\ Len(wtlist) <= MaxIdle
    BY AsyncReqAssumption, ListsCount DEF PInv, IdleBooks
  <2> QED
    BY <1>1, <1>4, <2>1
<1> QED
  BY <1>1, <1>4, <1>5, <1>6, <1>7, <1>8 DEF PInv, IdleBooks, ThreadBooks

\* worker_thread_add, for a request that nobody has.
LEMMA AddKeeps ==
  ASSUME PInv, NEW r \in AllReqs, req_state[r] # "running",
         WorkerThreadAdd(r), req_state' = [req_state EXCEPT ![r] = "running"]
  PROVE  /\ Held' /\ IdleBooks' /\ ThreadBooks'
         /\ worker' \in [Workers -> WorkerStates]
         /\ wt_req' \in [Workers -> AllReqs \cup {NoReq, ShutdownReq}]
         /\ req_state' \in [AllReqs -> ReqStates]
         /\ wtrunning_count' = wtrunning_count + 1
<1>1. PICK g \in Workers : /\ worker[g] = "none"
                           /\ worker' = [worker EXCEPT ![g] = "busy"]
                           /\ wt_req' = [wt_req EXCEPT ![g] = r]
  BY DEF WorkerThreadAdd
<1>2. wtlist' = wtlist /\ wtrunning_count' = wtrunning_count + 1
  BY DEF WorkerThreadAdd
<1>3. Takes(g, r)
  BY <1>1 DEF Takes
<1>4. /\ Held' /\ worker' \in [Workers -> WorkerStates]
      /\ wt_req' \in [Workers -> AllReqs \cup {NoReq, ShutdownReq}]
      /\ req_state' \in [AllReqs -> ReqStates]
  BY <1>1, <1>3, TakesKeepsHeld DEF PInv
<1>5. Idle' = Idle /\ Threads' = Threads \cup {g} /\ g \notin Threads
  BY <1>1 DEF Idle, Threads, PInv, Typed
<1>6. \A w \in Idle' : wt_req'[w] = NoReq
  BY <1>1, <1>5 DEF PInv, Typed, IdleBooks, Idle
<1>7. ThreadBooks'
  <2>1. IsFiniteSet(Threads)
    BY AsyncReqAssumption, FS_Subset DEF Threads
  <2>2. Cardinality(Threads \cup {g}) = Cardinality(Threads) + 1
    BY <1>5, <2>1, FS_AddElement
  <2> QED
    BY <1>2, <1>5, <2>2 DEF ThreadBooks, PInv
<1> QED
  BY <1>2, <1>4, <1>5, <1>6, <1>7 DEF PInv, IdleBooks

-----------------------------------------------------------------------------
(* The operations of the shutdown manager.                                 *)

\* Linking an object keeps the list of active objects exact.
LEMMA LinkedLists ==
  ASSUME Typed, NEW o \in Objs, NEW q, NEW S, Lists(q, S),
         sd_state[o] = "STOPPED" => o \notin S,
         sd_state[o] # "STOPPED" => o \in S
  PROVE  Lists(Linked(q, o), S \cup {o})
<1>1. CASE sd_state[o] = "STOPPED"
  BY <1>1, ListsAppend DEF Linked
<1>2. CASE sd_state[o] # "STOPPED"
  <2>1. S \cup {o} = S
    BY <1>2
  <2> QED
    BY <1>2, <2>1 DEF Linked
<1> QED
  BY <1>1, <1>2

\* shutdown_set_normal keeps the list of active objects exact.
LEMMA SetNormalKeeps ==
  ASSUME PInv, NEW o \in Objs, SetNormal(o)
  PROVE  /\ Lists(shutdown_active, Active)' /\ sd_state' \in [Objs -> SdStates]
         /\ sd_state'[o] = "NORMAL"
         /\ \A p \in Objs \ {o} : sd_state'[p] = sd_state[p]
<1>1. /\ sd_state' \in [Objs -> SdStates] /\ sd_state'[o] = "NORMAL"
      /\ \A p \in Objs \ {o} : sd_state'[p] = sd_state[p]
  BY DEF SetNormal, PInv, Typed, SdStates
<1>2. Active' = Active \cup {o}
  BY <1>1 DEF Active
<1>3. Lists(Linked(shutdown_active, o), Active \cup {o})
  BY LinkedLists DEF PInv, ActiveBooks, Active
<1> QED
  BY <1>1, <1>2, <1>3 DEF SetNormal

\* shutdown_set_stopped keeps the list of active objects exact.
LEMMA SetStoppedKeeps ==
  ASSUME PInv, NEW o \in Objs, SetStopped(o)
  PROVE  /\ Lists(shutdown_active, Active)' /\ sd_state' \in [Objs -> SdStates]
         /\ sd_state'[o] = "STOPPED"
         /\ \A p \in Objs \ {o} : sd_state'[p] = sd_state[p]
<1>1. CASE sd_state[o] = "STOPPED"
  <2>1. sd_state' = sd_state /\ shutdown_active' = shutdown_active
    BY <1>1 DEF SetStopped
  <2>2. Active' = Active
    BY <2>1 DEF Active
  <2> QED
    BY <1>1, <2>1, <2>2 DEF PInv, Typed, ActiveBooks
<1>2. CASE sd_state[o] # "STOPPED"
  <2>1. /\ sd_state' = [sd_state EXCEPT ![o] = "STOPPED"]
        /\ shutdown_active' = RemoveAt(shutdown_active, Link(o))
    BY <1>2 DEF SetStopped
  <2>2. /\ sd_state' \in [Objs -> SdStates] /\ sd_state'[o] = "STOPPED"
        /\ \A p \in Objs \ {o} : sd_state'[p] = sd_state[p]
    BY <2>1 DEF PInv, Typed, SdStates
  <2>3. Active' = Active \ {o}
    BY <2>2 DEF Active
  <2>4. Link(o) \in 1 .. Len(shutdown_active) /\ shutdown_active[Link(o)] = o
    <3>1. shutdown_active \in Seq(Active) /\ o \in Active
      BY <1>2 DEF PInv, ActiveBooks, Lists, Active
    <3>2. DOMAIN shutdown_active = 1 .. Len(shutdown_active)
      BY <3>1, LenProperties
    <3>3. \E k \in DOMAIN shutdown_active : shutdown_active[k] = o
      BY <3>1, <3>2 DEF PInv, ActiveBooks, Lists
    <3> QED
      BY <3>2, <3>3 DEF Link
  <2>5. Lists(shutdown_active', Active \ {o})
    BY <2>1, <2>4, ListsRemove DEF PInv, ActiveBooks
  <2> QED
    BY <2>2, <2>3, <2>5
<1> QED
  BY <1>1, <1>2

-----------------------------------------------------------------------------
(* Every step keeps the invariant.                                         *)

\* Steps that leave the pool and the requests alone.
LEMMA SamePool ==
  ASSUME PInv, UNCHANGED <<pool, req_state>>
  PROVE  /\ IdleBooks' /\ Held' /\ ThreadBooks'
         /\ worker' \in [Workers -> WorkerStates]
         /\ wt_req' \in [Workers -> AllReqs \cup {NoReq, ShutdownReq}]
         /\ req_state' \in [AllReqs -> ReqStates]
         /\ wtrunning_count' = wtrunning_count
<1>1. /\ worker' = worker /\ wt_req' = wt_req /\ wtlist' = wtlist
      /\ wtrunning_count' = wtrunning_count /\ req_state' = req_state
  BY DEF pool
<1>2. Idle' = Idle /\ Threads' = Threads
  BY <1>1 DEF Idle, Threads
<1> QED
  BY <1>1, <1>2 DEF PInv, Typed, IdleBooks, Held, Holds, ThreadBooks

\* Steps that leave the shutdown manager alone.
LEMMA SameActive ==
  ASSUME PInv, sd_state' = sd_state, shutdown_active' = shutdown_active,
         wtrunning_count' = wtrunning_count
  PROVE  ActiveBooks' /\ sd_state' \in [Objs -> SdStates]
<1>1. Active' = Active
  BY DEF Active
<1> QED
  BY <1>1 DEF PInv, Typed, ActiveBooks

\* async_req_post on the dispatch thread, with shutdown_set_normal.
LEMMA PostKeeps ==
  ASSUME PInv, NEW r \in AllReqs, Post(r), ActivateAsync(wtlist = <<>>),
         visiting' = visiting
  PROVE  PInv'
<1>1. req_state[r] # "running" /\ req_state' = [req_state EXCEPT ![r] = "running"]
  BY DEF Post
<1>2. CASE wtlist = <<>>
  <2>1. WorkerThreadAdd(r)
    BY <1>2 DEF Post
  <2>2. /\ Held' /\ IdleBooks' /\ ThreadBooks'
        /\ worker' \in [Workers -> WorkerStates]
        /\ wt_req' \in [Workers -> AllReqs \cup {NoReq, ShutdownReq}]
        /\ req_state' \in [AllReqs -> ReqStates]
        /\ wtrunning_count' = wtrunning_count + 1
    BY <1>1, <2>1, AddKeeps
  <2>3. wtrunning_count \in Nat
    BY DEF PInv, Typed
  <2>4. ActiveBooks' /\ sd_state' \in [Objs -> SdStates]
    <3>1. CASE wtrunning_count = 0
      <4>1. SetNormal("async")
        BY <1>2, <3>1 DEF ActivateAsync
      <4>2. /\ Lists(shutdown_active, Active)' /\ sd_state' \in [Objs -> SdStates]
            /\ sd_state'["async"] = "NORMAL"
        BY <4>1, SetNormalKeeps, ReqFacts
      <4> QED
        BY <2>2, <2>3, <4>2 DEF ActiveBooks
    <3>2. CASE wtrunning_count # 0
      <4>1. sd_state' = sd_state /\ shutdown_active' = shutdown_active
        BY <3>2 DEF ActivateAsync
      <4>2. Active' = Active
        BY <4>1 DEF Active
      <4> QED
        BY <2>2, <2>3, <3>2, <4>1, <4>2 DEF PInv, Typed, ActiveBooks
    <3> QED
      BY <3>1, <3>2
  <2> QED
    BY <2>2, <2>3, <2>4 DEF PInv, Typed
<1>3. CASE wtlist # <<>>
  <2>1. GiveToIdle(r)
    BY <1>3 DEF Post
  <2>2. /\ Held' /\ IdleBooks' /\ ThreadBooks'
        /\ worker' \in [Workers -> WorkerStates]
        /\ wt_req' \in [Workers -> AllReqs \cup {NoReq, ShutdownReq}]
        /\ req_state' \in [AllReqs -> ReqStates]
        /\ wtrunning_count' = wtrunning_count
    BY <1>1, <1>3, <2>1, GiveKeeps
  <2>3. sd_state' = sd_state /\ shutdown_active' = shutdown_active
    BY <1>3 DEF ActivateAsync
  <2>4. ActiveBooks' /\ sd_state' \in [Objs -> SdStates]
    BY <2>2, <2>3, SameActive
  <2> QED
    BY <2>2, <2>4 DEF PInv, Typed
<1> QED
  BY <1>2, <1>3

\* async_req_post with a worker or a new thread.
LEMMA PostByThreadKeeps ==
  ASSUME PInv, NEW r \in Reqs, PostByThread(r)
  PROVE  PInv'
<1>1. /\ req_state[r] = "free" /\ r \in AllReqs
      /\ sd_state' = sd_state /\ shutdown_active' = shutdown_active /\ visiting' = visiting
  BY DEF PostByThread, sdVars, AllReqs
<1>2. CASE wtlist = <<>>
  <2>1. UNCHANGED pool /\ req_state' = [req_state EXCEPT ![r] = "deferred"]
    BY <1>2 DEF PostByThread
  <2>2. /\ worker' = worker /\ wt_req' = wt_req /\ wtlist' = wtlist
        /\ wtrunning_count' = wtrunning_count
    BY <2>1 DEF pool
  <2>3. /\ req_state' \in [AllReqs -> ReqStates]
        /\ \A s \in AllReqs : req_state'[s] = "running" <=> req_state[s] = "running"
    BY <1>1, <2>1 DEF PInv, Typed, ReqStates
  <2>4. Held'
    BY <2>2, <2>3, ReqFacts DEF PInv, Held, Holds
  <2>5. Idle' = Idle /\ Threads' = Threads
    BY <2>2 DEF Idle, Threads
  <2>6. ActiveBooks' /\ sd_state' \in [Objs -> SdStates]
    BY <1>1, <2>2, SameActive
  <2> QED
    BY <1>1, <2>2, <2>3, <2>4, <2>5, <2>6 DEF PInv, Typed, IdleBooks, ThreadBooks
<1>3. CASE wtlist # <<>>
  <2>1. GiveToIdle(r) /\ req_state' = [req_state EXCEPT ![r] = "running"]
    BY <1>3 DEF PostByThread
  <2>2. /\ Held' /\ IdleBooks' /\ ThreadBooks'
        /\ worker' \in [Workers -> WorkerStates]
        /\ wt_req' \in [Workers -> AllReqs \cup {NoReq, ShutdownReq}]
        /\ req_state' \in [AllReqs -> ReqStates]
        /\ wtrunning_count' = wtrunning_count
    BY <1>1, <1>3, <2>1, GiveKeeps
  <2>3. ActiveBooks' /\ sd_state' \in [Objs -> SdStates]
    BY <1>1, <2>2, SameActive
  <2> QED
    BY <1>1, <2>2, <2>3 DEF PInv, Typed
<1> QED
  BY <1>2, <1>3

\* async_req_post when every worker is taken.
LEMMA AddDeferredKeeps ==
  ASSUME PInv, NEW r \in Reqs, WorkerThreadAddDeferred(r)
  PROVE  PInv'
<1>1. /\ req_state[r] # "running" /\ r \in AllReqs
      /\ WorkerThreadAdd(r) /\ req_state' = [req_state EXCEPT ![r] = "running"]
      /\ ActivateAsync(TRUE) /\ visiting' = visiting
  BY DEF WorkerThreadAddDeferred, AllReqs, sdRest
<1>2. /\ Held' /\ IdleBooks' /\ ThreadBooks'
      /\ worker' \in [Workers -> WorkerStates]
      /\ wt_req' \in [Workers -> AllReqs \cup {NoReq, ShutdownReq}]
      /\ req_state' \in [AllReqs -> ReqStates]
      /\ wtrunning_count' = wtrunning_count + 1
  BY <1>1, AddKeeps
<1>3. wtrunning_count \in Nat
  BY DEF PInv, Typed
<1>4. ActiveBooks' /\ sd_state' \in [Objs -> SdStates]
  <2>1. CASE wtrunning_count = 0
    <3>1. SetNormal("async")
      BY <1>1, <2>1 DEF ActivateAsync
    <3>2. /\ Lists(shutdown_active, Active)' /\ sd_state' \in [Objs -> SdStates]
          /\ sd_state'["async"] = "NORMAL"
      BY <3>1, SetNormalKeeps, ReqFacts
    <3> QED
      BY <1>2, <1>3, <3>2 DEF ActiveBooks
  <2>2. CASE wtrunning_count # 0
    <3>1. sd_state' = sd_state /\ shutdown_active' = shutdown_active
      BY <1>1, <2>2 DEF ActivateAsync
    <3>2. Active' = Active
      BY <3>1 DEF Active
    <3> QED
      BY <1>2, <1>3, <2>2, <3>1, <3>2 DEF PInv, Typed, ActiveBooks
  <2> QED
    BY <2>1, <2>2
<1> QED
  BY <1>1, <1>2, <1>3, <1>4 DEF PInv, Typed

\* worker_thread_handler, the end of a request.
LEMMA WorkerFinishesKeeps ==
  ASSUME PInv, NEW w \in Workers, WorkerFinishes(w)
  PROVE  PInv'
<1> DEFINE r == wt_req[w]
<1>1. /\ worker[w] = "busy" /\ r \in Ending /\ r \in AllReqs
      /\ req_state' = [req_state EXCEPT ![r] = "done"]
      /\ wt_req' = [wt_req EXCEPT ![w] = NoReq]
      /\ wtrunning_count' = wtrunning_count
      /\ sd_state' = sd_state /\ shutdown_active' = shutdown_active /\ visiting' = visiting
  BY DEF WorkerFinishes, Ending, AllReqs, sdVars
<1>2. \/ worker' = [worker EXCEPT ![w] = "leaving"] /\ wtlist' = wtlist
      \/ /\ worker' = [worker EXCEPT ![w] = "idle"] /\ wtlist' = Append(wtlist, w)
         /\ ~(Len(wtlist) >= MaxIdle)
  BY DEF WorkerFinishes, LeavesPool
<1>3. ActiveBooks' /\ sd_state' \in [Objs -> SdStates]
  BY <1>1, SameActive
<1>4. /\ worker' \in [Workers -> WorkerStates]
      /\ worker'[w] \in {"leaving", "idle"}
      /\ \A v \in Workers \ {w} : worker'[v] = worker[v] /\ wt_req'[v] = wt_req[v]
      /\ wt_req' \in [Workers -> AllReqs \cup {NoReq, ShutdownReq}]
      /\ wt_req'[w] = NoReq
      /\ req_state' \in [AllReqs -> ReqStates]
      /\ \A s \in AllReqs : req_state'[s] = IF s = r THEN "done" ELSE req_state[s]
  <2>1. /\ wt_req' \in [Workers -> AllReqs \cup {NoReq, ShutdownReq}]
        /\ wt_req'[w] = NoReq /\ \A v \in Workers \ {w} : wt_req'[v] = wt_req[v]
    BY <1>1 DEF PInv, Typed
  <2>2. /\ req_state' \in [AllReqs -> ReqStates]
        /\ \A s \in AllReqs : req_state'[s] = IF s = r THEN "done" ELSE req_state[s]
    BY <1>1 DEF PInv, Typed, ReqStates
  <2>3. /\ worker' \in [Workers -> WorkerStates]
        /\ worker'[w] \in {"leaving", "idle"}
        /\ \A v \in Workers \ {w} : worker'[v] = worker[v]
    BY <1>2 DEF PInv, Typed, WorkerStates
  <2> QED
    BY <2>1, <2>2, <2>3
<1>5. Held'
  <2>1. ASSUME NEW v \in Workers, NEW s \in Ending
        PROVE  Holds(v, s)' <=> Holds(v, s) /\ v # w
    BY <1>4, ReqFacts DEF Holds
  <2>2. Holds(w, r)
    BY <1>1 DEF Holds
  <2>3. \A s \in Ending : req_state'[s] = IF s = r THEN "done" ELSE req_state[s]
    BY <1>4, ReqFacts
  <2> HIDE DEF r
  <2>4. ASSUME NEW s \in Ending, NEW v \in Workers, Holds(v, s)'
        PROVE  req_state'[s] = "running"
    <3>1. Holds(v, s) /\ v # w
      BY <2>1, <2>4
    <3>2. req_state[s] = "running"
      BY <3>1 DEF PInv, Held
    <3>3. s # r
      BY <1>1, <2>2, <3>1 DEF PInv, Held
    <3> QED
      BY <2>3, <3>2, <3>3
  <2>5. ASSUME NEW s \in Ending, req_state'[s] = "running"
        PROVE  \E v \in Workers : Holds(v, s)'
    <3>1. s # r /\ req_state[s] = "running"
      BY <2>3, <2>5
    <3>2. PICK v \in Workers : Holds(v, s)
      BY <3>1 DEF PInv, Held
    <3>3. v # w
      BY <2>2, <3>1, <3>2 DEF Holds
    <3> QED
      BY <2>1, <3>2, <3>3
  <2>6. ASSUME NEW s \in Ending, NEW u \in Workers, NEW v \in Workers,
               Holds(u, s)', Holds(v, s)'
        PROVE  u = v
    BY <2>1, <2>6 DEF PInv, Held
  <2> QED
    BY <2>4, <2>5, <2>6 DEF Held
<1>6. Threads' = Threads
  BY <1>1, <1>4 DEF Threads
<1>7. ASSUME NEW v \in Idle' PROVE wt_req'[v] = NoReq
  BY <1>4 DEF PInv, IdleBooks, Idle
<1>8. Lists(wtlist, Idle)' /\ Len(wtlist') <= MaxIdle
  <2>1. Len(wtlist) \in Nat /\ MaxIdle \in Nat /\ Len(wtlist) <= MaxIdle
    BY AsyncReqAssumption, ListsCount DEF PInv, IdleBooks
  <2>2. CASE worker'[w] = "leaving" /\ wtlist' = wtlist
    <3>1. Idle' = Idle
      BY <1>1, <1>4, <2>2 DEF Idle
    <3> QED
      BY <2>1, <2>2, <3>1 DEF PInv, IdleBooks
  <2>3. CASE worker'[w] = "idle" /\ wtlist' = Append(wtlist, w) /\ ~(Len(wtlist) >= MaxIdle)
    <3>1. Idle' = Idle \cup {w} /\ w \notin Idle
      BY <1>1, <1>4, <2>3 DEF Idle
    <3>2. Lists(Append(wtlist, w), Idle \cup {w}) /\ Len(Append(wtlist, w)) = Len(wtlist) + 1
      BY <3>1, ListsAppend DEF PInv, IdleBooks
    <3> QED
      BY <2>1, <2>3, <3>1, <3>2
  <2> QED
    BY <1>2, <2>2, <2>3 DEF PInv, Typed
<1> QED
  BY <1>1, <1>3, <1>4, <1>5, <1>6, <1>7, <1>8 DEF PInv, Typed, IdleBooks, ThreadBooks

\* A worker whose request is not one that ends, or that has none, moves on.
LEMMA WorkerGoesKeeps ==
  ASSUME PInv, NEW w \in Workers, WorkerStops(w) \/ WorkerLeaves(w)
  PROVE  PInv'
<1>1. /\ wt_req' = wt_req /\ wtlist' = wtlist /\ wtrunning_count' = wtrunning_count
      /\ req_state' = req_state
      /\ sd_state' = sd_state /\ shutdown_active' = shutdown_active /\ visiting' = visiting
  BY DEF WorkerStops, WorkerLeaves, sdVars
<1>2. /\ worker' \in [Workers -> WorkerStates]
      /\ worker[w] \in {"busy", "leaving"} /\ worker'[w] \in {"leaving", "left"}
      /\ \A v \in Workers \ {w} : worker'[v] = worker[v]
  BY DEF WorkerStops, WorkerLeaves, PInv, Typed, WorkerStates
<1>3. \A s \in Ending : ~Holds(w, s)
  BY ReqFacts DEF WorkerStops, WorkerLeaves, Holds
<1>4. ASSUME NEW v \in Workers, NEW s \in Ending PROVE Holds(v, s)' <=> Holds(v, s)
  <2>1. CASE v = w
    BY <1>2, <1>3, <2>1 DEF Holds
  <2>2. CASE v # w
    BY <1>1, <1>2, <2>2 DEF Holds
  <2> QED
    BY <2>1, <2>2
<1>5. Held'
  BY <1>1, <1>4 DEF PInv, Held
<1>6. Idle' = Idle /\ Threads' = Threads
  BY <1>2 DEF Idle, Threads
<1>7. ActiveBooks' /\ sd_state' \in [Objs -> SdStates]
  BY <1>1, SameActive
<1> QED
  BY <1>1, <1>2, <1>5, <1>6, <1>7 DEF PInv, Typed, IdleBooks, ThreadBooks

\* worker_thread_exit.
LEMMA WorkerThreadExitKeeps ==
  ASSUME PInv, NEW w \in Workers, WorkerThreadExit(w)
  PROVE  PInv'
<1>1. /\ worker[w] = "left" /\ worker' = [worker EXCEPT ![w] = "none"]
      /\ wt_req' = [wt_req EXCEPT ![w] = NoReq]
      /\ wtrunning_count' = wtrunning_count - 1
      /\ wtlist' = wtlist /\ req_state' = req_state /\ visiting' = visiting
  BY DEF WorkerThreadExit
<1>2. /\ worker' \in [Workers -> WorkerStates]
      /\ wt_req' \in [Workers -> AllReqs \cup {NoReq, ShutdownReq}]
      /\ worker'[w] = "none"
      /\ \A v \in Workers \ {w} : worker'[v] = worker[v] /\ wt_req'[v] = wt_req[v]
  BY <1>1 DEF PInv, Typed, WorkerStates
<1>3. Idle' = Idle /\ Threads' = Threads \ {w} /\ w \in Threads
  BY <1>1, <1>2 DEF Idle, Threads
<1>4. IdleBooks'
  <2>1. \A v \in Idle : v \in Workers \ {w}
    BY <1>1 DEF Idle
  <2> QED
    BY <1>1, <1>2, <1>3, <2>1 DEF PInv, IdleBooks
<1>5. Held'
  <2>1. ASSUME NEW v \in Workers, NEW s \in Ending PROVE Holds(v, s)' <=> Holds(v, s)
    <3>1. CASE v = w
      BY <1>1, <1>2, <3>1 DEF Holds
    <3>2. CASE v # w
      BY <1>2, <3>2 DEF Holds
    <3> QED
      BY <3>1, <3>2
  <2> QED
    BY <1>1, <2>1 DEF PInv, Held
<1>6. wtrunning_count \in Nat \ {0} /\ ThreadBooks'
  <2>1. IsFiniteSet(Threads)
    BY AsyncReqAssumption, FS_Subset DEF Threads
  <2>2. Cardinality(Threads \ {w}) = Cardinality(Threads) - 1 /\ Cardinality(Threads) \in Nat
    BY <1>3, <2>1, FS_RemoveElement, FS_CardinalityType
  <2>3. IsFiniteSet(Threads \ {w})
    BY <2>1, FS_Subset
  <2>4. Cardinality(Threads \ {w}) \in Nat
    BY <2>3, FS_CardinalityType
  <2> QED
    BY <1>1, <1>3, <2>2, <2>4 DEF ThreadBooks, PInv
<1>7. ActiveBooks' /\ sd_state' \in [Objs -> SdStates]
  <2>1. CASE LastWorker
    <3>1. SetStopped("async")
      BY <2>1 DEF WorkerThreadExit
    <3>2. /\ Lists(shutdown_active, Active)' /\ sd_state' \in [Objs -> SdStates]
          /\ sd_state'["async"] = "STOPPED"
      BY <3>1, SetStoppedKeeps, ReqFacts
    <3>3. wtrunning_count' = 0
      BY <1>1, <2>1 DEF LastWorker
    <3> QED
      BY <3>2, <3>3 DEF ActiveBooks
  <2>2. CASE ~LastWorker
    <3>1. sd_state' = sd_state /\ shutdown_active' = shutdown_active
      BY <2>2 DEF WorkerThreadExit
    <3>2. Active' = Active
      BY <3>1 DEF Active
    <3>3. wtrunning_count' # 0 /\ wtrunning_count # 0
      BY <1>1, <1>6, <2>2 DEF LastWorker
    <3> QED
      BY <3>1, <3>2, <3>3 DEF PInv, Typed, ActiveBooks
  <2> QED
    BY <2>1, <2>2
<1>8. wtrunning_count' \in Nat
  BY <1>1, <1>6
<1> QED
  BY <1>1, <1>2, <1>4, <1>5, <1>6, <1>7, <1>8 DEF PInv, Typed

\* An event of a request that is done is dispatched.
LEMMA DoneKeeps ==
  ASSUME PInv, NEW r \in AllReqs, req_state[r] = "done",
         req_state' = [req_state EXCEPT ![r] = "free"], UNCHANGED pool
  PROVE  /\ IdleBooks' /\ Held' /\ ThreadBooks'
         /\ worker' \in [Workers -> WorkerStates]
         /\ wt_req' \in [Workers -> AllReqs \cup {NoReq, ShutdownReq}]
         /\ req_state' \in [AllReqs -> ReqStates]
         /\ wtrunning_count' = wtrunning_count
<1>1. /\ worker' = worker /\ wt_req' = wt_req /\ wtlist' = wtlist
      /\ wtrunning_count' = wtrunning_count
  BY DEF pool
<1>2. /\ req_state' \in [AllReqs -> ReqStates]
      /\ \A s \in AllReqs : req_state'[s] = "running" <=> req_state[s] = "running"
  BY DEF PInv, Typed, ReqStates
<1>3. Held'
  BY <1>1, <1>2, ReqFacts DEF PInv, Held, Holds
<1>4. Idle' = Idle /\ Threads' = Threads
  BY <1>1 DEF Idle, Threads
<1> QED
  BY <1>1, <1>2, <1>3, <1>4 DEF PInv, Typed, IdleBooks, ThreadBooks

\* The done callback of a request.
LEMMA RequestDoneKeeps ==
  ASSUME PInv, NEW r \in Reqs, RequestDone(r)
  PROVE  PInv'
<1>1. /\ r \in AllReqs /\ req_state[r] = "done"
      /\ req_state' = [req_state EXCEPT ![r] = "free"] /\ UNCHANGED pool
      /\ sd_state' = sd_state /\ shutdown_active' = shutdown_active /\ visiting' = visiting
  BY DEF RequestDone, AllReqs, sdVars
<1>2. /\ IdleBooks' /\ Held' /\ ThreadBooks'
      /\ worker' \in [Workers -> WorkerStates]
      /\ wt_req' \in [Workers -> AllReqs \cup {NoReq, ShutdownReq}]
      /\ req_state' \in [AllReqs -> ReqStates]
      /\ wtrunning_count' = wtrunning_count
  BY <1>1, DoneKeeps
<1>3. ActiveBooks' /\ sd_state' \in [Objs -> SdStates]
  BY <1>1, <1>2, SameActive
<1> QED
  BY <1>1, <1>2, <1>3 DEF PInv, Typed

\* The deletion of the channel.
LEMMA ChannelDeleteKeeps ==
  ASSUME PInv, ChannelDelete
  PROVE  PInv'
<1>1. /\ ChanReq \in AllReqs /\ req_state[ChanReq] = "done"
      /\ req_state' = [req_state EXCEPT ![ChanReq] = "free"] /\ UNCHANGED pool
      /\ SetStopped("channel") /\ visiting' = visiting
  BY DEF ChannelDelete, AllReqs
<1>2. /\ IdleBooks' /\ Held' /\ ThreadBooks'
      /\ worker' \in [Workers -> WorkerStates]
      /\ wt_req' \in [Workers -> AllReqs \cup {NoReq, ShutdownReq}]
      /\ req_state' \in [AllReqs -> ReqStates]
      /\ wtrunning_count' = wtrunning_count
  BY <1>1, DoneKeeps
<1>3. /\ Lists(shutdown_active, Active)' /\ sd_state' \in [Objs -> SdStates]
      /\ \A p \in Objs \ {"channel"} : sd_state'[p] = sd_state[p]
  BY <1>1, SetStoppedKeeps, ReqFacts
<1>4. sd_state'["async"] = sd_state["async"]
  BY <1>3, ReqFacts
<1>5. ActiveBooks'
  BY <1>2, <1>3, <1>4 DEF PInv, ActiveBooks
<1> QED
  BY <1>1, <1>2, <1>3, <1>5 DEF PInv, Typed

\* The creation of the channel.
LEMMA ChannelCreateKeeps ==
  ASSUME PInv, ChannelCreate
  PROVE  PInv'
<1>1. /\ ChanReq \in AllReqs /\ req_state[ChanReq] # "running"
      /\ req_state' = [req_state EXCEPT ![ChanReq] = "running"]
      /\ visiting' = visiting
  BY DEF ChannelCreate, AllReqs, Post, sdRest
<1>2. /\ Held' /\ IdleBooks' /\ ThreadBooks'
      /\ worker' \in [Workers -> WorkerStates]
      /\ wt_req' \in [Workers -> AllReqs \cup {NoReq, ShutdownReq}]
      /\ req_state' \in [AllReqs -> ReqStates]
      /\ wtrunning_count' = IF wtlist = <<>> THEN wtrunning_count + 1 ELSE wtrunning_count
  <2>1. CASE wtlist = <<>>
    <3>1. WorkerThreadAdd(ChanReq)
      BY <2>1 DEF ChannelCreate, Post
    <3> QED
      BY <1>1, <2>1, <3>1, AddKeeps
  <2>2. CASE wtlist # <<>>
    <3>1. GiveToIdle(ChanReq)
      BY <2>2 DEF ChannelCreate, Post
    <3> QED
      BY <1>1, <2>2, <3>1, GiveKeeps
  <2> QED
    BY <2>1, <2>2
<1>3. wtrunning_count \in Nat
  BY DEF PInv, Typed
<1>4. ActiveBooks' /\ sd_state' \in [Objs -> SdStates]
  <2>1. CASE wtlist = <<>> /\ wtrunning_count = 0
    <3>1. /\ sd_state' = [sd_state EXCEPT !["channel"] = "NORMAL", !["async"] = "NORMAL"]
          /\ shutdown_active' = Linked(Linked(shutdown_active, "channel"), "async")
      BY <2>1 DEF ChannelCreate
    <3>2. /\ sd_state' \in [Objs -> SdStates]
          /\ sd_state'["async"] = "NORMAL" /\ sd_state'["channel"] = "NORMAL"
      BY <3>1, ReqFacts DEF PInv, Typed, SdStates
    <3>3. Active' = (Active \cup {"channel"}) \cup {"async"}
      BY <3>2, AsyncReqAssumption DEF Active
    <3>4. sd_state["async"] = "STOPPED"
      BY <2>1 DEF PInv, ActiveBooks
    <3>5. Lists(Linked(shutdown_active, "channel"), Active \cup {"channel"})
      BY LinkedLists, ReqFacts DEF PInv, ActiveBooks, Active
    <3>6. Lists(shutdown_active', (Active \cup {"channel"}) \cup {"async"})
      BY <3>1, <3>4, <3>5, LinkedLists, ReqFacts DEF PInv, Active
    <3> QED
      BY <1>2, <1>3, <2>1, <3>2, <3>3, <3>6 DEF ActiveBooks
  <2>2. CASE ~(wtlist = <<>> /\ wtrunning_count = 0)
    <3>1. SetNormal("channel")
      BY <2>2 DEF ChannelCreate
    <3>2. /\ Lists(shutdown_active, Active)' /\ sd_state' \in [Objs -> SdStates]
          /\ \A p \in Objs \ {"channel"} : sd_state'[p] = sd_state[p]
      BY <3>1, SetNormalKeeps, ReqFacts
    <3>3. sd_state'["async"] = sd_state["async"]
      BY <3>2, ReqFacts
    <3>4. wtrunning_count' = 0 <=> wtrunning_count = 0
      BY <1>2, <1>3, <2>2
    <3> QED
      BY <3>2, <3>3, <3>4 DEF PInv, ActiveBooks
  <2> QED
    BY <2>1, <2>2
<1> QED
  BY <1>1, <1>2, <1>3, <1>4 DEF PInv, Typed

\* trigger_async_shutdown.
LEMMA TriggerAsyncShutdownKeeps ==
  ASSUME PInv, TriggerAsyncShutdown
  PROVE  PInv'
<1>1. /\ worker' = [w \in Workers |-> IF w \in ToSet(wtlist) THEN "busy" ELSE worker[w]]
      /\ wt_req' = [w \in Workers |-> IF w \in ToSet(wtlist) THEN ShutdownReq ELSE wt_req[w]]
      /\ wtlist' = <<>>
      /\ wtrunning_count' = wtrunning_count /\ req_state' = req_state
      /\ sd_state' = sd_state /\ shutdown_active' = shutdown_active /\ visiting' = visiting
  BY DEF TriggerAsyncShutdown, TellIdle, NotifyReturns
<1>2. ToSet(wtlist) = Idle
  BY ListsCount DEF PInv, IdleBooks
<1>3. /\ worker' \in [Workers -> WorkerStates]
      /\ wt_req' \in [Workers -> AllReqs \cup {NoReq, ShutdownReq}]
  BY <1>1 DEF PInv, Typed, WorkerStates
<1>4. ASSUME NEW w \in Workers
      PROVE  /\ worker[w] = "idle" => worker'[w] = "busy" /\ wt_req'[w] = ShutdownReq
             /\ worker[w] # "idle" => worker'[w] = worker[w] /\ wt_req'[w] = wt_req[w]
  BY <1>1, <1>2 DEF Idle
<1>5. Idle' = {} /\ Threads' = Threads
  BY <1>4 DEF Idle, Threads
<1>6. IdleBooks'
  <2>1. Len(<<>>) <= MaxIdle
    BY AsyncReqAssumption, EmptySeq
  <2> QED
    BY <1>1, <1>5, <2>1, ListsEmpty DEF IdleBooks
<1>7. ASSUME NEW w \in Workers, NEW s \in Ending PROVE Holds(w, s)' <=> Holds(w, s)
  <2>1. CASE worker[w] = "idle"
    BY <1>4, <2>1, ReqFacts DEF Holds
  <2>2. CASE worker[w] # "idle"
    BY <1>4, <2>2 DEF Holds
  <2> QED
    BY <2>1, <2>2
<1>8. Held'
  BY <1>1, <1>7 DEF PInv, Held
<1>9. ActiveBooks' /\ sd_state' \in [Objs -> SdStates]
  BY <1>1, SameActive
<1> QED
  BY <1>1, <1>3, <1>5, <1>6, <1>8, <1>9 DEF PInv, Typed, ThreadBooks

\* The steps of the shutdown manager and of the channel that leave the pool
\* and the requests alone.
LEMMA OutsideKeeps ==
  ASSUME PInv, UNCHANGED <<pool, req_state>>,
         \/ NotifyAll \/ NotifyObj \/ ShutdownStart \/ NotifyReturns \/ UNCHANGED sdVars
  PROVE  PInv'
<1>1. /\ IdleBooks' /\ Held' /\ ThreadBooks'
      /\ worker' \in [Workers -> WorkerStates]
      /\ wt_req' \in [Workers -> AllReqs \cup {NoReq, ShutdownReq}]
      /\ req_state' \in [AllReqs -> ReqStates]
      /\ wtrunning_count' = wtrunning_count
  BY SamePool
<1>2. CASE NotifyObj
  <2>1. visiting # <<>> /\ visiting \in Seq(Objs)
    BY <1>2 DEF NotifyObj, PInv, Typed
  <2>2. Head(visiting) \in Objs /\ Tail(visiting) \in Seq(Objs)
    BY <2>1, TailPlaces
  <2>3. visiting' \in Seq(Objs) /\ shutdown_active' = shutdown_active
    BY <1>2, <2>2 DEF NotifyObj
  <2>4. /\ sd_state' \in [Objs -> SdStates]
        /\ \A o \in Objs : sd_state'[o] = "STOPPED" <=> sd_state[o] = "STOPPED"
    BY <1>2, <2>2 DEF NotifyObj, PInv, Typed, SdStates
  <2>5. Active' = Active
    BY <2>4 DEF Active
  <2>6. ActiveBooks'
    BY <1>1, <2>3, <2>4, <2>5, ReqFacts DEF PInv, ActiveBooks
  <2> QED
    BY <1>1, <2>3, <2>4, <2>6 DEF PInv, Typed
<1>3. CASE NotifyAll \/ ShutdownStart \/ NotifyReturns \/ UNCHANGED sdVars
  <2>1. sd_state' = sd_state /\ shutdown_active' = shutdown_active
    BY <1>3 DEF NotifyAll, ShutdownStart, NotifyReturns, sdVars
  <2>2. visiting' = visiting \/ visiting' = shutdown_active
    BY <1>3 DEF NotifyAll, ShutdownStart, NotifyReturns, sdVars
  <2>3. visiting' \in Seq(Objs)
    <3>1. shutdown_active \in Seq(Active)
      BY DEF PInv, ActiveBooks, Lists
    <3>2. \A k \in 1 .. Len(shutdown_active) : shutdown_active[k] \in Objs
      BY <3>1, ElementOfSeq DEF Active
    <3>3. shutdown_active \in Seq(Objs)
      BY <3>1, <3>2, SeqWithin
    <3> QED
      BY <2>2, <3>3 DEF PInv, Typed
  <2>4. ActiveBooks' /\ sd_state' \in [Objs -> SdStates]
    BY <1>1, <2>1, SameActive
  <2> QED
    BY <1>1, <2>3, <2>4 DEF PInv, Typed
<1> QED
  BY <1>2, <1>3

\* The invariant is inductive.
LEMMA NextPInv == PInv /\ [Next]_vars => PInv'
<1> SUFFICES ASSUME PInv, [Next]_vars PROVE PInv'
  OBVIOUS
<1>1. CASE (NotifyAll \/ NotifyObj) /\ UNCHANGED rest
  BY <1>1, OutsideKeeps DEF rest
<1>2. CASE TriggerAsyncShutdown
  BY <1>2, TriggerAsyncShutdownKeeps
<1>3. CASE TriggerChannelShutdown
  BY <1>3, OutsideKeeps DEF TriggerChannelShutdown
<1>4. CASE StartTimer
  BY <1>4, PostKeeps, ReqFacts DEF StartTimer, sdRest
<1>5. CASE ChannelDelete
  BY <1>5, ChannelDeleteKeeps
<1>6. ASSUME NEW w \in Workers, WorkerThreadExit(w) PROVE PInv'
  BY <1>6, WorkerThreadExitKeeps
<1>7. ASSUME NEW r \in Reqs, WorkerThreadAddDeferred(r) PROVE PInv'
  BY <1>7, AddDeferredKeeps
<1>8. ASSUME NEW r \in Reqs, RequestDone(r) PROVE PInv'
  BY <1>8, RequestDoneKeeps
<1>9. ASSUME NEW w \in Workers, WorkerStep(w) PROVE PInv'
  BY <1>9, WorkerFinishesKeeps, WorkerGoesKeeps DEF WorkerStep
<1>10. ASSUME NEW r \in Reqs, PostByService(r) PROVE PInv'
  <2>1. r \in AllReqs /\ Post(r) /\ ActivateAsync(wtlist = <<>>) /\ visiting' = visiting
    BY <1>10 DEF PostByService, AllReqs, sdRest
  <2> QED
    BY <2>1, PostKeeps
<1>11. ASSUME NEW r \in Reqs, PostByThread(r) PROVE PInv'
  BY <1>11, PostByThreadKeeps
<1>12. CASE ChannelCreate
  BY <1>12, ChannelCreateKeeps
<1>13. CASE ChannelClose
  BY <1>13, OutsideKeeps DEF ChannelClose
<1>14. CASE ShutdownStart /\ UNCHANGED rest
  BY <1>14, OutsideKeeps DEF rest
<1>15. CASE UNCHANGED vars
  BY <1>15, OutsideKeeps DEF vars
<1> QED
  BY <1>1, <1>2, <1>3, <1>4, <1>5, <1>6, <1>7, <1>8, <1>9, <1>10, <1>11, <1>12,
     <1>13, <1>14, <1>15 DEF Next, DispatchStep

\* The invariant holds in every state the pool can reach.
THEOREM PoolAlways == Spec => []PInv
<1>1. Init => PInv
  BY InitPInv
<1>2. PInv /\ [Next]_vars => PInv'
  BY NextPInv
<1> QED
  BY <1>1, <1>2, PTL DEF Spec

\* The books of the worker pool (wtlist, wtrunning_count, the requests of the
\* workers) and of the shutdown manager agree with the threads there are,
\* whatever the order in which requests are posted, from which thread, workers
\* finish and exit, and the shutdown starts.
THEOREM PoolBooks == Spec => []PoolExact
<1>1. PInv => PoolExact
  BY PInvIsExact
<1> QED
  BY <1>1, PoolAlways, PTL

-----------------------------------------------------------------------------
(* The input buffer.                                                       *)

(* What the peer sends, byte by byte: where a decoder stands before and    *)
(* after each of the bytes.                                                *)

Words == {"none", "D", "E", "C", "EOM", "EOS", "other"}
ByteT == [b : Nat, s : Words]
Stages == {"plain", "esc", "size", "more1", "more2", "left1", "left2"}

\* A decoder that stands at stage x.
Stage(x, esc, mode, data) ==
  \/ x = "plain" /\ ~esc /\ mode = 0 /\ data = 0
  \/ x = "esc" /\ esc /\ mode = 0 /\ data = 0
  \/ x = "size" /\ ~esc /\ mode = 1 /\ data = 0
  \/ x = "more1" /\ ~esc /\ mode = 2 /\ data = 1
  \/ x = "more2" /\ ~esc /\ mode = 2 /\ data = 2
  \/ x = "left1" /\ ~esc /\ mode = 0 /\ data = 1
  \/ x = "left2" /\ ~esc /\ mode = 0 /\ data = 2

\* The byte w takes a decoder from x to y.
Leads(x, w, y) ==
  \/ x = "plain" /\ w.b = Plain /\ w.s = "D" /\ y = "plain"
  \/ x = "plain" /\ w.b = ESC /\ w.s = "none" /\ y = "esc"
  \/ x = "esc" /\ w.b = 0 /\ w.s = "E" /\ y = "plain"
  \/ x = "esc" /\ w.b = 1 /\ w.s = "EOM" /\ y = "plain"
  \/ x = "esc" /\ w.b = 2 /\ w.s = "EOS" /\ y = "plain"
  \/ x = "esc" /\ w.b = 3 /\ w.s = "none" /\ y = "size"
  \/ x = "size" /\ w.b = 129 /\ w.s = "none" /\ y = "more1"
  \/ x = "size" /\ w.b = 130 /\ w.s = "none" /\ y = "more2"
  \/ x = "more1" /\ w.b = 0 /\ w.s = "none" /\ y = "left1"
  \/ x = "more2" /\ w.b = 0 /\ w.s = "none" /\ y = "left2"
  \/ x = "left2" /\ w.b = ESC /\ w.s = "E" /\ y = "left1"
  \/ x = "left1" /\ w.b = ESC /\ w.s = "E" /\ y = "plain"
  \/ x = "left1" /\ w.b = 1 /\ w.s = "C" /\ y = "plain"

\* S and N: the stage of a decoder, and the number of symbols, after the first i
\* of the bytes T, which say q.
Traced(T, S, N, q) ==
  /\ T \in Seq(ByteT) /\ q \in Seq(Words)
  /\ S \in [0 .. Len(T) -> Stages] /\ N \in [0 .. Len(T) -> Nat]
  /\ N[0] = 0 /\ N[Len(T)] = Len(q)
  /\ \A i \in 1 .. Len(T) : Leads(S[i - 1], T[i], S[i])
  /\ \A i \in 1 .. Len(T) : IsSymbol(T[i]) => N[i] = N[i - 1] + 1 /\ q[N[i]] = T[i].s
  /\ \A i \in 1 .. Len(T) : ~IsSymbol(T[i]) => N[i] = N[i - 1]
  /\ \A i, j \in 0 .. Len(T) : i <= j => N[i] <= N[j]

\* One text after the other.
LEMMA TracedTwice ==
  ASSUME NEW T, NEW S, NEW N, NEW q, Traced(T, S, N, q),
         NEW E, NEW P, NEW C, NEW r, Traced(E, P, C, r), P[0] = S[Len(T)]
  PROVE  \E Z, M : /\ Traced(T \o E, Z, M, q \o r) /\ Z[Len(T \o E)] = P[Len(E)]
                   /\ \A i \in 0 .. Len(T) : Z[i] = S[i] /\ M[i] = N[i]
<1> DEFINE l == Len(T)
           m == Len(E)
           U == T \o E
           w == q \o r
           Z == [i \in 0 .. l + m |-> IF i <= l THEN S[i] ELSE P[i - l]]
           M == [i \in 0 .. l + m |-> IF i <= l THEN N[i] ELSE N[l] + C[i - l]]
<1>1. /\ T \in Seq(ByteT) /\ E \in Seq(ByteT) /\ q \in Seq(Words) /\ r \in Seq(Words)
      /\ S \in [0 .. l -> Stages] /\ P \in [0 .. m -> Stages]
      /\ N \in [0 .. l -> Nat] /\ C \in [0 .. m -> Nat]
      /\ N[0] = 0 /\ C[0] = 0 /\ N[l] = Len(q) /\ C[m] = Len(r)
  BY DEF Traced
<1>2. l \in Nat /\ m \in Nat /\ Len(q) \in Nat /\ Len(r) \in Nat
  BY <1>1, LenProperties
<1>3. /\ U \in Seq(ByteT) /\ Len(U) = l + m
      /\ \A i \in 1 .. l + m : U[i] = IF i <= l THEN T[i] ELSE E[i - l]
  BY <1>1, ConcatProperties
<1>4. /\ w \in Seq(Words) /\ Len(w) = Len(q) + Len(r)
      /\ \A i \in 1 .. Len(q) + Len(r) : w[i] = IF i <= Len(q) THEN q[i] ELSE r[i - Len(q)]
  BY <1>1, ConcatProperties
<1> HIDE DEF l, m, U, w
<1>5. Z \in [0 .. l + m -> Stages] /\ M \in [0 .. l + m -> Nat]
  <2>1. \A i \in 0 .. l + m : i > l => i - l \in 0 .. m
    BY <1>2
  <2>2. \A i \in 0 .. l + m : Z[i] \in Stages
    BY <1>1, <1>2, <2>1
  <2>3. \A i \in 0 .. l + m : M[i] \in Nat
    BY <1>1, <1>2, <2>1
  <2> QED
    BY <2>2, <2>3
<1>6. /\ \A i \in 0 .. l : Z[i] = S[i] /\ M[i] = N[i]
      /\ \A i \in 0 .. m : Z[l + i] = P[i] /\ M[l + i] = N[l] + C[i]
  <2>1. ASSUME NEW i \in 0 .. l PROVE Z[i] = S[i] /\ M[i] = N[i]
    BY <1>2
  <2>2. ASSUME NEW i \in 0 .. m PROVE Z[l + i] = P[i] /\ M[l + i] = N[l] + C[i]
    <3>1. l + i \in 0 .. l + m /\ l + i - l = i
      BY <1>2
    <3>2. CASE i = 0
      <4>1. l + i = l /\ l \in 0 .. l /\ N[l] \in Nat /\ N[l] + 0 = N[l]
        BY <1>1, <1>2, <3>2
      <4>2. P[0] = S[l]
        BY DEF l
      <4> QED
        BY <1>1, <2>1, <3>2, <4>1, <4>2
    <3>3. CASE i # 0
      <4> DEFINE x == l + i
      <4>1. x \in 0 .. l + m /\ ~(x <= l) /\ x - l = i
        BY <1>2, <3>3
      <4> HIDE DEF x
      <4>2. Z[x] = P[x - l] /\ M[x] = N[l] + C[x - l]
        BY <4>1
      <4> QED
        BY <4>1, <4>2 DEF x
    <3> QED
      BY <3>2, <3>3
  <2> QED
    BY <2>1, <2>2
<1> HIDE DEF Z, M
<1>7. ASSUME NEW i \in 1 .. l + m
      PROVE  /\ Leads(Z[i - 1], U[i], Z[i])
             /\ IsSymbol(U[i]) => M[i] = M[i - 1] + 1 /\ w[M[i]] = U[i].s
             /\ ~IsSymbol(U[i]) => M[i] = M[i - 1]
  <2>1. CASE i <= l
    <3>1. i \in 1 .. l /\ i - 1 \in 0 .. l /\ i \in 0 .. l
      BY <1>2, <2>1
    <3>2. Z[i - 1] = S[i - 1] /\ Z[i] = S[i] /\ M[i - 1] = N[i - 1] /\ M[i] = N[i] /\ U[i] = T[i]
      BY <1>3, <1>6, <2>1, <3>1
    <3>3. N[i] \in Nat /\ N[i - 1] \in Nat /\ N[i] <= Len(q)
      <4>1. l \in 0 .. l /\ i <= l /\ \A x, y \in 0 .. l : x <= y => N[x] <= N[y]
        BY <1>2, <2>1 DEF Traced, l
      <4> QED
        BY <1>1, <3>1, <4>1
    <3>4. /\ Leads(S[i - 1], T[i], S[i])
          /\ IsSymbol(T[i]) => N[i] = N[i - 1] + 1 /\ q[N[i]] = T[i].s
          /\ ~IsSymbol(T[i]) => N[i] = N[i - 1]
      BY <3>1 DEF Traced, l
    <3>5. IsSymbol(T[i]) => N[i] \in 1 .. Len(q) + Len(r) /\ w[N[i]] = q[N[i]]
      <4>1. IsSymbol(T[i]) => N[i] \in 1 .. Len(q) + Len(r) /\ N[i] <= Len(q)
        BY <1>2, <3>3, <3>4
      <4> QED
        BY <1>4, <4>1
    <3> QED
      BY <3>2, <3>4, <3>5
  <2>2. CASE i > l
    <3> DEFINE k == i - l
    <3>1. k \in 1 .. m /\ k - 1 \in 0 .. m /\ k \in 0 .. m /\ l + k = i /\ l + (k - 1) = i - 1
      BY <1>2, <2>2
    <3>2. /\ Z[i - 1] = P[k - 1] /\ Z[i] = P[k] /\ M[i - 1] = N[l] + C[k - 1]
          /\ M[i] = N[l] + C[k] /\ U[i] = E[k]
      <4>1. k - 1 \in 0 .. m => Z[l + (k - 1)] = P[k - 1] /\ M[l + (k - 1)] = N[l] + C[k - 1]
        BY <1>6
      <4>2. Z[l + k] = P[k] /\ M[l + k] = N[l] + C[k]
        BY <1>6, <3>1
      <4>3. ~(i <= l)
        BY <1>2, <2>2
      <4> QED
        BY <1>3, <3>1, <4>1, <4>2, <4>3
    <3> HIDE DEF k
    <3>3. C[k] \in Nat /\ C[k - 1] \in Nat /\ C[k] <= Len(r)
      <4>1. m \in 0 .. m /\ k <= m /\ \A x, y \in 0 .. m : x <= y => C[x] <= C[y]
        BY <1>2, <3>1 DEF Traced, m
      <4> QED
        BY <1>1, <3>1, <4>1
    <3>4. /\ Leads(P[k - 1], E[k], P[k])
          /\ IsSymbol(E[k]) => C[k] = C[k - 1] + 1 /\ r[C[k]] = E[k].s
          /\ ~IsSymbol(E[k]) => C[k] = C[k - 1]
      BY <3>1 DEF Traced, m
    <3>5. IsSymbol(E[k]) => w[N[l] + C[k]] = r[C[k]]
      <4>1. SUFFICES ASSUME IsSymbol(E[k]) PROVE w[N[l] + C[k]] = r[C[k]]
        OBVIOUS
      <4>2. C[k] >= 1
        BY <3>3, <3>4, <4>1
      <4>3. /\ Len(q) + C[k] \in 1 .. Len(q) + Len(r) /\ ~(Len(q) + C[k] <= Len(q))
            /\ Len(q) + C[k] - Len(q) = C[k]
        BY <1>2, <3>3, <4>2
      <4> DEFINE x == Len(q) + C[k]
      <4> HIDE DEF x
      <4>4. w[x] = r[x - Len(q)]
        BY <1>4, <4>3 DEF x
      <4>5. N[l] = Len(q) /\ N[l] + C[k] = x /\ x - Len(q) = C[k]
        <5>1. N[l] = Len(q)
          BY <1>1
        <5> QED
          BY <1>2, <3>3, <4>3, <5>1 DEF x
      <4> QED
        BY <4>4, <4>5
    <3>6. N[l] \in Nat
      BY <1>1, <1>2
    <3> QED
      BY <3>2, <3>3, <3>4, <3>5, <3>6
  <2> QED
    BY <1>2, <2>1, <2>2
<1>8. ASSUME NEW i \in 0 .. l + m, NEW j \in 0 .. l + m, i <= j PROVE M[i] <= M[j]
  <2>1. N[l] \in Nat /\ \A x \in 0 .. l : N[x] \in Nat /\ N[x] <= N[l]
    <3>1. l \in 0 .. l /\ \A x, y \in 0 .. l : x <= y => N[x] <= N[y]
      BY <1>2 DEF Traced, l
    <3>2. \A x \in 0 .. l : x <= l
      BY <1>2
    <3> QED
      BY <1>1, <3>1, <3>2
  <2>2. CASE j <= l
    <3>1. i \in 0 .. l /\ j \in 0 .. l
      BY <1>2, <1>8, <2>2
    <3> QED
      BY <1>6, <1>8, <3>1 DEF Traced, l
  <2>3. CASE ~(j <= l)
    <3>1. j - l \in 0 .. m /\ l + (j - l) = j
      BY <1>2, <2>3
    <3>2. M[j] = N[l] + C[j - l] /\ C[j - l] \in Nat
      BY <1>1, <1>6, <3>1
    <3>3. CASE i <= l
      <4>1. i \in 0 .. l
        BY <1>2, <3>3
      <4> QED
        BY <1>6, <2>1, <3>2, <4>1
    <3>4. CASE ~(i <= l)
      <4>1. i - l \in 0 .. m /\ l + (i - l) = i /\ i - l <= j - l
        BY <1>2, <1>8, <3>4
      <4>2. M[i] = N[l] + C[i - l] /\ C[i - l] \in Nat /\ C[i - l] <= C[j - l]
        BY <1>1, <1>6, <3>1, <4>1 DEF Traced, m
      <4> QED
        BY <2>1, <3>2, <4>2
    <3> QED
      BY <3>3, <3>4
  <2> QED
    BY <2>2, <2>3
<1>9. /\ 0 \in 0 .. l /\ m \in 0 .. m /\ M[0] = 0 /\ M[l + m] = Len(q) + Len(r)
      /\ Z[l + m] = P[m]
  <2>1. 0 \in 0 .. l /\ m \in 0 .. m
    BY <1>2
  <2>2. M[0] = N[0] /\ Z[l + m] = P[m] /\ M[l + m] = N[l] + C[m]
    BY <1>6, <2>1
  <2> QED
    BY <1>1, <2>1, <2>2
<1>10. Traced(U, Z, M, w)
  BY <1>3, <1>4, <1>5, <1>7, <1>8, <1>9 DEF Traced
<1> QED
  BY <1>3, <1>6, <1>9, <1>10 DEF U, w, l, m

\* What the peer sends for a symbol takes a decoder from plain to plain.
LEMMA EncTraced ==
  ASSUME NEW s \in DOMAIN Enc
  PROVE  \E P, C : /\ Traced(Enc[s], P, C, Said[s])
                   /\ P[0] = "plain" /\ P[Len(Enc[s])] = "plain"
<1>1. CASE s = "D"
  <2> DEFINE E == << [b |-> Plain, s |-> "D"] >>
             P == [i \in 0 .. 1 |-> "plain"]
             C == [i \in 0 .. 1 |-> i]
  <2>1. Enc[s] = E /\ Said[s] = <<"D">>
    BY <1>1 DEF Enc, Said
  <2>2. E \in Seq(ByteT) /\ Len(E) = 1 /\ <<"D">> \in Seq(Words) /\ Len(<<"D">>) = 1
    <3>1. <<"D">> \in Seq(Words) /\ Len(<<"D">>) = 1
      BY DEF Words
    <3> QED
      BY <3>1 DEF ByteT, Words, Plain
  <2>3. Traced(E, P, C, <<"D">>)
    BY <2>2 DEF Traced, Leads, Stages, IsSymbol
  <2> QED
    BY <2>1, <2>2, <2>3
<1>2. CASE s = "E"
  <2> DEFINE E == << [b |-> ESC, s |-> "none"], [b |-> 0, s |-> "E"] >>
             P == [i \in 0 .. 2 |-> IF i = 1 THEN "esc" ELSE "plain"]
             C == [i \in 0 .. 2 |-> IF i = 2 THEN 1 ELSE 0]
  <2>1. Enc[s] = E /\ Said[s] = <<"E">>
    BY <1>2 DEF Enc, Said
  <2>2. E \in Seq(ByteT) /\ Len(E) = 2 /\ <<"E">> \in Seq(Words) /\ Len(<<"E">>) = 1
    <3>1. <<"E">> \in Seq(Words) /\ Len(<<"E">>) = 1
      BY DEF Words
    <3> QED
      BY <3>1 DEF ByteT, Words, ESC
  <2>3. Traced(E, P, C, <<"E">>)
    BY <2>2 DEF Traced, Leads, Stages, IsSymbol
  <2> QED
    BY <2>1, <2>2, <2>3
<1>3. CASE s = "EOM"
  <2> DEFINE E == << [b |-> ESC, s |-> "none"], [b |-> 1, s |-> "EOM"] >>
             P == [i \in 0 .. 2 |-> IF i = 1 THEN "esc" ELSE "plain"]
             C == [i \in 0 .. 2 |-> IF i = 2 THEN 1 ELSE 0]
  <2>1. Enc[s] = E /\ Said[s] = <<"EOM">>
    BY <1>3 DEF Enc, Said
  <2>2. E \in Seq(ByteT) /\ Len(E) = 2 /\ <<"EOM">> \in Seq(Words) /\ Len(<<"EOM">>) = 1
    <3>1. <<"EOM">> \in Seq(Words) /\ Len(<<"EOM">>) = 1
      BY DEF Words
    <3> QED
      BY <3>1 DEF ByteT, Words, ESC
  <2>3. Traced(E, P, C, <<"EOM">>)
    BY <2>2 DEF Traced, Leads, Stages, IsSymbol
  <2> QED
    BY <2>1, <2>2, <2>3
<1>4. CASE s = "EOS"
  <2> DEFINE E == << [b |-> ESC, s |-> "none"], [b |-> 2, s |-> "EOS"] >>
             P == [i \in 0 .. 2 |-> IF i = 1 THEN "esc" ELSE "plain"]
             C == [i \in 0 .. 2 |-> IF i = 2 THEN 1 ELSE 0]
  <2>1. Enc[s] = E /\ Said[s] = <<"EOS">>
    BY <1>4 DEF Enc, Said
  <2>2. E \in Seq(ByteT) /\ Len(E) = 2 /\ <<"EOS">> \in Seq(Words) /\ Len(<<"EOS">>) = 1
    <3>1. <<"EOS">> \in Seq(Words) /\ Len(<<"EOS">>) = 1
      BY DEF Words
    <3> QED
      BY <3>1 DEF ByteT, Words, ESC
  <2>3. Traced(E, P, C, <<"EOS">>)
    BY <2>2 DEF Traced, Leads, Stages, IsSymbol
  <2> QED
    BY <2>1, <2>2, <2>3
<1>5. CASE s = "B1"
  <2> DEFINE E == << [b |-> ESC, s |-> "none"], [b |-> 3, s |-> "none"],
                     [b |-> 129, s |-> "none"], [b |-> 0, s |-> "none"],
                     [b |-> ESC, s |-> "E"] >>
             P == [i \in 0 .. 5 |-> CASE i = 1 -> "esc" [] i = 2 -> "size" [] i = 3 -> "more1"
                                      [] i = 4 -> "left1" [] OTHER -> "plain"]
             C == [i \in 0 .. 5 |-> IF i = 5 THEN 1 ELSE 0]
  <2>1. Enc[s] = E /\ Said[s] = <<"E">>
    BY <1>5 DEF Enc, Said
  <2>2. E \in Seq(ByteT) /\ Len(E) = 5 /\ <<"E">> \in Seq(Words) /\ Len(<<"E">>) = 1
    <3>1. <<"E">> \in Seq(Words) /\ Len(<<"E">>) = 1
      BY DEF Words
    <3> QED
      BY <3>1 DEF ByteT, Words, ESC
  <2>3. Traced(E, P, C, <<"E">>)
    BY <2>2 DEF Traced, Leads, Stages, IsSymbol
  <2> QED
    BY <2>1, <2>2, <2>3
<1>6. CASE s = "B2"
  <2> DEFINE E == << [b |-> ESC, s |-> "none"], [b |-> 3, s |-> "none"],
                     [b |-> 130, s |-> "none"], [b |-> 0, s |-> "none"],
                     [b |-> ESC, s |-> "E"], [b |-> 1, s |-> "C"] >>
             P == [i \in 0 .. 6 |-> CASE i = 1 -> "esc" [] i = 2 -> "size" [] i = 3 -> "more2"
                                      [] i = 4 -> "left2" [] i = 5 -> "left1" [] OTHER -> "plain"]
             C == [i \in 0 .. 6 |-> CASE i = 5 -> 1 [] i = 6 -> 2 [] OTHER -> 0]
  <2>1. Enc[s] = E /\ Said[s] = <<"E", "C">>
    BY <1>6 DEF Enc, Said
  <2>2. E \in Seq(ByteT) /\ Len(E) = 6 /\ <<"E", "C">> \in Seq(Words) /\ Len(<<"E", "C">>) = 2
    <3>1. <<"E", "C">> \in Seq(Words) /\ Len(<<"E", "C">>) = 2
      BY DEF Words
    <3> QED
      BY <3>1 DEF ByteT, Words, ESC
  <2>3. Traced(E, P, C, <<"E", "C">>)
    BY <2>2 DEF Traced, Leads, Stages, IsSymbol
  <2> QED
    BY <2>1, <2>2, <2>3
<1> QED
  BY <1>1, <1>2, <1>3, <1>4, <1>5, <1>6 DEF Enc

-----------------------------------------------------------------------------
(* Positions in the circular buffer.                                       *)

\* The position of the byte that comes d bytes after c in a buffer of size z.
Where(c, d, z) == IF c + d >= z THEN c + d - z ELSE c + d

\* Positions less than a buffer apart differ.
LEMMA WhereFacts ==
  ASSUME NEW z \in Nat, z > 1, NEW c \in 0 .. z, NEW d \in Nat, d < z
  PROVE  /\ Where(c, d, z) \in 0 .. z - 1 /\ Where(c, 0, z) = Rewind(c, z)
         /\ \A e \in Nat : e < z /\ Where(c, e, z) = Where(c, d, z) => e = d
         /\ Where(Rewind(c, z), d, z) = Where(c, d, z)
  BY DEF Where, Rewind

\* A position is reached in one step or in two.
LEMMA WhereOn ==
  ASSUME NEW z \in Nat, z > 1, NEW c \in 0 .. z, NEW d \in Nat, NEW e \in Nat, d + e < z
  PROVE  Where(Where(c, d, z), e, z) = Where(c, d + e, z)
  BY DEF Where

\* The position after one, before and after it is rewound.
LEMMA WhereNext ==
  ASSUME NEW z \in Nat, z > 1, NEW c \in 0 .. z, NEW d \in Nat, NEW e \in Nat, d + 1 + e < z
  PROVE  /\ Where(Where(c, d, z) + 1, e, z) = Where(c, d + 1 + e, z)
         /\ Where(c, d, z) + 1 = z => Where(0, e, z) = Where(c, d + 1 + e, z)
         /\ Rewind(Where(c, d, z) + 1, z) = Where(c, d + 1, z)
  BY DEF Where, Rewind

\* Bytes before the end of the buffer lie next to each other.
LEMMA WhereRun ==
  ASSUME NEW z \in Nat, z > 1, NEW c \in 0 .. z - 1, NEW d \in Nat, c + d < z
  PROVE  Where(c, d, z) = c + d
  BY DEF Where

\* ibuf_free_size: what is read next fits between the end of the bytes that are
\* there and the end of the buffer, and one place stays free.
LEMMA FreeRoom ==
  ASSUME NEW z \in Nat, z > 1, NEW c \in 0 .. z - 1, NEW d \in Nat, d < z
  PROVE  LET n == FreeSize(c, Where(c, d, z), z)
         IN  /\ n \in Nat /\ Where(c, d, z) + n <= z /\ d + n < z
             /\ n = 0 => d = z - 1
  BY DEF FreeSize, Where

\* The bytes up to Limit are the next ones.
LEMMA LimitFacts ==
  ASSUME NEW z \in Nat, z > 1, NEW c \in 0 .. z, NEW d \in Nat, NEW n \in Nat, d < n, n < z
  PROVE  LET a == Where(c, d, z)
             i == Where(c, n, z)
             l == IF a + 1 <= i THEN i ELSE z
         IN  /\ a # i /\ l \in Nat /\ a < l /\ l <= z /\ l - a <= n - d
             /\ \A e \in Nat : a + e < l => Where(c, d + e, z) = a + e
  BY DEF Where

-----------------------------------------------------------------------------
(* The invariant.  T is all that the peer has sent; k bytes of it have been *)
(* scanned, the decoder of ibuf_get_more stands after f of them, and the    *)
(* stream after o.                                                          *)

\* The bytes after the first o, up to k, are in the buffer b of size z, from c on.
StoredAt(T, o, k, b, z, c, i) ==
  /\ c \in 0 .. z /\ k - o < z /\ i = Where(c, k - o, z)
  /\ \A j \in 1 .. k - o : b[Where(c, j - 1, z)] = T[o + j].b

\* A read of r bytes does not overwrite bytes that are still needed.
RoomFor(o, k, z, i, r) == r > 0 => i + r <= z /\ k - o + r < z

Cursors(T, o, f, k) ==
  o \in Nat /\ f \in Nat /\ k \in Nat /\ o <= f /\ f <= k /\ k <= Len(T)

OnWire(T, k) ==
  /\ wire \in Seq(ByteT) /\ Len(wire) = Len(T) - k
  /\ \A i \in 1 .. Len(wire) : wire[i] = T[k + i]

Decoders(S, f, k) ==
  /\ Stage(S[k], inp_esc, inp_size_mode, inp_data_size)
  /\ Stage(S[f], out_esc, out_size_mode, out_data_size)

Counted(N, o, k) == scanned = N[k] /\ Len(received) = N[o]

Stored(T, o, k) ==
  StoredAt(T, o, k, buf, buf_size, cur, inp) /\ RoomFor(o, k, buf_size, inp, read_size)

\* Between calls the bytes up to end can be read as they are; in a call out has
\* passed bytes that complete no symbol; a handler waits when all is read.
Reading(T, N, o, f, k) ==
  /\ call = "none" => /\ cur < end => end <= buf_size /\ f = o + (end - cur)
                      /\ ~(cur < end) => f = o
                      /\ \A i \in o + 1 .. f : IsSymbol(T[i]) /\ T[i].s = DataSymbol(T[i].b)
  /\ InGetMore => /\ N[f] = N[o] /\ out \in 0 .. buf_size
                  /\ at = Where(cur, f - o, buf_size)
  /\ Waiting \/ call = "eos" => f = o /\ o = k

Positions(T, S, N, o, f, k) ==
  /\ Traced(T, S, N, sent) /\ S[Len(T)] = "plain"
  /\ Cursors(T, o, f, k) /\ OnWire(T, k) /\ Decoders(S, f, k) /\ Counted(N, o, k)
  /\ Stored(T, o, k) /\ Reading(T, N, o, f, k)

IbufTypes ==
  /\ buf_size \in Nat /\ buf_size > 1 /\ DOMAIN buf = 0 .. buf_size - 1
  /\ end \in Int /\ read_size \in Nat
  /\ eof \in BOOLEAN /\ long_msg \in BOOLEAN
  /\ inp_esc \in BOOLEAN /\ out_esc \in BOOLEAN /\ assert_failed \in BOOLEAN
  /\ handling_msg \in {"Idle", "Triggered", "Active"}
  /\ call \in {"none", "read", "peek", "read_wait", "peek_wait", "eos"}

\* message_count, for a state that is not closed.
Ready(P) == IF P THEN 1 ELSE 0
Messages ==
  /\ message_count \in Nat
  /\ message_count = Cardinality(Unhandled) + Ready(eof) + Ready(long_msg)
  /\ message_count > 0 <=> handling_msg # "Idle"
  /\ call # "none" => handling_msg = "Active"
  /\ Waiting => long_msg /\ message_count = 1 /\ read_size > 0 /\ ~eof
  /\ eof => read_size = 0
  /\ long_msg => message_count = 1 + Ready(eof)
  /\ LongMessageIsLast

\* What the handler got.
Got ==
  /\ received \in Seq(Words) /\ sent \in Seq(Words) /\ Len(received) <= Len(sent)
  /\ \A j \in 1 .. Len(received) : received[j] = sent[j]

Open == IbufTypes /\ Messages /\ \E T, S, N, o, f, k : Positions(T, S, N, o, f, k)

IbufInv ==
  /\ Got
  /\ closed \in BOOLEAN
  /\ closed => call \in {"none", "eos"}
  /\ ~closed => Open

-----------------------------------------------------------------------------
\* The stream moves on by d bytes, to g.
LEMMA StoredOn ==
  ASSUME NEW T, NEW o \in Nat, NEW k \in Nat, NEW b, NEW z \in Nat, z > 1, NEW c, NEW i,
         StoredAt(T, o, k, b, z, c, i), NEW d \in Nat, o + d <= k, NEW g \in 0 .. z,
         \A e \in Nat : d + e < z => Where(g, e, z) = Where(c, d + e, z)
  PROVE  StoredAt(T, o + d, k, b, z, g, i)
<1>1. k - (o + d) \in Nat /\ k - (o + d) < z /\ d + (k - (o + d)) = k - o /\ k - o < z
  BY DEF StoredAt
<1>2. i = Where(g, k - (o + d), z)
  BY <1>1 DEF StoredAt
<1>3. ASSUME NEW j \in 1 .. k - (o + d) PROVE b[Where(g, j - 1, z)] = T[o + d + j].b
  <2>1. /\ j - 1 \in Nat /\ d + (j - 1) < z /\ d + j \in 1 .. k - o /\ d + j - 1 = d + (j - 1)
        /\ o + (d + j) = o + d + j
    BY <1>1
  <2>2. b[Where(c, (d + j) - 1, z)] = T[o + (d + j)].b
    BY <2>1 DEF StoredAt
  <2>3. Where(g, j - 1, z) = Where(c, (d + j) - 1, z)
    BY <2>1
  <2> QED
    BY <2>1, <2>2, <2>3
<1> QED
  BY <1>1, <1>2, <1>3 DEF StoredAt

\* A read that is asked for, now or before, has its room.
LEMMA RoomTriggered ==
  ASSUME NEW T, NEW o \in Nat, NEW h \in Nat, NEW k \in Nat, NEW b, NEW z \in Nat, z > 1,
         NEW c, NEW i, StoredAt(T, o, k, b, z, c, i), NEW r \in Nat, RoomFor(h, k, z, i, r),
         h <= o, o <= k, NEW e \in BOOLEAN, e \/ c # z
  PROVE  LET n == TriggerRead(c, i, z, e, r)
         IN  /\ n \in Nat /\ RoomFor(o, k, z, i, n)
             /\ e => n = r
             /\ r > 0 => n > 0
             /\ ~e /\ o = k => n > 0
<1> DEFINE d == k - o
           n == TriggerRead(c, i, z, e, r)
<1>1. d \in Nat /\ d < z /\ i = Where(c, d, z) /\ c \in 0 .. z
  BY DEF StoredAt
<1>2. RoomFor(o, k, z, i, r)
  BY DEF RoomFor
<1>3. CASE e \/ r # 0
  BY <1>2, <1>3 DEF TriggerRead
<1>4. CASE ~e /\ r = 0
  <2>1. c \in 0 .. z - 1 /\ n = FreeSize(c, i, z)
    BY <1>1, <1>4 DEF TriggerRead
  <2>2. n \in Nat /\ i + n <= z /\ d + n < z /\ (n = 0 => d = z - 1)
    BY <1>1, <2>1, FreeRoom
  <2>3. o = k => d # z - 1
    BY <1>1
  <2> QED
    BY <1>4, <2>2, <2>3 DEF RoomFor
<1> QED
  BY <1>3, <1>4

\* The messages that end with one of the symbols after the first a, up to b.
Eoms(q, a, b) == {j \in a + 1 .. b : q[j] = "EOM"}

\* These messages can be counted.
LEMMA EomsFinite ==
  ASSUME NEW q, NEW a \in Nat, NEW b \in Nat
  PROVE  IsFiniteSet(Eoms(q, a, b)) /\ Cardinality(Eoms(q, a, b)) \in Nat
<1>1. IsFiniteSet(a + 1 .. b)
  BY FS_Interval
<1>2. IsFiniteSet(Eoms(q, a, b))
  BY <1>1, FS_Subset DEF Eoms
<1> QED
  BY <1>2, FS_CardinalityType

\* One symbol more has arrived.
LEMMA EomsMore ==
  ASSUME NEW q, NEW a \in Nat, NEW b \in Nat, a <= b
  PROVE  Cardinality(Eoms(q, a, b + 1)) = Cardinality(Eoms(q, a, b)) + Ready(q[b + 1] = "EOM")
<1>1. IsFiniteSet(Eoms(q, a, b)) /\ Cardinality(Eoms(q, a, b)) \in Nat
  BY EomsFinite
<1>2. b + 1 \notin Eoms(q, a, b) /\ b + 1 \in a + 1 .. b + 1
  BY DEF Eoms
<1>3. \A j : j \in a + 1 .. b + 1 <=> j \in a + 1 .. b \/ j = b + 1
  OBVIOUS
<1>4. CASE q[b + 1] = "EOM"
  <2>1. Eoms(q, a, b + 1) = Eoms(q, a, b) \cup {b + 1}
    BY <1>3, <1>4 DEF Eoms
  <2> QED
    BY <1>1, <1>2, <1>4, <2>1, FS_AddElement DEF Ready
<1>5. CASE q[b + 1] # "EOM"
  <2>1. Eoms(q, a, b + 1) = Eoms(q, a, b)
    BY <1>3, <1>5 DEF Eoms
  <2> QED
    BY <1>1, <1>5, <2>1 DEF Ready
<1> QED
  BY <1>4, <1>5

\* One symbol more has been read.
LEMMA EomsLess ==
  ASSUME NEW q, NEW a \in Nat, NEW b \in Nat, a < b
  PROVE  Cardinality(Eoms(q, a + 1, b)) = Cardinality(Eoms(q, a, b)) - Ready(q[a + 1] = "EOM")
<1>1. IsFiniteSet(Eoms(q, a + 1, b)) /\ Cardinality(Eoms(q, a + 1, b)) \in Nat
  BY EomsFinite
<1>2. a + 1 \notin Eoms(q, a + 1, b)
  BY DEF Eoms
<1>3. \A j : j \in a + 1 .. b <=> j \in a + 1 + 1 .. b \/ j = a + 1
  OBVIOUS
<1>4. CASE q[a + 1] = "EOM"
  <2>1. Eoms(q, a, b) = Eoms(q, a + 1, b) \cup {a + 1}
    BY <1>3, <1>4 DEF Eoms
  <2> QED
    BY <1>1, <1>2, <1>4, <2>1, FS_AddElement DEF Ready
<1>5. CASE q[a + 1] # "EOM"
  <2>1. Eoms(q, a, b) = Eoms(q, a + 1, b)
    BY <1>3, <1>5 DEF Eoms
  <2> QED
    BY <1>1, <1>5, <2>1 DEF Ready
<1> QED
  BY <1>4, <1>5

\* The counts of symbols along the text.
LEMMA CountsOrdered ==
  ASSUME NEW T, NEW S, NEW N, NEW q, Traced(T, S, N, q), NEW i \in Nat, NEW j \in Nat,
         i <= j, j <= Len(T)
  PROVE  N[i] \in Nat /\ N[j] \in Nat /\ N[i] <= N[j] /\ N[j] <= Len(q) /\ Len(q) \in Nat
<1>1. Len(T) \in Nat /\ T \in Seq(ByteT)
  BY LenProperties DEF Traced
<1>2. i \in 0 .. Len(T) /\ j \in 0 .. Len(T) /\ Len(T) \in 0 .. Len(T) /\ j <= Len(T)
  BY <1>1
<1>3. N[i] \in Nat /\ N[j] \in Nat /\ N[Len(T)] \in Nat /\ N[Len(T)] = Len(q)
  BY <1>2 DEF Traced
<1>4. N[i] <= N[j] /\ N[j] <= N[Len(T)]
  BY <1>2 DEF Traced
<1> QED
  BY <1>3, <1>4

\* The next byte of the text.
LEMMA NextByte ==
  ASSUME NEW T, NEW S, NEW N, NEW q, Traced(T, S, N, q), NEW i \in Nat, i < Len(T)
  PROVE  /\ Leads(S[i], T[i + 1], S[i + 1]) /\ T[i + 1] \in ByteT
         /\ IsSymbol(T[i + 1]) => N[i + 1] = N[i] + 1 /\ q[N[i] + 1] = T[i + 1].s
         /\ ~IsSymbol(T[i + 1]) => N[i + 1] = N[i]
<1>1. Len(T) \in Nat /\ T \in Seq(ByteT)
  BY LenProperties DEF Traced
<1> DEFINE j == i + 1
<1>2. j \in 1 .. Len(T) /\ j - 1 = i
  BY <1>1
<1> HIDE DEF j
<1>3. T[j] \in ByteT
  BY <1>1, <1>2, ElementOfSeq
<1>4. /\ Leads(S[j - 1], T[j], S[j])
      /\ IsSymbol(T[j]) => N[j] = N[j - 1] + 1 /\ q[N[j]] = T[j].s
      /\ ~IsSymbol(T[j]) => N[j] = N[j - 1]
  BY <1>2 DEF Traced
<1> QED
  BY <1>2, <1>3, <1>4 DEF j

\* The handler gets the next symbol.
LEMMA Delivers ==
  ASSUME NEW T, NEW S, NEW N, NEW o, NEW f, NEW k, Got, Traced(T, S, N, sent),
         Cursors(T, o, f, k), Counted(N, o, k), f < k, N[f] = N[o], IsSymbol(T[f + 1]),
         received' = Append(received, T[f + 1].s), UNCHANGED <<sent, scanned>>
  PROVE  /\ Got' /\ Counted(N, f + 1, k)' /\ Cardinality(Unhandled) \in Nat
         /\ Cardinality(Unhandled') = Cardinality(Unhandled) - Ready(T[f + 1].s = "EOM")
<1> DEFINE w == T[f + 1]
           a == Len(received)
<1>1. f \in Nat /\ f + 1 \in Nat /\ k \in Nat /\ Len(T) \in Nat /\ f < Len(T) /\ f + 1 <= k
      /\ k <= Len(T)
  <2>1. Len(T) \in Nat
    BY LenProperties DEF Traced
  <2> QED
    BY <2>1 DEF Cursors
<1>2. w \in ByteT /\ N[f + 1] = N[f] + 1 /\ sent[N[f] + 1] = w.s
  BY <1>1, NextByte
<1>3. /\ N[f] \in Nat /\ N[f + 1] \in Nat /\ N[k] \in Nat /\ N[f + 1] <= N[k]
      /\ N[f + 1] <= Len(sent) /\ Len(sent) \in Nat
  BY <1>1, CountsOrdered
<1>4. a = N[f] /\ scanned = N[k]
  BY DEF Counted
<1>5. w.s \in Words /\ received \in Seq(Words) /\ a \in Nat /\ sent \in Seq(Words)
  BY <1>2, LenProperties DEF ByteT, Got
<1>6. /\ received' \in Seq(Words) /\ Len(received') = a + 1
      /\ \A j \in 1 .. a : received'[j] = received[j]
      /\ received'[a + 1] = w.s
  <2> HIDE DEF w
  <2> QED
    BY <1>5, AppendProperties DEF w
<1> HIDE DEF w, a
<1>7. Counted(N, f + 1, k)'
  BY <1>2, <1>4, <1>6 DEF Counted
<1>8. Got'
  <2>1. ASSUME NEW j \in 1 .. a + 1 PROVE received'[j] = sent[j]
    <3>1. CASE j = a + 1
      BY <1>2, <1>4, <1>6, <3>1
    <3>2. CASE j # a + 1
      <4>1. j \in 1 .. a
        BY <1>5, <3>2
      <4> QED
        BY <1>6, <4>1 DEF Got, a
    <3> QED
      BY <3>1, <3>2
  <2> QED
    BY <1>2, <1>3, <1>4, <1>5, <1>6, <2>1 DEF Got
<1>9. Unhandled = Eoms(sent, a, scanned) /\ Unhandled' = Eoms(sent, a + 1, scanned)
  BY <1>6 DEF Unhandled, Eoms, a
<1>10. a < scanned /\ scanned \in Nat
  BY <1>2, <1>3, <1>4
<1>11. Cardinality(Eoms(sent, a + 1, scanned)) = Cardinality(Eoms(sent, a, scanned)) - Ready(sent[a + 1] = "EOM")
  BY <1>5, <1>10, EomsLess
<1>12. Cardinality(Unhandled) \in Nat
  BY <1>5, <1>9, <1>10, EomsFinite
<1> QED
  BY <1>2, <1>4, <1>7, <1>8, <1>9, <1>11, <1>12 DEF w

-----------------------------------------------------------------------------
(* The handler.                                                            *)

\* In a call, the byte at which ibuf_get_more looks is the next one of the text.
LEMMA AtFacts ==
  ASSUME NEW T, NEW S, NEW N, NEW o, NEW f, NEW k, IbufTypes, Positions(T, S, N, o, f, k),
         InGetMore
  PROVE  /\ at \in 0 .. buf_size - 1 /\ at = Where(cur, f - o, buf_size) /\ N[f] = N[o]
         /\ f - o \in Nat /\ k - o \in Nat /\ k - o < buf_size /\ cur \in 0 .. buf_size
         /\ at = inp => f = k
         /\ at # inp => f < k
         /\ f < k => /\ buf[at] = T[f + 1].b /\ Leads(S[f], T[f + 1], S[f + 1])
                     /\ T[f + 1] \in ByteT /\ f + 1 \in Nat
<1> DEFINE z == buf_size
           d == f - o
           n == k - o
<1>1. /\ z \in Nat /\ z > 1 /\ cur \in 0 .. z /\ d \in Nat /\ n \in Nat /\ d <= n /\ n < z
      /\ inp = Where(cur, n, z) /\ at = Where(cur, d, z) /\ N[f] = N[o]
      /\ o \in Nat /\ f \in Nat /\ k \in Nat /\ k <= Len(T)
      /\ \A j \in 1 .. n : buf[Where(cur, j - 1, z)] = T[o + j].b
  <2>1. Cursors(T, o, f, k) /\ Stored(T, o, k) /\ Reading(T, N, o, f, k)
    BY DEF Positions
  <2>2. StoredAt(T, o, k, buf, buf_size, cur, inp) /\ buf_size \in Nat /\ buf_size > 1
    BY <2>1 DEF Stored, IbufTypes
  <2>3. N[f] = N[o] /\ at = Where(cur, f - o, buf_size)
    BY <2>1 DEF Reading
  <2>4. o \in Nat /\ f \in Nat /\ k \in Nat /\ o <= f /\ f <= k /\ k <= Len(T)
    BY <2>1 DEF Cursors
  <2>5. d \in Nat /\ n \in Nat /\ d <= n
    BY <2>4
  <2> QED
    BY <2>2, <2>3, <2>4, <2>5 DEF StoredAt
<1>2. d < z /\ (d = n <=> f = k)
  BY <1>1
<1> HIDE DEF at
<1>3. at \in 0 .. z - 1 /\ (at = inp => d = n)
  BY <1>1, <1>2, WhereFacts
<1>4. ASSUME f < k
      PROVE  /\ buf[at] = T[f + 1].b /\ Leads(S[f], T[f + 1], S[f + 1])
             /\ T[f + 1] \in ByteT /\ f + 1 \in Nat
  <2>1. d + 1 \in 1 .. n /\ (d + 1) - 1 = d /\ o + (d + 1) = f + 1
    BY <1>1, <1>4
  <2>2. buf[Where(cur, (d + 1) - 1, z)] = T[o + (d + 1)].b
    BY <1>1, <2>1
  <2>3. f < Len(T)
    <3>1. Len(T) \in Nat
      BY LenProperties DEF Positions, Traced
    <3> QED
      BY <1>1, <1>4, <3>1
  <2>4. Leads(S[f], T[f + 1], S[f + 1]) /\ T[f + 1] \in ByteT
    BY <1>1, <2>3, NextByte DEF Positions
  <2>5. buf[at] = T[f + 1].b
    BY <1>1, <2>1, <2>2
  <2> QED
    BY <1>1, <2>4, <2>5
<1>5. at = inp => f = k
  BY <1>2, <1>3
<1>6. at # inp => f < k
  <2>1. f = k => d = n
    BY <1>1
  <2>2. d = n => at = inp
    BY <1>1
  <2> QED
    BY <1>1, <2>1, <2>2
<1> QED
  BY <1>1, <1>3, <1>4, <1>5, <1>6

\* A byte that completes no symbol is passed.
LEMMA Skips ==
  ASSUME NEW T, NEW S, NEW N, NEW o, NEW f, NEW k, IbufInv, ~closed, InGetMore,
         Positions(T, S, N, o, f, k), f < k, ~IsSymbol(T[f + 1]), out' = at + 1,
         Stage(S[f + 1], out_esc, out_size_mode, out_data_size)', out_esc' \in BOOLEAN,
         UNCHANGED <<store, stream, scan, messages, read_size, call, closed, peer, scanned,
                     received>>
  PROVE  IbufInv'
<1>1. IbufTypes /\ Messages /\ Got
  BY DEF IbufInv, Open
<1>2. /\ at \in 0 .. buf_size - 1 /\ at = Where(cur, f - o, buf_size) /\ N[f] = N[o]
      /\ f - o \in Nat /\ k - o \in Nat /\ k - o < buf_size /\ cur \in 0 .. buf_size
  BY <1>1, AtFacts
<1>3. /\ buf_size \in Nat /\ buf_size > 1 /\ o \in Nat /\ f \in Nat /\ k \in Nat /\ o <= f
      /\ k <= Len(T) /\ Len(T) \in Nat
  BY <1>1, LenProperties DEF IbufTypes, Positions, Cursors, Traced
<1>4. N[f + 1] = N[o]
  <2>1. f \in Nat /\ f < Len(T) /\ N[f] = N[o]
    BY <1>2, <1>3
  <2>2. Traced(T, S, N, sent)
    BY DEF Positions
  <2>3. N[f + 1] = N[f]
    BY <2>1, <2>2, NextByte
  <2> QED
    BY <2>1, <2>3
<1>5. out' \in 0 .. buf_size /\ Rewind(out', buf_size) = Where(cur, (f + 1) - o, buf_size)
  <2> DEFINE d == f - o
  <2>1. d \in Nat /\ d + 1 + 0 < buf_size /\ d + 1 = (f + 1) - o /\ 0 \in Nat
    BY <1>2, <1>3
  <2> HIDE DEF d
  <2>2. Rewind(Where(cur, d, buf_size) + 1, buf_size) = Where(cur, d + 1, buf_size)
    <3>1. cur \in 0 .. buf_size /\ buf_size \in Nat /\ buf_size > 1
      BY <1>2, <1>3
    <3> QED
      BY <2>1, <3>1, WhereNext
  <2>3. out' = Where(cur, d, buf_size) + 1
    BY <1>2 DEF d
  <2>4. Rewind(out', buf_size) = Where(cur, (f + 1) - o, buf_size)
    BY <2>1, <2>2, <2>3
  <2>5. out' \in 0 .. buf_size
    <3>1. at \in 0 .. buf_size - 1 /\ buf_size \in Nat /\ out' = at + 1
      BY <1>2, <1>3
    <3> HIDE DEF at
    <3> QED
      BY <3>1
  <2> QED
    BY <2>4, <2>5
<1>6. Reading(T, N, o, f + 1, k)'
  BY <1>4, <1>5 DEF Reading, InGetMore, Waiting, at, store, stream
<1>7. Positions(T, S, N, o, f + 1, k)'
  <2>1. Cursors(T, o, f + 1, k)
    BY <1>3 DEF Cursors
  <2>2. Decoders(S, f + 1, k)'
    BY DEF Positions, Decoders, scan
  <2> QED
    BY <1>6, <2>1, <2>2 DEF Positions, Cursors, OnWire, Counted, Stored, StoredAt, RoomFor,
                             store, stream, peer
<1>8. Messages' /\ IbufTypes' /\ Got'
  BY <1>1 DEF Messages, IbufTypes, Got, Waiting, Unhandled, store, stream, scan,
                     messages, peer, LongMessageIsLast, Ready
<1> QED
  BY <1>7, <1>8 DEF IbufInv, Open

\* ibuf_get_more takes a byte of the size of a binary block.
LEMMA GetMoreSizeKeeps ==
  ASSUME IbufInv, GetMoreSize
  PROVE  IbufInv'
<1>1. ~closed /\ InGetMore /\ at # inp /\ Open /\ IbufTypes
  BY DEF IbufInv, Open, GetMoreSize, InGetMore
<1>2. PICK T, S, N, o, f, k : Positions(T, S, N, o, f, k)
  BY <1>1 DEF Open
<1>3. f < k /\ buf[at] = T[f + 1].b /\ Leads(S[f], T[f + 1], S[f + 1])
  BY <1>1, <1>2, AtFacts
<1>4. Stage(S[f], out_esc, out_size_mode, out_data_size)
  BY <1>2 DEF Positions, Decoders
<1> DEFINE b == buf[at]
           x == S[f]
           y == S[f + 1]
           w == T[f + 1]
<1>5. /\ out_size_mode > 0 /\ out_esc' = out_esc /\ out' = at + 1
      /\ out_data_size' = out_data_size + (b % 128) * 128^(out_size_mode - 1)
      /\ out_size_mode' = IF b >= 128 THEN out_size_mode + 1 ELSE 0
      /\ UNCHANGED <<store, stream, scan, messages, read_size, call, closed, peer, scanned,
                     received>>
  BY DEF GetMoreSize
<1> HIDE DEF b, x, y, w
<1>6. b = w.b /\ Leads(x, w, y) /\ Stage(x, out_esc, out_size_mode, out_data_size)
  BY <1>3, <1>4 DEF b, x, y, w
<1>7. Stage(y, out_esc', out_size_mode', out_data_size') /\ ~IsSymbol(w) /\ ~out_esc
  <2>1. CASE x = "size"
    <3>1. ~out_esc /\ out_size_mode = 1 /\ out_data_size = 0
      BY <1>6, <2>1 DEF Stage
    <3>2. 128^(1 - 1) = 1 /\ 129 % 128 = 1 /\ 130 % 128 = 2 /\ 129 >= 128 /\ 130 >= 128
      BY SMT
    <3>3. \/ w.b = 129 /\ y = "more1" /\ w.s = "none"
          \/ w.b = 130 /\ y = "more2" /\ w.s = "none"
      BY <1>6, <2>1 DEF Leads
    <3>4. out_size_mode' = 2 /\ out_data_size' = IF w.b = 129 THEN 1 ELSE 2
      BY <1>5, <1>6, <3>1, <3>2, <3>3
    <3> QED
      BY <1>5, <3>1, <3>3, <3>4 DEF Stage, IsSymbol
  <2>2. CASE x = "more1" \/ x = "more2"
    <3>1. /\ ~out_esc /\ out_size_mode = 2 /\ out_data_size = IF x = "more1" THEN 1 ELSE 2
      BY <1>6, <2>2 DEF Stage
    <3>2. 128^(2 - 1) = 128 /\ 0 % 128 = 0 /\ ~(0 >= 128)
      BY SMT
    <3>3. w.b = 0 /\ w.s = "none" /\ y = IF x = "more1" THEN "left1" ELSE "left2"
      BY <1>6, <2>2 DEF Leads
    <3>4. out_size_mode' = 0 /\ out_data_size' = out_data_size
      BY <1>5, <1>6, <3>1, <3>2, <3>3
    <3> QED
      BY <1>5, <2>2, <3>1, <3>3, <3>4 DEF Stage, IsSymbol
  <2>3. x \in {"size", "more1", "more2"}
    BY <1>5, <1>6 DEF Stage
  <2> QED
    BY <2>1, <2>2, <2>3
<1>8. out_esc' \in BOOLEAN
  BY <1>1, <1>5 DEF IbufTypes
<1> QED
  BY <1>1, <1>2, <1>3, <1>5, <1>7, <1>8, Skips DEF w, y

\* ibuf_get_more takes an escape; the code follows.
LEMMA GetMoreEscKeeps ==
  ASSUME IbufInv, GetMoreEsc
  PROVE  IbufInv'
<1>1. ~closed /\ InGetMore /\ at # inp /\ Open /\ IbufTypes
  BY DEF IbufInv, Open, GetMoreEsc, InGetMore
<1>2. PICK T, S, N, o, f, k : Positions(T, S, N, o, f, k)
  BY <1>1 DEF Open
<1>3. f < k /\ buf[at] = T[f + 1].b /\ Leads(S[f], T[f + 1], S[f + 1])
  BY <1>1, <1>2, AtFacts
<1>4. Stage(S[f], out_esc, out_size_mode, out_data_size)
  BY <1>2 DEF Positions, Decoders
<1>5. /\ NoBlock /\ ~out_esc /\ buf[at] = ESC /\ out_esc' = TRUE /\ out' = at + 1
      /\ out_size_mode' = out_size_mode /\ out_data_size' = out_data_size
      /\ UNCHANGED <<store, stream, scan, messages, read_size, call, closed, peer, scanned,
                     received>>
  BY DEF GetMoreEsc
<1>6. S[f] = "plain"
  BY <1>4, <1>5 DEF Stage, NoBlock
<1>7. ~IsSymbol(T[f + 1]) /\ S[f + 1] = "esc"
  BY <1>3, <1>5, <1>6 DEF Leads, IsSymbol, ESC, Plain
<1>8. Stage(S[f + 1], out_esc, out_size_mode, out_data_size)'
  BY <1>5, <1>7 DEF Stage, NoBlock
<1> QED
  BY <1>1, <1>2, <1>3, <1>5, <1>7, <1>8, Skips

\* ibuf_get_more takes the code that starts a binary block.
LEMMA GetMoreBlockStartKeeps ==
  ASSUME IbufInv, GetMoreBlockStart
  PROVE  IbufInv'
<1>1. ~closed /\ InGetMore /\ at # inp /\ Open /\ IbufTypes
  BY DEF IbufInv, Open, GetMoreBlockStart, InGetMore
<1>2. PICK T, S, N, o, f, k : Positions(T, S, N, o, f, k)
  BY <1>1 DEF Open
<1>3. f < k /\ buf[at] = T[f + 1].b /\ Leads(S[f], T[f + 1], S[f + 1])
  BY <1>1, <1>2, AtFacts
<1>4. Stage(S[f], out_esc, out_size_mode, out_data_size)
  BY <1>2 DEF Positions, Decoders
<1>5. /\ out_esc /\ buf[at] = 3 /\ out_esc' = FALSE /\ out' = at + 1
      /\ out_size_mode' = 1 /\ out_data_size' = 0
      /\ UNCHANGED <<store, stream, scan, messages, read_size, call, closed, peer, scanned,
                     received>>
  BY DEF GetMoreBlockStart
<1>6. S[f] = "esc"
  BY <1>4, <1>5 DEF Stage
<1>7. ~IsSymbol(T[f + 1]) /\ S[f + 1] = "size"
  BY <1>3, <1>5, <1>6 DEF Leads, IsSymbol
<1>8. Stage(S[f + 1], out_esc, out_size_mode, out_data_size)'
  BY <1>5, <1>7 DEF Stage
<1> QED
  BY <1>1, <1>2, <1>3, <1>5, <1>7, <1>8, Skips

\* read_stream or peek_stream finds no run to take from and calls ibuf_get_more.
LEMMA CallGetMoreKeeps ==
  ASSUME IbufInv, NEW c \in {"read", "peek"}, CallGetMore(c)
  PROVE  IbufInv'
<1>1. /\ ~closed /\ call = "none" /\ handling_msg = "Active" /\ ~(cur < end)
      /\ call' = c /\ out' = cur
      /\ UNCHANGED <<store, stream, scan, decode, messages, read_size, closed, peer,
                     scanned, received>>
  BY DEF CallGetMore, InMessage
<1>2. Open /\ IbufTypes /\ Messages /\ Got
  BY <1>1 DEF IbufInv, Open
<1>3. PICK T, S, N, o, f, k : Positions(T, S, N, o, f, k)
  BY <1>2 DEF Open
<1>4. f = o /\ o \in Nat /\ cur \in 0 .. buf_size /\ buf_size \in Nat /\ buf_size > 1
  BY <1>1, <1>2, <1>3 DEF Positions, Reading, Cursors, Stored, StoredAt, IbufTypes
<1>5. Rewind(cur, buf_size) = Where(cur, o - o, buf_size)
  <2>1. o - o = 0 /\ 0 \in Nat /\ 0 < buf_size
    BY <1>4
  <2> QED
    BY <1>4, <2>1, WhereFacts
<1>6. Reading(T, N, o, f, k)'
  BY <1>1, <1>4, <1>5 DEF Reading, InGetMore, Waiting, at, store, stream
<1>7. Positions(T, S, N, o, f, k)'
  BY <1>1, <1>3, <1>6 DEF Positions, Cursors, OnWire, Decoders, Counted, Stored, StoredAt,
                          RoomFor, store, stream, peer, scan, decode
<1>8. Messages' /\ IbufTypes' /\ Got'
  BY <1>1, <1>2 DEF Messages, IbufTypes, Got, Waiting, Unhandled, store, stream, scan,
                     messages, peer, decode, LongMessageIsLast, Ready
<1> QED
  BY <1>1, <1>7, <1>8 DEF IbufInv, Open

\* read_stream hands out the bytes that need no decoding.
LEMMA ReadDirectKeeps ==
  ASSUME IbufInv, ReadDirect
  PROVE  IbufInv'
<1>1. /\ ~closed /\ call = "none" /\ handling_msg = "Active" /\ cur < end /\ cur' = cur + 1
      /\ received' = Append(received, DataSymbol(buf[cur]))
      /\ UNCHANGED <<store, end, scan, decode, messages, read_size, call, out, closed, peer,
                     scanned>>
  BY DEF ReadDirect, InMessage, Deliver
<1>2. Open /\ IbufTypes /\ Messages /\ Got
  BY <1>1 DEF IbufInv, Open
<1>3. PICK T, S, N, o, f, k : Positions(T, S, N, o, f, k)
  BY <1>2 DEF Open
<1>4. /\ f = o + (end - cur) /\ end <= buf_size /\ end \in Int
      /\ o \in Nat /\ f \in Nat /\ k \in Nat /\ f <= k /\ k <= Len(T)
      /\ cur \in 0 .. buf_size /\ buf_size \in Nat /\ buf_size > 1
  BY <1>1, <1>2, <1>3 DEF Positions, Reading, Cursors, Stored, StoredAt, IbufTypes
<1>5. o < k /\ o < f /\ o + 1 \in o + 1 .. f /\ 1 \in 1 .. k - o /\ cur \in 0 .. buf_size - 1
  BY <1>1, <1>4
<1>6. IsSymbol(T[o + 1]) /\ T[o + 1].s = DataSymbol(T[o + 1].b)
  BY <1>1, <1>3, <1>5 DEF Positions, Reading
<1>7. buf[cur] = T[o + 1].b
  <2>1. buf[Where(cur, 1 - 1, buf_size)] = T[o + 1].b
    BY <1>3, <1>5 DEF Positions, Stored, StoredAt
  <2>2. Where(cur, 1 - 1, buf_size) = cur
    <3>1. 1 - 1 \in Nat /\ cur + (1 - 1) < buf_size /\ cur + (1 - 1) = cur
      BY <1>4, <1>5
    <3> QED
      BY <1>4, <1>5, <3>1, WhereRun
  <2> QED
    BY <2>1, <2>2
<1>8. /\ Got' /\ Counted(N, o + 1, k)' /\ Cardinality(Unhandled) \in Nat
      /\ Cardinality(Unhandled') = Cardinality(Unhandled)
  <2>1. received' = Append(received, T[o + 1].s) /\ UNCHANGED <<sent, scanned>>
    BY <1>1, <1>6, <1>7 DEF peer
  <2>2. Cursors(T, o, o, k) /\ Traced(T, S, N, sent) /\ Counted(N, o, k)
    BY <1>3, <1>4, <1>5 DEF Positions, Cursors
  <2>3. /\ Got' /\ Counted(N, o + 1, k)' /\ Cardinality(Unhandled) \in Nat
        /\ Cardinality(Unhandled') = Cardinality(Unhandled) - Ready(T[o + 1].s = "EOM")
    BY <1>2, <1>5, <1>6, <2>1, <2>2, Delivers
  <2>4. T[o + 1].s # "EOM"
    BY <1>6 DEF DataSymbol
  <2> QED
    BY <2>3, <2>4 DEF Ready
<1>9. Stored(T, o + 1, k)'
  <2>1. \A e \in Nat : 1 + e < buf_size => Where(cur + 1, e, buf_size) = Where(cur, 1 + e, buf_size)
    BY <1>4, <1>5 DEF Where
  <2>2. cur + 1 \in 0 .. buf_size /\ 1 \in Nat /\ o + 1 <= k
    BY <1>4, <1>5
  <2>3. StoredAt(T, o, k, buf, buf_size, cur, inp) /\ RoomFor(o, k, buf_size, inp, read_size)
    BY <1>3 DEF Positions, Stored
  <2>4. StoredAt(T, o + 1, k, buf, buf_size, cur + 1, inp)
    BY <1>4, <2>1, <2>2, <2>3, StoredOn
  <2>5. RoomFor(o + 1, k, buf_size, inp, read_size)
    BY <1>2, <1>4, <2>3 DEF RoomFor, IbufTypes
  <2> QED
    BY <1>1, <2>4, <2>5 DEF Stored, store
<1>10. Reading(T, N, o + 1, f, k)'
  <2>1. (cur + 1 < end => f = o + 1 + (end - (cur + 1))) /\ (~(cur + 1 < end) => f = o + 1)
    BY <1>1, <1>4
  <2>2. \A i \in o + 1 + 1 .. f : IsSymbol(T[i]) /\ T[i].s = DataSymbol(T[i].b)
    BY <1>1, <1>3, <1>4 DEF Positions, Reading
  <2> QED
    BY <1>1, <1>4, <2>1, <2>2 DEF Reading, InGetMore, Waiting, store
<1>11. Positions(T, S, N, o + 1, f, k)'
  <2>1. Cursors(T, o + 1, f, k)'
    BY <1>4, <1>5 DEF Cursors
  <2> QED
    BY <1>1, <1>3, <1>8, <1>9, <1>10, <2>1 DEF Positions, OnWire, Decoders, peer, scan, decode
<1>12. Messages' /\ IbufTypes'
  BY <1>1, <1>2, <1>8 DEF Messages, IbufTypes, Waiting, store, scan, messages, peer, decode,
                                 LongMessageIsLast, Ready
<1> QED
  BY <1>1, <1>8, <1>11, <1>12 DEF IbufInv, Open

\* No bytes are left: all of the symbols that have arrived have been read.
LEMMA GetMoreEmptyKeeps ==
  ASSUME IbufInv, GetMoreEmpty
  PROVE  IbufInv'
<1>1. ~closed /\ InGetMore /\ at = inp /\ Open /\ IbufTypes /\ Messages /\ Got
  BY DEF IbufInv, Open, GetMoreEmpty, InGetMore
<1>2. PICK T, S, N, o, f, k : Positions(T, S, N, o, f, k)
  BY <1>1 DEF Open
<1>3. /\ at \in 0 .. buf_size - 1 /\ at = Where(cur, k - o, buf_size) /\ f = k /\ N[k] = N[o]
      /\ k - o \in Nat /\ k - o < buf_size /\ cur \in 0 .. buf_size
  BY <1>1, <1>2, AtFacts
<1>4. /\ buf_size \in Nat /\ buf_size > 1 /\ o \in Nat /\ k \in Nat /\ o <= k
      /\ eof \in BOOLEAN /\ read_size \in Nat
  BY <1>1, <1>2 DEF IbufTypes, Positions, Cursors
<1>5. /\ cur' = at
      /\ UNCHANGED <<store, end, scan, decode, messages, closed, peer, scanned, received>>
      /\ eof => call' = "eos" /\ read_size' = read_size
      /\ ~eof => /\ read_size' = TriggerRead(at, inp, buf_size, eof, read_size)
                 /\ call' \in {"peek_wait", "read_wait"}
  BY DEF GetMoreEmpty
<1> HIDE DEF at
<1>6. StoredAt(T, k, k, buf, buf_size, at, inp)
  <2> DEFINE d == k - o
  <2>1. \A e \in Nat : d + e < buf_size => Where(at, e, buf_size) = Where(cur, d + e, buf_size)
    BY <1>3, <1>4, WhereOn
  <2>2. at \in 0 .. buf_size /\ d \in Nat /\ o + d <= k /\ o + d = k
    BY <1>3, <1>4
  <2> HIDE DEF d
  <2>3. StoredAt(T, o, k, buf, buf_size, cur, inp)
    BY <1>2 DEF Positions, Stored
  <2>4. StoredAt(T, o + d, k, buf, buf_size, at, inp)
    BY <1>4, <2>1, <2>2, <2>3, StoredOn
  <2> QED
    BY <2>2, <2>4
<1>7. /\ read_size' \in Nat /\ RoomFor(k, k, buf_size, inp, read_size')
      /\ eof => read_size' = read_size
      /\ ~eof => read_size' > 0
  <2> DEFINE n == TriggerRead(at, inp, buf_size, eof, read_size)
  <2>1. RoomFor(o, k, buf_size, inp, read_size) /\ at # buf_size /\ k <= k
    BY <1>2, <1>3, <1>4 DEF Positions, Stored
  <2>2. n \in Nat /\ RoomFor(k, k, buf_size, inp, n) /\ (~eof => n > 0)
    BY <1>4, <1>6, <2>1, RoomTriggered
  <2>3. RoomFor(k, k, buf_size, inp, read_size)
    BY <1>4, <2>1 DEF RoomFor
  <2> HIDE DEF n
  <2>4. CASE eof
    BY <1>4, <1>5, <2>3, <2>4
  <2>5. CASE ~eof
    BY <1>5, <2>2, <2>5 DEF n
  <2> QED
    BY <2>4, <2>5
<1>8. Positions(T, S, N, k, k, k)'
  <2>1. Cursors(T, k, k, k) /\ Decoders(S, k, k)'
    BY <1>2, <1>3, <1>4, <1>5 DEF Positions, Cursors, Decoders, scan, decode
  <2>2. Counted(N, k, k)'
    BY <1>2, <1>3, <1>5 DEF Positions, Counted
  <2>3. Stored(T, k, k)'
    BY <1>5, <1>6, <1>7 DEF Stored, store
  <2>4. Reading(T, N, k, k, k)'
    BY <1>5 DEF Reading, InGetMore, Waiting
  <2> QED
    BY <1>2, <1>5, <2>1, <2>2, <2>3, <2>4 DEF Positions, Cursors, OnWire, peer
<1>9. Messages'
  <2>1. Cardinality(Unhandled) = 0
    <3>1. Len(received) = N[k] /\ scanned = N[k] /\ N[k] \in Nat
      <4>1. N[k] \in Nat
        BY <1>2, <1>4, CountsOrdered DEF Positions, Cursors
      <4> QED
        BY <1>2, <1>3, <4>1 DEF Positions, Counted
    <3>2. Unhandled = {}
      BY <3>1 DEF Unhandled
    <3> QED
      BY <3>2, FS_EmptySet
  <2>2. handling_msg = "Active" /\ message_count > 0
    BY <1>1 DEF Messages, InGetMore
  <2>3. ~eof => long_msg /\ message_count = 1
    BY <1>1, <2>1, <2>2 DEF Messages, Ready
  <2>4. Unhandled' = Unhandled
    BY <1>5 DEF Unhandled, peer
  <2> QED
    BY <1>1, <1>5, <1>7, <2>2, <2>3, <2>4 DEF Messages, Waiting, messages, Ready, scan,
                                              LongMessageIsLast
<1>10. IbufTypes' /\ Got'
  BY <1>1, <1>5, <1>7 DEF IbufTypes, Got, store, scan, messages, peer, decode
<1> QED
  BY <1>1, <1>5, <1>8, <1>9, <1>10 DEF IbufInv, Open

\* ibuf_start_message begins a message that is counted.
LEMMA StartMessageKeeps ==
  ASSUME IbufInv, StartMessage
  PROVE  IbufInv'
<1>1. /\ handling_msg = "Triggered" /\ ~closed /\ handling_msg' = "Active"
      /\ UNCHANGED <<store, stream, scan, decode, eof, long_msg, message_count, read_size,
                     call, out, closed, peer, scanned, received>>
  BY DEF StartMessage
<1>2. Open /\ IbufTypes /\ Messages /\ Got
  BY <1>1 DEF IbufInv, Open
<1>3. PICK T, S, N, o, f, k : Positions(T, S, N, o, f, k)
  BY <1>2 DEF Open
<1>4. Positions(T, S, N, o, f, k)'
  BY <1>1, <1>3 DEF Positions, Cursors, OnWire, Decoders, Counted, Stored, StoredAt, RoomFor,
                    Reading, InGetMore, Waiting, at, store, stream, peer, scan, decode
<1>5. Messages' /\ IbufTypes' /\ Got'
  BY <1>1, <1>2 DEF Messages, IbufTypes, Got, Waiting, Unhandled, store, stream, scan,
                     peer, decode
<1> QED
  BY <1>1, <1>4, <1>5 DEF IbufInv, Open

\* The channel is closed between two calls, or by a handler that has given up.
LEMMA SendEofAndCloseKeeps ==
  ASSUME IbufInv, SendEofAndClose, call \in {"none", "eos"}
  PROVE  IbufInv'
  BY DEF IbufInv, SendEofAndClose, Got, peer

\* The channel is closed: at the end of the stream, by a handler that fails, or by others.
LEMMA ClosingKeeps ==
  ASSUME IbufInv, CloseAtEof \/ HandlerThrows \/ Close
  PROVE  IbufInv'
<1>1. SendEofAndClose
  BY DEF CloseAtEof, HandlerThrows, Close
<1>2. CloseAtEof => call = "none"
  <2>1. CloseAtEof => ~closed /\ handling_msg = "Triggered"
    BY DEF CloseAtEof, SendEofAndClose
  <2> QED
    BY <2>1 DEF IbufInv, Open, Messages
<1>3. call \in {"none", "eos"}
  BY <1>2 DEF HandlerThrows, Close
<1> QED
  BY <1>1, <1>3, SendEofAndCloseKeeps

\* The invariant says nothing of shut.
LEMMA Unmoved ==
  ASSUME IbufInv, UNCHANGED <<store, stream, scan, decode, messages, read_size, call, out,
                              closed, wire, sent, scanned, received>>
  PROVE  IbufInv'
<1>1. UNCHANGED <<store, stream, scan, decode, messages, read_size, call, out, closed, wire,
                  sent, scanned, received>>
  OBVIOUS
<1>2. ASSUME NEW T, NEW S, NEW N, NEW o, NEW f, NEW k, Positions(T, S, N, o, f, k)
      PROVE  Positions(T, S, N, o, f, k)'
  BY <1>1, <1>2 DEF Positions, Cursors, OnWire, Decoders, Counted, Stored, StoredAt, RoomFor,
                    Reading, InGetMore, Waiting, at, store, stream, scan, decode
<1>3. Got' /\ (Messages => Messages') /\ (IbufTypes => IbufTypes')
  BY <1>1 DEF IbufInv, Messages, IbufTypes, Got, Waiting, Unhandled, store, stream, scan,
              messages, decode, LongMessageIsLast, Ready
<1>4. Open => Open'
  BY <1>2, <1>3 DEF Open
<1> QED
  BY <1>1, <1>3, <1>4 DEF IbufInv

\* The peer closes its side: nothing in the buffer changes.
LEMMA PeerShutsDownKeeps ==
  ASSUME IbufInv, PeerShutsDown
  PROVE  IbufInv'
  BY Unmoved DEF PeerShutsDown

\* The end of the socket's stream.
LEMMA ReadEofKeeps ==
  ASSUME IbufInv, ReadEof
  PROVE  IbufInv'
<1>1. /\ read_size > 0 /\ ~closed /\ Dispatchable /\ read_size' = 0 /\ eof' = TRUE
      /\ message_count' = IF eof THEN message_count ELSE message_count + 1
      /\ handling_msg' = IF eof THEN handling_msg ELSE Trigger(handling_msg)
      /\ out' = IF Waiting THEN cur ELSE out
      /\ call' = CASE call = "read_wait" -> "read" [] call = "peek_wait" -> "peek"
                   [] OTHER -> call
      /\ UNCHANGED <<store, stream, scan, decode, long_msg, closed, peer, scanned, received>>
  BY DEF ReadEof
<1>2. Open /\ IbufTypes /\ Messages /\ Got
  BY <1>1 DEF IbufInv, Open
<1>3. PICK T, S, N, o, f, k : Positions(T, S, N, o, f, k)
  BY <1>2 DEF Open
<1>4. ~eof /\ (call = "none" \/ Waiting)
  BY <1>1, <1>2 DEF Messages, IbufTypes, Dispatchable
<1>5. Waiting => f = o /\ out' = cur /\ call' \in {"read", "peek"} /\ handling_msg = "Active"
  BY <1>1, <1>2, <1>3 DEF Positions, Reading, Waiting, Messages
<1>6. ~Waiting => call' = "none" /\ call = "none"
  BY <1>1, <1>4 DEF Waiting
<1>7. Reading(T, N, o, f, k)'
  <2>1. cur \in 0 .. buf_size /\ buf_size \in Nat /\ buf_size > 1 /\ o \in Nat
    BY <1>2, <1>3 DEF Positions, Cursors, Stored, StoredAt, IbufTypes
  <2>2. Rewind(cur, buf_size) = Where(cur, o - o, buf_size)
    <3>1. o - o = 0 /\ 0 \in Nat /\ 0 < buf_size
      BY <2>1
    <3> QED
      BY <2>1, <3>1, WhereFacts
  <2>3. CASE Waiting
    BY <1>1, <1>5, <2>1, <2>2, <2>3 DEF Reading, InGetMore, Waiting, at, store, stream
  <2>4. CASE ~Waiting
    BY <1>1, <1>3, <1>6, <2>4 DEF Positions, Reading, InGetMore, Waiting, store, stream
  <2> QED
    BY <2>3, <2>4
<1>8. Positions(T, S, N, o, f, k)'
  <2>1. Stored(T, o, k)'
    BY <1>1, <1>3 DEF Positions, Stored, StoredAt, RoomFor, store, stream
  <2> QED
    BY <1>1, <1>3, <1>7, <2>1 DEF Positions, Cursors, OnWire, Decoders, Counted, store, stream,
                                  peer, scan, decode
<1>9. message_count' = message_count + 1 /\ handling_msg' = Trigger(handling_msg)
  BY <1>1, <1>4
<1>10. Cardinality(Unhandled) \in Nat
  <2>1. Len(received) \in Nat /\ scanned \in Nat
    <3>1. N[o] \in Nat /\ N[k] \in Nat
      BY <1>3, CountsOrdered DEF Positions, Cursors
    <3> QED
      BY <1>3, <3>1 DEF Positions, Counted
  <2>2. Unhandled = Eoms(sent, Len(received), scanned)
    BY DEF Unhandled, Eoms
  <2> QED
    BY <2>1, <2>2, EomsFinite
<1>11. Messages'
  <2>1. Unhandled' = Unhandled
    BY <1>1 DEF Unhandled, peer
  <2>2. message_count' = Cardinality(Unhandled) + 1 + Ready(long_msg) /\ message_count' \in Nat
        /\ message_count' > 0
    BY <1>2, <1>4, <1>9, <1>10 DEF Messages, Ready
  <2>3. handling_msg' \in {"Triggered", "Active"} /\ (call' # "none" => handling_msg' = "Active")
    BY <1>2, <1>5, <1>6, <1>9 DEF Trigger, IbufTypes
  <2>4. ~Waiting'
    BY <1>5, <1>6 DEF Waiting
  <2>5. (long_msg => message_count' = 2) /\ eof' /\ UNCHANGED <<long_msg, assert_failed>>
    BY <1>1, <1>2, <1>4, <1>9 DEF Messages, Ready, scan
  <2> QED
    BY <1>1, <2>1, <2>2, <2>3, <2>4, <2>5 DEF Messages, Ready, LongMessageIsLast
<1>12. IbufTypes' /\ Got'
  BY <1>1, <1>2, <1>5, <1>6, <1>9 DEF IbufTypes, Got, Trigger, store, stream, scan, peer, decode
<1> QED
  BY <1>1, <1>8, <1>11, <1>12 DEF IbufInv, Open

\* The peer puts the bytes E on the wire, which say r and leave a decoder as they
\* find it.
LEMMA SendingKeeps ==
  ASSUME IbufInv, NEW E, NEW r, NEW P, NEW C, Traced(E, P, C, r),
         P[0] = "plain", P[Len(E)] = "plain",
         wire' = wire \o E, sent' = sent \o r,
         UNCHANGED <<store, stream, scan, decode, messages, read_size, call, out, closed,
                     scanned, received>>
  PROVE  IbufInv'
<1>1. /\ wire' = wire \o E /\ sent' = sent \o r
      /\ UNCHANGED <<store, stream, scan, decode, messages, read_size, call, out, closed,
                     scanned, received>>
  OBVIOUS
<1>3. Traced(E, P, C, r) /\ P[0] = "plain" /\ P[Len(E)] = "plain"
  OBVIOUS
<1>4. E \in Seq(ByteT) /\ r \in Seq(Words) /\ Len(E) \in Nat /\ Len(r) \in Nat
  BY <1>3, LenProperties DEF Traced
<1>5. Got'
  <2>1. sent \in Seq(Words) /\ received \in Seq(Words) /\ Len(sent) \in Nat /\ Len(received) \in Nat
    BY LenProperties DEF IbufInv, Got
  <2>2. /\ sent' \in Seq(Words) /\ Len(sent') = Len(sent) + Len(r)
        /\ \A j \in 1 .. Len(sent) : sent'[j] = sent[j]
    BY <1>1, <1>4, <2>1, ConcatProperties
  <2>3. \A j \in 1 .. Len(received) : j \in 1 .. Len(sent) /\ received[j] = sent[j]
    BY <2>1 DEF IbufInv, Got
  <2> QED
    BY <1>1, <1>4, <2>1, <2>2, <2>3 DEF IbufInv, Got
<1>6. ASSUME ~closed PROVE Open'
  <2>1. Open /\ IbufTypes /\ Messages
    BY <1>6 DEF IbufInv, Open
  <2>2. PICK T, S, N, o, f, k : Positions(T, S, N, o, f, k)
    BY <2>1 DEF Open
  <2>3. Traced(T, S, N, sent) /\ S[Len(T)] = "plain" /\ Cursors(T, o, f, k)
    BY <2>2 DEF Positions
  <2>4. PICK Z, M : /\ Traced(T \o E, Z, M, sent \o r) /\ Z[Len(T \o E)] = P[Len(E)]
                    /\ \A i \in 0 .. Len(T) : Z[i] = S[i] /\ M[i] = N[i]
    <3>1. Traced(E, P, C, r) /\ P[0] = S[Len(T)]
      BY <1>3, <2>3
    <3> QED
      BY <2>3, <3>1, TracedTwice, SMTT(30)
  <2> DEFINE U == T \o E
  <2>5. T \in Seq(ByteT) /\ Len(T) \in Nat
    BY <2>3, LenProperties DEF Traced
  <2>6. /\ U \in Seq(ByteT) /\ Len(U) = Len(T) + Len(E)
        /\ \A i \in 1 .. Len(T) + Len(E) : U[i] = IF i <= Len(T) THEN T[i] ELSE E[i - Len(T)]
    BY <1>4, <2>5, ConcatProperties
  <2> HIDE DEF U
  <2>7. o \in Nat /\ f \in Nat /\ k \in Nat /\ o <= f /\ f <= k /\ k <= Len(T)
    BY <2>3 DEF Cursors
  <2>8. /\ o \in 0 .. Len(T) /\ f \in 0 .. Len(T) /\ k \in 0 .. Len(T)
        /\ \A i \in 1 .. k : U[i] = T[i]
    <3>1. o \in 0 .. Len(T) /\ f \in 0 .. Len(T) /\ k \in 0 .. Len(T)
      BY <2>5, <2>7
    <3>2. Len(E) \in Nat
      BY <1>4
    <3>3. \A i \in 1 .. k : i \in 1 .. Len(T) + Len(E) /\ i <= Len(T)
      BY <2>5, <2>7, <3>2
    <3>4. \A i \in 1 .. k : U[i] = T[i]
      BY <2>6, <3>3
    <3> QED
      BY <3>1, <3>4
  <2>9. Z[o] = S[o] /\ Z[f] = S[f] /\ Z[k] = S[k] /\ M[o] = N[o] /\ M[f] = N[f] /\ M[k] = N[k]
    BY <2>4, <2>8
  <2>10. OnWire(U, k)'
    <3>1. wire \in Seq(ByteT) /\ Len(wire) = Len(T) - k /\ Len(wire) \in Nat
      BY <2>2, <2>5, <2>7 DEF Positions, OnWire
    <3>2. /\ wire' \in Seq(ByteT) /\ Len(wire') = Len(wire) + Len(E)
          /\ \A i \in 1 .. Len(wire) + Len(E) :
                wire'[i] = IF i <= Len(wire) THEN wire[i] ELSE E[i - Len(wire)]
      BY <1>1, <1>4, <3>1, ConcatProperties
    <3>3. ASSUME NEW i \in 1 .. Len(wire) + Len(E) PROVE wire'[i] = U[k + i]
      <4>1. k + i \in 1 .. Len(T) + Len(E) /\ (i <= Len(wire) <=> k + i <= Len(T))
            /\ (k + i) - Len(T) = i - Len(wire)
        <5>1. Len(E) \in Nat
          BY <1>4
        <5>2. /\ k \in Nat /\ k <= Len(T) /\ Len(T) \in Nat /\ Len(wire) \in Nat
              /\ Len(wire) = Len(T) - k
          BY <2>5, <2>7, <3>1
        <5> QED
          BY <5>1, <5>2
      <4>2. i <= Len(wire) => wire[i] = T[k + i]
        BY <2>2, <3>1 DEF Positions, OnWire
      <4>3. U[k + i] = IF k + i <= Len(T) THEN T[k + i] ELSE E[(k + i) - Len(T)]
        BY <2>6, <4>1
      <4> QED
        BY <3>2, <4>1, <4>2, <4>3
    <3>4. Len(wire') = Len(U) - k
      BY <1>4, <2>5, <2>6, <2>7, <3>1, <3>2
    <3> QED
      BY <3>2, <3>3, <3>4 DEF OnWire
  <2>11. Stored(U, o, k)'
    <3>1. \A j \in 1 .. k - o : o + j \in 1 .. k
      BY <2>7
    <3>2. StoredAt(U, o, k, buf, buf_size, cur, inp)
      BY <2>2, <2>8, <3>1 DEF Positions, Stored, StoredAt
    <3> QED
      BY <1>1, <2>2, <3>2 DEF Positions, Stored, store, stream
  <2>12. Reading(U, M, o, f, k)'
    <3>1. \A j \in o + 1 .. f : j \in 1 .. k
      BY <2>7
    <3>2. Reading(U, M, o, f, k)
      BY <2>2, <2>8, <2>9, <3>1 DEF Positions, Reading
    <3> QED
      BY <1>1, <3>2 DEF Reading, InGetMore, Waiting, at, store, stream
  <2>13. Positions(U, Z, M, o, f, k)'
    <3>1. Cursors(U, o, f, k)
      BY <1>4, <2>5, <2>6, <2>7 DEF Cursors
    <3>2. Decoders(Z, f, k)' /\ Counted(M, o, k)'
      BY <1>1, <2>2, <2>9 DEF Positions, Decoders, Counted, scan, decode
    <3>3. Traced(U, Z, M, sent') /\ Z[Len(U)] = "plain"
      BY <1>1, <1>3, <2>4 DEF U
    <3> QED
      BY <2>10, <2>11, <2>12, <3>1, <3>2, <3>3 DEF Positions, Cursors
  <2>14. Messages'
    <3>1. scanned <= Len(sent) /\ scanned \in Nat /\ Len(sent) \in Nat /\ Len(received) \in Nat
      <4>1. N[k] \in Nat /\ N[o] \in Nat /\ N[k] <= Len(sent) /\ Len(sent) \in Nat
        BY <2>3, <2>7, CountsOrdered
      <4> QED
        BY <2>2, <4>1 DEF Positions, Counted
    <3>2. \A j \in 1 .. Len(sent) : sent'[j] = sent[j]
      BY <1>1, <1>4, ConcatProperties DEF IbufInv, Got
    <3>3. \A j \in Len(received) + 1 .. scanned : j \in 1 .. Len(sent)
      BY <3>1
    <3>4. Unhandled' = Unhandled
      BY <1>1, <3>2, <3>3 DEF Unhandled
    <3> QED
      BY <1>1, <2>1, <3>4 DEF Messages, Waiting, LongMessageIsLast, messages, scan
  <2>15. IbufTypes'
    BY <1>1, <2>1 DEF IbufTypes, store, stream, scan, messages, decode
  <2> QED
    BY <2>13, <2>14, <2>15 DEF Open
<1> QED
  BY <1>1, <1>5, <1>6 DEF IbufInv

\* The peer sends one symbol, or the two of a block.
LEMMA PeerSendsKeeps ==
  ASSUME IbufInv, NEW s \in Symbols, PeerSends(s)
  PROVE  IbufInv'
<1>1. /\ wire' = wire \o Enc[s] /\ sent' = sent \o Said[s]
      /\ UNCHANGED <<store, stream, scan, decode, messages, read_size, call, out, closed,
                     scanned, received>>
  BY DEF PeerSends
<1>2. s \in DOMAIN Enc
  BY InputBufAssumption
<1>3. PICK P, C : /\ Traced(Enc[s], P, C, Said[s])
                  /\ P[0] = "plain" /\ P[Len(Enc[s])] = "plain"
  BY <1>2, EncTraced
<1> QED
  BY <1>1, <1>3, SendingKeeps

\* Two texts that leave a decoder as they find it do so together.
LEMMA TracedBoth ==
  ASSUME NEW T, NEW S, NEW N, NEW q, Traced(T, S, N, q), S[0] = "plain", S[Len(T)] = "plain",
         NEW E, NEW P, NEW C, NEW r, Traced(E, P, C, r), P[0] = "plain", P[Len(E)] = "plain"
  PROVE  \E Z, M : Traced(T \o E, Z, M, q \o r) /\ Z[0] = "plain" /\ Z[Len(T \o E)] = "plain"
<1>1. PICK Z, M : /\ Traced(T \o E, Z, M, q \o r) /\ Z[Len(T \o E)] = P[Len(E)]
                  /\ \A i \in 0 .. Len(T) : Z[i] = S[i] /\ M[i] = N[i]
  BY TracedTwice
<1>2. 0 \in 0 .. Len(T)
  BY LenProperties DEF Traced
<1> QED
  BY <1>1, <1>2

\* The peer ends the stream.
LEMMA PeerClosesKeeps ==
  ASSUME IbufInv, PeerCloses
  PROVE  IbufInv'
<1> DEFINE X == Enc["EOS"]
           Y == Enc["D"]
           Z == Enc["EOM"]
           x == <<"EOS">>
           y == <<"D">>
           z == <<"EOM">>
<1>1. /\ "EOS" \in DOMAIN Enc /\ "D" \in DOMAIN Enc /\ "EOM" \in DOMAIN Enc
      /\ Said["EOS"] = x /\ Said["D"] = y /\ Said["EOM"] = z
  BY DEF Enc, Said
<1>2. PICK P, C : Traced(X, P, C, x) /\ P[0] = "plain" /\ P[Len(X)] = "plain"
  BY <1>1, EncTraced
<1>3. PICK Q, D : Traced(Y, Q, D, y) /\ Q[0] = "plain" /\ Q[Len(Y)] = "plain"
  BY <1>1, EncTraced
<1>4. PICK R, F : Traced(Z, R, F, z) /\ R[0] = "plain" /\ R[Len(Z)] = "plain"
  BY <1>1, EncTraced
<1>5. sent' = sent \o (x \o y \o z)
  BY <1>1 DEF PeerCloses
<1>6. wire' = wire \o (X \o Y \o Z) /\ sent' = sent \o (x \o y \o z)
      /\ UNCHANGED <<store, stream, scan, decode, messages, read_size, call, out, closed,
                     scanned, received>>
  BY <1>5 DEF PeerCloses, Farewell
<1> HIDE DEF X, Y, Z, x, y, z
<1>7. PICK O, G : Traced(X \o Y, O, G, x \o y) /\ O[0] = "plain" /\ O[Len(X \o Y)] = "plain"
  BY <1>2, <1>3, TracedBoth
<1>8. PICK W, H : /\ Traced((X \o Y) \o Z, W, H, (x \o y) \o z) /\ W[0] = "plain"
                  /\ W[Len((X \o Y) \o Z)] = "plain"
  BY <1>4, <1>7, TracedBoth
<1> QED
  BY <1>6, <1>8, SendingKeeps

\* g is d bytes after c.
Reached(c, g, d, z) ==
  \A x \in Nat : d + x < z => Where(g, x, z) = Where(c, d + x, z)

\* The stream is set to where it has read d more bytes.
LEMMA StreamSet ==
  ASSUME NEW T, NEW o \in Nat, NEW k \in Nat, NEW d \in Nat, o + d <= k, IbufTypes,
         Stored(T, o, k), NEW c \in 0 .. buf_size, NEW e \in Int, SetStream(c, e),
         Reached(cur, c, d, buf_size), UNCHANGED <<store, eof>>
  PROVE  /\ Stored(T, o + d, k)' /\ read_size' \in Nat /\ (eof => read_size' = read_size)
         /\ end' \in Int
         /\ \/ cur' = c /\ end' = e
            \/ c = buf_size /\ cur' = 0 /\ end' = 0
<1>1. buf_size \in Nat /\ buf_size > 1 /\ read_size \in Nat /\ eof \in BOOLEAN
  BY DEF IbufTypes
<1>2. /\ StoredAt(T, o, k, buf, buf_size, cur, inp) /\ RoomFor(o, k, buf_size, inp, read_size)
  BY DEF Stored
<1>3. /\ eof \/ c # buf_size => cur' = c /\ end' = e
      /\ ~eof /\ c = buf_size => cur' = 0 /\ end' = 0
      /\ read_size' = TriggerRead(cur', inp, buf_size, eof, read_size)
  BY <1>1 DEF SetStream
<1>4. /\ cur' \in 0 .. buf_size /\ (eof \/ cur' # buf_size)
      /\ \A x \in Nat : d + x < buf_size => Where(cur', x, buf_size) = Where(cur, d + x, buf_size)
  <2>1. CASE eof \/ c # buf_size
    BY <1>3, <2>1 DEF Reached
  <2>2. CASE ~eof /\ c = buf_size
    <3>1. \A x \in Nat : x < buf_size => Where(0, x, buf_size) = Where(buf_size, x, buf_size)
      BY <1>1 DEF Where
    <3>2. \A x \in Nat : d + x < buf_size => x < buf_size
      BY <1>1
    <3> QED
      BY <1>1, <1>3, <2>2, <3>1, <3>2 DEF Reached
  <2> QED
    BY <2>1, <2>2
<1>a. PICK g : g = cur'
  OBVIOUS
<1> DEFINE n == TriggerRead(g, inp, buf_size, eof, read_size)
<1>b. /\ g \in 0 .. buf_size /\ (eof \/ g # buf_size)
      /\ \A x \in Nat : d + x < buf_size => Where(g, x, buf_size) = Where(cur, d + x, buf_size)
  BY <1>4, <1>a
<1>5. StoredAt(T, o + d, k, buf, buf_size, g, inp)
  BY <1>1, <1>2, <1>b, StoredOn
<1>6. n \in Nat /\ RoomFor(o + d, k, buf_size, inp, n) /\ (eof => n = read_size)
  <2>1. o + d \in Nat /\ o <= o + d
    OBVIOUS
  <2> QED
    BY <1>1, <1>2, <1>b, <1>5, <2>1, RoomTriggered
<1>7. read_size' = n
  BY <1>3, <1>a
<1> HIDE DEF n
<1>8. Stored(T, o + d, k)'
  BY <1>5, <1>6, <1>7, <1>a DEF Stored, store
<1>9. \/ cur' = c /\ end' = e
      \/ c = buf_size /\ cur' = 0 /\ end' = 0
  BY <1>3
<1> QED
  BY <1>6, <1>7, <1>8, <1>9

\* Symbols that can be read as they are come back from a call, the first of them,
\* unless it only peeks, to the handler.
LEMMA Runs ==
  ASSUME NEW T, NEW S, NEW N, NEW o, NEW f, NEW k, IbufInv, ~closed, InGetMore,
         Positions(T, S, N, o, f, k), NEW n \in Nat, 1 <= n, f + n <= k, at + n <= buf_size,
         ReturnRun(at + n),
         \A i \in f + 1 .. f + n : IsSymbol(T[i]) /\ T[i].s = DataSymbol(T[i].b),
         Stage(S[f + n], out_esc, out_size_mode, out_data_size)', out_esc' \in BOOLEAN,
         UNCHANGED <<store, scan, messages, closed, peer, scanned>>
  PROVE  IbufInv'
<1>1. IbufTypes /\ Messages /\ Got
  BY DEF IbufInv, Open
<1>2. /\ buf_size \in Nat /\ buf_size > 1 /\ o \in Nat /\ f \in Nat /\ k \in Nat /\ o <= f
      /\ k <= Len(T) /\ Len(T) \in Nat
  BY <1>1, LenProperties DEF IbufTypes, Positions, Cursors, Traced
<1>3. f < k
  BY <1>2
<1>4. /\ at \in 0 .. buf_size - 1 /\ at = Where(cur, f - o, buf_size) /\ N[f] = N[o]
      /\ f - o \in Nat /\ k - o < buf_size /\ cur \in 0 .. buf_size
      /\ buf[at] = T[f + 1].b
  BY <1>1, <1>3, AtFacts
<1>a. PICK l, c, h, d : /\ l = at + n /\ c = (IF peeking THEN at ELSE at + 1)
                        /\ h = (IF peeking THEN f ELSE f + 1) /\ d = h - o
  OBVIOUS
<1>5. /\ SetStream(c, l) /\ call' = "none"
      /\ peeking => received' = received
      /\ ~peeking => received' = Append(received, DataSymbol(buf[at]))
  BY <1>a DEF ReturnRun, Return, Deliver
<1>6. f + 1 \in f + 1 .. f + n /\ IsSymbol(T[f + 1]) /\ T[f + 1].s = DataSymbol(buf[at])
  <2>1. f + 1 \in f + 1 .. f + n
    BY <1>2
  <2> QED
    BY <1>4, <2>1
<1>7. /\ Got' /\ Counted(N, h, k)' /\ Cardinality(Unhandled') = Cardinality(Unhandled)
  <2>1. CASE peeking
    <3>1. Unhandled' = Unhandled /\ Got'
      BY <1>1, <1>5, <2>1 DEF Unhandled, Got, peer
    <3> QED
      BY <1>4, <1>5, <1>a, <2>1, <3>1 DEF Positions, Counted
  <2>2. CASE ~peeking
    <3>1. received' = Append(received, T[f + 1].s) /\ UNCHANGED <<sent, scanned>>
      BY <1>5, <1>6, <2>2 DEF peer
    <3>2. Cursors(T, o, f, k) /\ Traced(T, S, N, sent) /\ Counted(N, o, k)
      BY DEF Positions
    <3>3. /\ Got' /\ Counted(N, f + 1, k)' /\ Cardinality(Unhandled) \in Nat
          /\ Cardinality(Unhandled') = Cardinality(Unhandled) - Ready(T[f + 1].s = "EOM")
      BY <1>1, <1>3, <1>4, <1>6, <3>1, <3>2, Delivers
    <3>4. T[f + 1].s # "EOM"
      BY <1>6 DEF DataSymbol
    <3> QED
      BY <1>a, <2>2, <3>3, <3>4 DEF Ready
  <2> QED
    BY <2>1, <2>2
<1> HIDE DEF at, peeking
<1>8. /\ d \in Nat /\ o + d = h /\ h <= f + n /\ h <= k /\ h \in Nat /\ c \in 0 .. buf_size /\ l \in Int
      /\ c <= l /\ l - c = f + n - h
  <2>1. at \in 0 .. buf_size - 1 /\ at + n <= buf_size
    BY <1>4
  <2>2. CASE peeking
    BY <1>2, <1>3, <1>a, <2>1, <2>2
  <2>3. CASE ~peeking
    BY <1>2, <1>3, <1>a, <2>1, <2>3
  <2> QED
    BY <2>2, <2>3
<1>9. Reached(cur, c, d, buf_size)
  <2>1. CASE peeking
    <3>1. c = at /\ d = f - o
      BY <1>a, <2>1
    <3>2. f - o \in Nat /\ cur \in 0 .. buf_size /\ at = Where(cur, f - o, buf_size)
      BY <1>4
    <3>3. buf_size \in Nat /\ buf_size > 1
      BY <1>2
    <3> QED
      BY <3>1, <3>2, <3>3, WhereOn DEF Reached
  <2>2. CASE ~peeking
    <3>1. c = at + 1 /\ d = (f - o) + 1
      BY <1>2, <1>a, <2>2
    <3>2. f - o \in Nat /\ cur \in 0 .. buf_size /\ at = Where(cur, f - o, buf_size)
      BY <1>4
    <3>3. buf_size \in Nat /\ buf_size > 1
      BY <1>2
    <3> QED
      BY <3>1, <3>2, <3>3, WhereNext DEF Reached
  <2> QED
    BY <2>1, <2>2
<1>10. /\ Stored(T, o + d, k)' /\ read_size' \in Nat /\ (eof => read_size' = read_size)
       /\ end' \in Int
       /\ \/ cur' = c /\ end' = l
          \/ c = buf_size /\ cur' = 0 /\ end' = 0
  <2>1. UNCHANGED <<store, eof>> /\ o + d <= k /\ Stored(T, o, k)
    BY <1>8 DEF messages, Positions
  <2>2. o \in Nat /\ k \in Nat /\ d \in Nat /\ c \in 0 .. buf_size /\ l \in Int
    BY <1>2, <1>8
  <2>3. SetStream(c, l)
    BY <1>5
  <2> QED
    BY <1>1, <1>9, <2>1, <2>2, <2>3, StreamSet
<1>11. l <= buf_size
  BY <1>a
<1>12. Reading(T, N, h, f + n, k)'
  <2>1. \A i \in h + 1 .. f + n : IsSymbol(T[i]) /\ T[i].s = DataSymbol(T[i].b)
    <3>1. \A i \in h + 1 .. f + n : i \in f + 1 .. f + n
      BY <1>2, <1>8, <1>a
    <3> QED
      BY <3>1
  <2>2. /\ cur' < end' => end' <= buf_size /\ f + n = h + (end' - cur')
        /\ ~(cur' < end') => f + n = h
    <3>1. CASE cur' = c /\ end' = l
      BY <1>2, <1>8, <1>11, <3>1
    <3>2. CASE c = buf_size /\ cur' = 0 /\ end' = 0
      BY <1>2, <1>8, <1>11, <3>2
    <3> QED
      BY <1>10, <3>1, <3>2
  <2> QED
    BY <1>5, <2>1, <2>2 DEF Reading, InGetMore, Waiting, store
<1>13. Positions(T, S, N, h, f + n, k)'
  <2>1. Cursors(T, h, f + n, k)
    BY <1>2, <1>8 DEF Cursors
  <2>2. Stored(T, h, k)'
    BY <1>8, <1>10
  <2>3. Decoders(S, f + n, k)'
    BY DEF Positions, Decoders, scan
  <2> QED
    BY <1>7, <1>12, <2>1, <2>2, <2>3 DEF Positions, Cursors, OnWire, peer
<1>14. Messages'
  BY <1>1, <1>5, <1>7, <1>10 DEF Messages, Waiting, messages, Ready, scan, LongMessageIsLast
<1>15. IbufTypes'
  BY <1>1, <1>5, <1>10 DEF IbufTypes, store, scan, messages
<1> QED
  BY <1>7, <1>13, <1>14, <1>15 DEF IbufInv, Open

\* An escape: a data byte, the end of the message or of the stream is handed out.
LEMMA GetMoreCodeKeeps ==
  ASSUME IbufInv, GetMoreCode
  PROVE  IbufInv'
<1>1. ~closed /\ InGetMore /\ at # inp /\ Open /\ IbufTypes /\ Messages /\ Got
  BY DEF IbufInv, Open, GetMoreCode, InGetMore
<1>2. PICK T, S, N, o, f, k : Positions(T, S, N, o, f, k)
  BY <1>1 DEF Open
<1>3. /\ f < k /\ buf[at] = T[f + 1].b /\ Leads(S[f], T[f + 1], S[f + 1])
      /\ at \in 0 .. buf_size - 1 /\ at = Where(cur, f - o, buf_size) /\ N[f] = N[o]
      /\ f - o \in Nat /\ k - o < buf_size /\ cur \in 0 .. buf_size
  BY <1>1, <1>2, AtFacts
<1>4. /\ buf_size \in Nat /\ buf_size > 1 /\ o \in Nat /\ f \in Nat /\ k \in Nat /\ o <= f
      /\ k <= Len(T) /\ Len(T) \in Nat
  BY <1>1, <1>2, LenProperties DEF IbufTypes, Positions, Cursors, Traced
<1>a. PICK b, c, h, d : /\ b = buf[at] /\ c = (IF peeking THEN at ELSE at + 1)
                        /\ h = (IF peeking THEN f ELSE f + 1) /\ d = h - o
  OBVIOUS
<1>5. /\ NoBlock /\ out_esc /\ b \in 0 .. 2 /\ call' = "none" /\ out_esc' = peeking
      /\ peeking => received' = received
      /\ ~peeking => received' = Append(received, <<"E", "EOM", "EOS">>[b + 1])
      /\ out' = c /\ SetStream(c, c)
      /\ b = 1 /\ ~peeking => /\ message_count' = message_count - 1
                              /\ handling_msg' = IF message_count = 1 THEN "Idle" ELSE "Triggered"
      /\ ~(b = 1 /\ ~peeking) => message_count' = message_count /\ handling_msg' = handling_msg
      /\ UNCHANGED <<store, scan, out_size_mode, out_data_size, eof, long_msg, closed, peer,
                     scanned>>
  <2>1. out' = c
    BY <1>a DEF GetMoreCode
  <2>2. SetStream(c, c)
    BY <2>1 DEF GetMoreCode, SetStream
  <2> QED
    BY <1>a, <2>1, <2>2 DEF GetMoreCode, Return, Deliver, KeepEscape
<1>6. S[f] = "esc"
  BY <1>2, <1>5 DEF Positions, Decoders, Stage
<1>7. /\ IsSymbol(T[f + 1]) /\ S[f + 1] = "plain" /\ T[f + 1].s = <<"E", "EOM", "EOS">>[b + 1]
      /\ T[f + 1].s = "EOM" <=> b = 1
  <2>1. \/ b = 0 /\ T[f + 1].s = "E" /\ S[f + 1] = "plain"
        \/ b = 1 /\ T[f + 1].s = "EOM" /\ S[f + 1] = "plain"
        \/ b = 2 /\ T[f + 1].s = "EOS" /\ S[f + 1] = "plain"
    BY <1>3, <1>5, <1>6, <1>a DEF Leads
  <2> QED
    BY <2>1 DEF IsSymbol
<1>8. /\ Got' /\ Counted(N, h, k)' /\ Cardinality(Unhandled) \in Nat
      /\ Cardinality(Unhandled') = Cardinality(Unhandled) - Ready(~peeking /\ b = 1)
  <2>2. Cursors(T, o, f, k) /\ Traced(T, S, N, sent) /\ Counted(N, o, k)
    BY <1>2 DEF Positions
  <2>1. CASE peeking
    <3>1. Unhandled' = Unhandled /\ Got'
      BY <1>1, <1>5, <2>1 DEF Unhandled, Got, peer
    <3>2. Cardinality(Unhandled) \in Nat
      <4>1. N[o] \in Nat /\ N[k] \in Nat
        BY <2>2, CountsOrdered DEF Cursors
      <4>2. Unhandled = Eoms(sent, Len(received), scanned) /\ Len(received) \in Nat /\ scanned \in Nat
        BY <2>2, <4>1 DEF Unhandled, Eoms, Counted
      <4> QED
        BY <4>2, EomsFinite
    <3>3. Counted(N, h, k)'
      BY <1>3, <1>5, <1>a, <2>1, <2>2 DEF Counted
    <3> QED
      BY <2>1, <3>1, <3>2, <3>3 DEF Ready
  <2>3. CASE ~peeking
    <3>1. received' = Append(received, T[f + 1].s) /\ UNCHANGED <<sent, scanned>>
      BY <1>5, <1>7, <2>3 DEF peer
    <3>3. /\ Got' /\ Counted(N, f + 1, k)' /\ Cardinality(Unhandled) \in Nat
          /\ Cardinality(Unhandled') = Cardinality(Unhandled) - Ready(T[f + 1].s = "EOM")
      BY <1>1, <1>3, <1>7, <2>2, <3>1, Delivers
    <3> QED
      BY <1>7, <1>a, <2>3, <3>3 DEF Ready
  <2> QED
    BY <2>1, <2>3
<1>9. Decoders(S, h, k)'
  <2>1. CASE peeking
    BY <1>2, <1>5, <1>6, <1>a, <2>1 DEF Positions, Decoders, Stage, scan
  <2>2. CASE ~peeking
    <3>1. Stage(S[h], out_esc, out_size_mode, out_data_size)'
      BY <1>5, <1>7, <1>a, <2>2 DEF NoBlock, Stage
    <3> QED
      BY <1>2, <1>5, <3>1 DEF Positions, Decoders, scan
  <2> QED
    BY <2>1, <2>2
<1> HIDE DEF at, peeking
<1>10. d \in Nat /\ o + d = h /\ h <= k /\ h \in Nat /\ c \in 0 .. buf_size /\ c \in Int
  <2>1. at \in 0 .. buf_size - 1
    BY <1>3
  <2>2. CASE peeking
    BY <1>3, <1>4, <1>a, <2>1, <2>2
  <2>3. CASE ~peeking
    BY <1>3, <1>4, <1>a, <2>1, <2>3
  <2> QED
    BY <2>2, <2>3
<1>11. Reached(cur, c, d, buf_size)
  <2>1. CASE peeking
    <3>1. c = at /\ d = f - o
      BY <1>a, <2>1
    <3>2. f - o \in Nat /\ cur \in 0 .. buf_size /\ at = Where(cur, f - o, buf_size)
      BY <1>3
    <3>3. buf_size \in Nat /\ buf_size > 1
      BY <1>4
    <3> QED
      BY <3>1, <3>2, <3>3, WhereOn DEF Reached
  <2>2. CASE ~peeking
    <3>1. c = at + 1 /\ d = (f - o) + 1
      BY <1>4, <1>a, <2>2
    <3>2. f - o \in Nat /\ cur \in 0 .. buf_size /\ at = Where(cur, f - o, buf_size)
      BY <1>3
    <3>3. buf_size \in Nat /\ buf_size > 1
      BY <1>4
    <3> QED
      BY <3>1, <3>2, <3>3, WhereNext DEF Reached
  <2> QED
    BY <2>1, <2>2
<1>12. /\ Stored(T, o + d, k)' /\ read_size' \in Nat /\ (eof => read_size' = read_size)
       /\ end' \in Int /\ ~(cur' < end')
  <2>1. UNCHANGED <<store, eof>> /\ o + d <= k /\ Stored(T, o, k)
    BY <1>2, <1>5, <1>10 DEF Positions
  <2>2. o \in Nat /\ k \in Nat /\ d \in Nat /\ c \in 0 .. buf_size /\ c \in Int
    BY <1>4, <1>10
  <2>3. SetStream(c, c)
    BY <1>5
  <2>4. /\ Stored(T, o + d, k)' /\ read_size' \in Nat /\ (eof => read_size' = read_size)
        /\ end' \in Int
        /\ \/ cur' = c /\ end' = c
           \/ c = buf_size /\ cur' = 0 /\ end' = 0
    BY <1>1, <1>11, <2>1, <2>2, <2>3, StreamSet
  <2>5. cur' = end' /\ \A x \in Int : ~(x < x)
    BY <2>4
  <2>6. ~(cur' < end')
    BY <2>4, <2>5
  <2> QED
    BY <2>4, <2>6
<1>13. Reading(T, N, h, h, k)'
  <2>1. h + 1 .. h = {}
    BY <1>10
  <2> QED
    BY <1>5, <1>12, <2>1 DEF Reading, InGetMore, Waiting, store
<1>14. Positions(T, S, N, h, h, k)'
  <2>1. Cursors(T, h, h, k)
    BY <1>4, <1>10 DEF Cursors
  <2>2. Stored(T, h, k)'
    BY <1>10, <1>12
  <2> QED
    BY <1>2, <1>5, <1>8, <1>9, <1>13, <2>1, <2>2 DEF Positions, Cursors, OnWire, peer
<1>15. Messages'
  <2>1. message_count > 0 /\ handling_msg = "Active" /\ message_count \in Nat
    BY <1>1 DEF Messages, InGetMore
  <2>2. message_count = Cardinality(Unhandled) + Ready(eof) + Ready(long_msg)
    BY <1>1 DEF Messages
  <2>3. ~Waiting' /\ (eof' => read_size' = 0)
    BY <1>1, <1>5, <1>12 DEF Waiting, Messages
  <2>a. Cardinality(Unhandled') \in Nat
    <3>1. N[h] \in Nat /\ N[k] \in Nat
      BY <1>2, <1>4, <1>10, CountsOrdered DEF Positions, Cursors
    <3>2. Len(received') = N[h] /\ scanned' = N[k]
      BY <1>8 DEF Counted
    <3>3. Unhandled' = Eoms(sent', N[h], N[k])
      BY <3>2 DEF Unhandled, Eoms
    <3> QED
      BY <3>1, <3>3, EomsFinite
  <2>b. (long_msg => message_count = 1 + Ready(eof)) /\ LongMessageIsLast'
    BY <1>1, <1>5 DEF Messages, LongMessageIsLast, scan
  <2>4. CASE b = 1 /\ ~peeking
    <3>1. ~long_msg
      BY <1>8, <2>2, <2>4, <2>a, <2>b DEF Ready
    <3> QED
      BY <1>5, <1>8, <2>1, <2>2, <2>3, <2>4, <2>b, <3>1 DEF Messages, Ready
  <2>5. CASE ~(b = 1 /\ ~peeking)
    BY <1>5, <1>8, <2>1, <2>2, <2>3, <2>5, <2>b DEF Messages, Ready
  <2> QED
    BY <2>4, <2>5
<1>16. IbufTypes'
  <2>1. out_esc' \in BOOLEAN
    BY <1>5 DEF peeking
  <2>2. handling_msg' \in {"Idle", "Triggered", "Active"}
    BY <1>1, <1>5 DEF IbufTypes
  <2> QED
    BY <1>1, <1>5, <1>12, <2>1, <2>2 DEF IbufTypes, store, scan
<1> QED
  BY <1>1, <1>5, <1>8, <1>14, <1>15, <1>16 DEF IbufInv, Open

\* A byte of a block.
LEMMA LeftByte ==
  ASSUME NEW x \in {"left1", "left2"}, NEW w, NEW y, Leads(x, w, y)
  PROVE  /\ IsSymbol(w) /\ w.s = DataSymbol(w.b)
         /\ x = "left1" => y = "plain"
         /\ x = "left2" => y = "left1"
<1>1. \/ w.b = ESC /\ w.s = "E"
      \/ w.b = 1 /\ w.s = "C"
  BY DEF Leads
<1>2. (x = "left1" => y = "plain") /\ (x = "left2" => y = "left1")
  BY DEF Leads
<1>3. w.s = DataSymbol(w.b)
  BY <1>1 DEF DataSymbol, ESC, Plain
<1>4. IsSymbol(w)
  BY <1>1 DEF IsSymbol
<1> QED
  BY <1>2, <1>3, <1>4

\* The bytes that ibuf_get_more may look at are there, and lie next to each other.
LEMMA LimitIn ==
  ASSUME NEW T, NEW S, NEW N, NEW o, NEW f, NEW k, IbufTypes, Positions(T, S, N, o, f, k),
         InGetMore, at # inp
  PROVE  /\ Limit \in Nat /\ at < Limit /\ Limit <= buf_size /\ Limit - at <= k - f
         /\ \A e \in Nat : at + e < Limit => f + e + 1 \in 1 .. k /\ buf[at + e] = T[f + e + 1].b
<1>1. /\ f < k /\ at \in 0 .. buf_size - 1 /\ at = Where(cur, f - o, buf_size)
      /\ f - o \in Nat /\ k - o \in Nat /\ k - o < buf_size /\ cur \in 0 .. buf_size
  BY AtFacts
<1>2. /\ buf_size \in Nat /\ buf_size > 1 /\ o \in Nat /\ f \in Nat /\ k \in Nat /\ o <= f
      /\ inp = Where(cur, k - o, buf_size)
      /\ \A j \in 1 .. k - o : buf[Where(cur, j - 1, buf_size)] = T[o + j].b
  BY DEF IbufTypes, Positions, Cursors, Stored, StoredAt
<1> DEFINE d == f - o
           n == k - o
<1>3. d \in Nat /\ n \in Nat /\ d < n /\ n < buf_size /\ n - d = k - f
  BY <1>1, <1>2
<1>4. Limit = IF at + 1 <= inp THEN inp ELSE buf_size
  BY DEF Limit
<1> HIDE DEF at, Limit, d, n
<1>5. /\ Limit \in Nat /\ at < Limit /\ Limit <= buf_size /\ Limit - at <= n - d
      /\ \A e \in Nat : at + e < Limit => Where(cur, d + e, buf_size) = at + e
  <2>1. at = Where(cur, d, buf_size) /\ inp = Where(cur, n, buf_size) /\ cur \in 0 .. buf_size
    BY <1>1, <1>2 DEF d, n
  <2> QED
    BY <1>2, <1>3, <1>4, <2>1, LimitFacts
<1>6. ASSUME NEW e \in Nat, at + e < Limit
      PROVE  f + e + 1 \in 1 .. k /\ buf[at + e] = T[f + e + 1].b
  <2>1. Limit \in Nat /\ Limit - at <= n - d /\ at \in Nat
    BY <1>1, <1>5
  <2>2. e < n - d
    BY <1>6, <1>3, <2>1
  <2>3. d + e + 1 \in 1 .. k - o /\ (d + e + 1) - 1 = d + e /\ o + (d + e + 1) = f + e + 1
        /\ f + e + 1 \in 1 .. k
    BY <1>2, <2>2, <1>3 DEF d, n
  <2>4. buf[Where(cur, (d + e + 1) - 1, buf_size)] = T[o + (d + e + 1)].b
    BY <1>2, <2>3
  <2> QED
    BY <1>5, <1>6, <2>3, <2>4
<1> QED
  BY <1>3, <1>5, <1>6

\* Bytes of a block are handed out as they are.
LEMMA GetMoreBlockKeeps ==
  ASSUME IbufInv, GetMoreBlock
  PROVE  IbufInv'
<1>1. ~closed /\ InGetMore /\ at # inp /\ Open /\ IbufTypes
  BY DEF IbufInv, Open, GetMoreBlock, InGetMore
<1>2. PICK T, S, N, o, f, k : Positions(T, S, N, o, f, k)
  BY <1>1 DEF Open
<1>3. f < k /\ at \in 0 .. buf_size - 1 /\ Leads(S[f], T[f + 1], S[f + 1])
  BY <1>1, <1>2, AtFacts
<1>4. /\ buf_size \in Nat /\ f \in Nat /\ k \in Nat /\ k <= Len(T) /\ Len(T) \in Nat
      /\ Traced(T, S, N, sent) /\ Stage(S[f], out_esc, out_size_mode, out_data_size)
  BY <1>1, <1>2, LenProperties DEF IbufTypes, Positions, Cursors, Traced, Decoders
<1>5. PICK n : n = Min({Limit - at, out_data_size})
  OBVIOUS
<1>6. /\ out_size_mode = 0 /\ out_data_size > 0 /\ out_data_size' = out_data_size - n
      /\ ReturnRun(at + n) /\ out_esc' = out_esc /\ out_size_mode' = out_size_mode
      /\ UNCHANGED <<store, scan, messages, closed, peer, scanned>>
  BY <1>5 DEF GetMoreBlock
<1>7. /\ Limit \in Nat /\ at < Limit /\ Limit <= buf_size /\ Limit - at <= k - f
  BY <1>1, <1>2, LimitIn
<1> HIDE DEF at, Limit
<1>8. \/ S[f] = "left1" /\ out_data_size = 1 /\ ~out_esc
      \/ S[f] = "left2" /\ out_data_size = 2 /\ ~out_esc
  BY <1>4, <1>6 DEF Stage
<1>9. n \in Nat /\ n >= 1 /\ n <= out_data_size /\ n <= Limit - at
  <2>1. Limit - at \in Nat /\ Limit - at >= 1 /\ out_data_size \in Nat /\ out_data_size >= 1
    BY <1>3, <1>7, <1>8
  <2> DEFINE R == {Limit - at, out_data_size}
  <2>2. R \subseteq Nat /\ R # {}
    BY <2>1
  <2>3. Min(R) \in R /\ \A y \in R : Min(R) <= y
    BY <2>2, MinNat
  <2> QED
    BY <1>5, <2>1, <2>3
<1>10. f + n <= k /\ at + n <= buf_size /\ n \in {1, 2}
  BY <1>3, <1>4, <1>7, <1>8, <1>9
<1>11. /\ IsSymbol(T[f + 1]) /\ T[f + 1].s = DataSymbol(T[f + 1].b)
       /\ S[f] = "left1" => S[f + 1] = "plain"
       /\ S[f] = "left2" => S[f + 1] = "left1"
  BY <1>3, <1>8, LeftByte
<1>12. CASE n = 1
  <2>1. \A i \in f + 1 .. f + 1 : i = f + 1
    BY <1>4
  <2>2. \A i \in f + 1 .. f + n : IsSymbol(T[i]) /\ T[i].s = DataSymbol(T[i].b)
    BY <1>11, <1>12, <2>1
  <2>3. Stage(S[f + n], out_esc', out_size_mode', out_data_size') /\ out_esc' \in BOOLEAN
    <3>1. 1 - 1 = 0 /\ 2 - 1 = 1
      OBVIOUS
    <3> QED
      BY <1>1, <1>6, <1>8, <1>11, <1>12, <3>1 DEF Stage, IbufTypes
  <2> QED
    BY <1>1, <1>2, <1>6, <1>9, <1>10, <2>2, <2>3, Runs
<1>13. CASE n = 2
  <2>1. S[f] = "left2" /\ out_data_size = 2 /\ ~out_esc /\ S[f + 1] = "left1"
    BY <1>8, <1>9, <1>11, <1>13
  <2>2. f + 1 \in Nat /\ f + 1 < Len(T) /\ f + 1 + 1 = f + 2
    BY <1>4, <1>10, <1>13
  <2>3. Leads(S[f + 1], T[f + 2], S[f + 2])
    BY <1>4, <2>2, NextByte
  <2>4. IsSymbol(T[f + 2]) /\ T[f + 2].s = DataSymbol(T[f + 2].b) /\ S[f + 2] = "plain"
    BY <2>1, <2>3, LeftByte
  <2>5. \A i \in f + 1 .. f + 2 : i = f + 1 \/ i = f + 2
    BY <1>4
  <2>6. \A i \in f + 1 .. f + n : IsSymbol(T[i]) /\ T[i].s = DataSymbol(T[i].b)
    BY <1>11, <1>13, <2>4, <2>5
  <2>7. Stage(S[f + n], out_esc', out_size_mode', out_data_size') /\ out_esc' \in BOOLEAN
    <3>1. 2 - 2 = 0
      OBVIOUS
    <3> QED
      BY <1>1, <1>6, <1>13, <2>1, <2>4, <3>1 DEF Stage, IbufTypes
  <2> QED
    BY <1>1, <1>2, <1>6, <1>9, <1>10, <2>6, <2>7, Runs
<1> QED
  BY <1>10, <1>12, <1>13

\* Bytes up to the next escape are handed out as they are.
LEMMA GetMorePlainKeeps ==
  ASSUME IbufInv, GetMorePlain
  PROVE  IbufInv'
<1>1. ~closed /\ InGetMore /\ at # inp /\ Open /\ IbufTypes
  BY DEF IbufInv, Open, GetMorePlain, InGetMore
<1>2. PICK T, S, N, o, f, k : Positions(T, S, N, o, f, k)
  BY <1>1 DEF Open
<1>3. f < k /\ at \in 0 .. buf_size - 1
  BY <1>1, <1>2, AtFacts
<1>4. /\ buf_size \in Nat /\ f \in Nat /\ k \in Nat /\ k <= Len(T) /\ Len(T) \in Nat
      /\ Traced(T, S, N, sent) /\ Stage(S[f], out_esc, out_size_mode, out_data_size)
  BY <1>1, <1>2, LenProperties DEF IbufTypes, Positions, Cursors, Traced, Decoders
<1>5. PICK l : l = Min({Limit} \cup {j \in at + 1 .. Limit - 1 : buf[j] = ESC})
  OBVIOUS
<1>6. /\ NoBlock /\ ~out_esc /\ buf[at] # ESC /\ ReturnRun(l)
      /\ UNCHANGED <<store, scan, decode, messages, closed, peer, scanned>>
  BY <1>5 DEF GetMorePlain
<1>7. /\ Limit \in Nat /\ at < Limit /\ Limit <= buf_size /\ Limit - at <= k - f
      /\ \A e \in Nat : at + e < Limit => f + e + 1 \in 1 .. k /\ buf[at + e] = T[f + e + 1].b
  BY <1>1, <1>2, LimitIn
<1>8. PICK a, m : a = at /\ m = Limit
  OBVIOUS
<1>9. /\ a \in Nat /\ m \in Nat /\ a < m /\ m <= buf_size /\ m - a <= k - f /\ buf[a] # ESC
      /\ \A e \in Nat : a + e < m => f + e + 1 \in 1 .. k /\ buf[a + e] = T[f + e + 1].b
  <2>1. a \in 0 .. buf_size - 1 /\ buf_size \in Nat
    BY <1>3, <1>4, <1>8
  <2>2. a \in Nat
    BY <2>1
  <2> QED
    BY <1>6, <1>7, <1>8, <2>2
<1>10. l \in Nat /\ a < l /\ l <= m /\ \A j \in a + 1 .. l - 1 : buf[j] # ESC
  <2> DEFINE E == {j \in a + 1 .. m - 1 : buf[j] = ESC}
             R == {m} \cup E
  <2>1. R \subseteq Nat /\ R # {}
    BY <1>9
  <2>2. l = Min(R)
    BY <1>5, <1>8
  <2>3. l \in R /\ \A y \in R : l <= y
    BY <2>1, <2>2, MinNat
  <2>4. l \in Nat /\ a < l /\ l <= m
    BY <1>9, <2>3
  <2>5. ASSUME NEW j \in a + 1 .. l - 1 PROVE buf[j] # ESC
    <3>1. j \in a + 1 .. m - 1 /\ ~(l <= j)
      BY <1>9, <2>4
    <3> QED
      BY <2>3, <3>1
  <2> QED
    BY <2>4, <2>5
<1>11. PICK n : n = l - a
  OBVIOUS
<1>12. n \in Nat /\ 1 <= n /\ f + n <= k /\ a + n <= buf_size /\ a + n = l
  BY <1>3, <1>4, <1>9, <1>10, <1>11
<1>13. ASSUME NEW i \in 0 .. n - 1 PROVE T[f + i + 1].b # ESC
  <2>1. i \in Nat /\ a + i < m /\ (i # 0 => a + i \in a + 1 .. l - 1)
    BY <1>9, <1>10, <1>12
  <2>2. buf[a + i] = T[f + i + 1].b
    BY <1>9, <2>1
  <2>3. i = 0 => a + i = a
    BY <1>9
  <2>4. buf[a + i] # ESC
    BY <1>9, <1>10, <2>1, <2>3
  <2> QED
    BY <2>2, <2>4
<1>14. ASSUME NEW i \in 0 .. n - 1, S[f + i] = "plain"
       PROVE  S[f + i + 1] = "plain" /\ T[f + i + 1].b = Plain /\ T[f + i + 1].s = "D"
  <2>1. f + i \in Nat /\ f + i < Len(T)
    BY <1>4, <1>12
  <2>2. Leads(S[f + i], T[f + i + 1], S[f + i + 1])
    BY <1>4, <2>1, NextByte
  <2> QED
    BY <1>13, <1>14, <2>2 DEF Leads
<1>15. \A i \in 0 .. n : S[f + i] = "plain"
  <2> DEFINE Bad == {i \in 0 .. n : S[f + i] # "plain"}
             b == Min(Bad)
  <2>1. SUFFICES ASSUME Bad # {} PROVE FALSE
    OBVIOUS
  <2>2. b \in Bad /\ \A y \in Bad : b <= y
    <3>1. Bad \subseteq Nat
      BY <1>12
    <3> QED
      BY <2>1, <3>1, MinNat
  <2>3. b \in 0 .. n /\ S[f + b] # "plain"
    BY <2>2
  <2>4. S[f + 0] = "plain"
    <3>1. S[f] = "plain"
      BY <1>4, <1>6 DEF Stage, NoBlock
    <3> QED
      BY <1>4, <3>1
  <2> HIDE DEF b
  <2>5. b # 0 /\ b - 1 \in 0 .. n - 1 /\ b - 1 \in 0 .. n /\ ~(b <= b - 1)
        /\ f + (b - 1) + 1 = f + b
    <3>1. b # 0
      BY <2>3, <2>4
    <3> QED
      BY <1>4, <1>12, <2>3, <3>1
  <2>6. S[f + (b - 1)] = "plain"
    BY <2>2, <2>5
  <2>7. S[f + (b - 1) + 1] = "plain"
    BY <1>14, <2>5, <2>6
  <2> QED
    BY <2>3, <2>5, <2>7
<1>16. ASSUME NEW i \in f + 1 .. f + n PROVE IsSymbol(T[i]) /\ T[i].s = DataSymbol(T[i].b)
  <2>1. i - f - 1 \in 0 .. n - 1 /\ i - f - 1 \in 0 .. n /\ f + (i - f - 1) + 1 = i
    BY <1>4, <1>12
  <2>2. S[f + (i - f - 1)] = "plain"
    BY <1>15, <2>1
  <2>3. T[f + (i - f - 1) + 1].b = Plain /\ T[f + (i - f - 1) + 1].s = "D"
    BY <1>14, <2>1, <2>2
  <2>4. T[i].b = Plain /\ T[i].s = "D"
    <3> DEFINE j == f + (i - f - 1) + 1
    <3> HIDE DEF j
    <3>1. j = i /\ T[j].b = Plain /\ T[j].s = "D"
      BY <2>1, <2>3 DEF j
    <3> QED
      BY <3>1
  <2>5. DataSymbol(Plain) = "D"
    BY DEF DataSymbol, Plain, ESC
  <2> QED
    BY <2>4, <2>5 DEF IsSymbol
<1>17. S[f + n] = "plain"
  <2>1. n \in 0 .. n
    BY <1>12
  <2> QED
    BY <1>15, <2>1
<1>18. Stage(S[f + n], out_esc', out_size_mode', out_data_size') /\ out_esc' \in BOOLEAN
  BY <1>1, <1>6, <1>17 DEF Stage, NoBlock, decode, IbufTypes
<1>19. at + n <= buf_size /\ ReturnRun(at + n)
  <2>1. at + n = l /\ l <= buf_size
    BY <1>8, <1>12
  <2> QED
    BY <1>6, <2>1
<1>20. UNCHANGED <<store, scan, messages, closed, peer, scanned>>
  BY <1>6
<1> HIDE DEF at
<1> QED
  BY <1>1, <1>2, <1>12, <1>16, <1>18, <1>19, <1>20, Runs

-----------------------------------------------------------------------------
(* The scan.                                                               *)

Handlings == {"Idle", "Triggered", "Active"}
DecoderT == [esc : BOOLEAN, mode : Nat, data : Nat, failed : BOOLEAN, eof : BOOLEAN, long : BOOLEAN,
             count : Nat, handling : Handlings]

\* The same but for messages.
SameDecoder(d, e) == e.esc = d.esc /\ e.mode = d.mode /\ e.data = d.data

\* A message is triggered while one is counted, and a handler stays active.
Triggers(d, e) ==
  /\ (d.count > 0 <=> d.handling # "Idle") => (e.count > 0 <=> e.handling # "Idle")
  /\ d.handling = "Active" => e.handling = "Active"

\* A long message is the only one but for the end of the stream, and the assertion of
\* that fails only after the end of the stream.
LongLast(d) == (d.long => d.count = 1 + Ready(d.eof)) /\ (d.failed => d.eof)

\* ibuf_new_message counts one message and schedules the handler.
LEMMA NewMessageFacts ==
  ASSUME NEW d \in DecoderT
  PROVE  LET e == NewMessage(d)
         IN  /\ e \in DecoderT /\ SameDecoder(d, e) /\ Triggers(d, e)
             /\ e.eof = d.eof /\ e.long = d.long /\ e.count = d.count + 1 /\ e.failed = d.failed
<1> DEFINE e == NewMessage(d)
<1>1. /\ e \in DecoderT /\ e.esc = d.esc /\ e.mode = d.mode /\ e.data = d.data /\ e.eof = d.eof
      /\ e.failed = d.failed
      /\ e.long = d.long /\ e.count = d.count + 1 /\ e.handling = Trigger(d.handling)
  <2> DEFINE n == d.count + 1
             h == Trigger(d.handling)
             a == [d EXCEPT !.count = n]
  <2>1. n \in Nat /\ h \in Handlings
    BY DEF DecoderT, Trigger, Handlings
  <2>2. e = [a EXCEPT !.handling = h]
    BY DEF NewMessage
  <2> HIDE DEF n, h
  <2>3. /\ a \in DecoderT /\ a.esc = d.esc /\ a.mode = d.mode /\ a.data = d.data
        /\ a.eof = d.eof /\ a.long = d.long /\ a.count = n /\ a.failed = d.failed
    BY <2>1 DEF DecoderT
  <2> HIDE DEF a, e
  <2>4. /\ e \in DecoderT /\ e.esc = a.esc /\ e.mode = a.mode /\ e.data = a.data
        /\ e.eof = a.eof /\ e.long = a.long /\ e.count = a.count /\ e.handling = h
        /\ e.failed = a.failed
    BY <2>1, <2>2, <2>3 DEF DecoderT
  <2> QED
    BY <2>3, <2>4 DEF n, h
<1>2. d.count \in Nat /\ d.handling \in Handlings
  BY DEF DecoderT
<1> HIDE DEF e
<1>3. Triggers(d, e)
  BY <1>1, <1>2 DEF Triggers, Trigger, Handlings
<1> QED
  BY <1>1, <1>3 DEF SameDecoder, e

\* The messages counted but for the extra ones.
Whole(d) == d.count - Ready(d.eof) - Ready(d.long)

\* ibuf_eof counts the end of the stream once, and no message.
LEMMA ScanEofFacts ==
  ASSUME NEW d \in DecoderT
  PROVE  LET e == ScanEof(d)
         IN  /\ e \in DecoderT /\ SameDecoder(d, e) /\ Triggers(d, e) /\ Whole(e) = Whole(d)
             /\ LongLast(d) => LongLast(e)
<1> DEFINE a == [d EXCEPT !.eof = TRUE]
           e == NewMessage(a)
<1>1. CASE d.eof
  BY <1>1 DEF ScanEof, SameDecoder, Triggers
<1>2. CASE ~d.eof
  <2>1. ScanEof(d) = e
    BY <1>2 DEF ScanEof
  <2>2. a \in DecoderT /\ SameDecoder(d, a) /\ a.count = d.count /\ a.handling = d.handling
        /\ a.long = d.long /\ a.eof = TRUE /\ a.failed = d.failed
    BY DEF DecoderT, SameDecoder
  <2> HIDE DEF a
  <2>3. /\ e \in DecoderT /\ SameDecoder(a, e) /\ Triggers(a, e)
        /\ e.eof = a.eof /\ e.long = a.long /\ e.count = a.count + 1 /\ e.failed = a.failed
    BY <2>2, NewMessageFacts
  <2> HIDE DEF e
  <2>4. SameDecoder(d, e) /\ Triggers(d, e)
    BY <2>2, <2>3 DEF SameDecoder, Triggers
  <2>5. Whole(e) = Whole(d)
    <3>1. d.count \in Nat /\ d.long \in BOOLEAN /\ e.long = d.long /\ e.count = d.count + 1 /\ e.eof
      BY <2>2, <2>3 DEF DecoderT
    <3> QED
      BY <1>2, <3>1 DEF Whole, Ready
  <2>6. LongLast(d) => LongLast(e)
    <3>1. d.count \in Nat /\ e.long = d.long /\ e.count = d.count + 1 /\ e.eof = TRUE
      BY <2>2, <2>3 DEF DecoderT
    <3> QED
      BY <1>2, <3>1 DEF LongLast, Ready
  <2> QED
    BY <2>1, <2>3, <2>4, <2>5, <2>6
<1> QED
  BY <1>1, <1>2

\* The byte after ESC.
LEMMA ScanCodeFacts ==
  ASSUME NEW d \in DecoderT, ~d.esc, d.mode = 0, d.data = 0, NEW b \in {0, 1, 2, 3}
  PROVE  LET e == ScanCode(d, b)
         IN  /\ e \in DecoderT /\ Triggers(d, e) /\ Whole(e) = Whole(d) + Ready(b = 1)
             /\ Stage(IF b = 3 THEN "size" ELSE "plain", e.esc, e.mode, e.data)
             /\ LongLast(d) => LongLast(e)
<1> DEFINE e == ScanCode(d, b)
<1>0. d.count \in Nat /\ d.long \in BOOLEAN /\ d.eof \in BOOLEAN /\ Whole(d) \in Int
  BY DEF DecoderT, Whole, Ready
<1>1. CASE b = 0
  <2>1. e = d
    BY <1>1 DEF ScanCode
  <2>2. Whole(d) = Whole(d) + Ready(b = 1)
    BY <1>0, <1>1 DEF Ready
  <2>3. Stage("plain", d.esc, d.mode, d.data) /\ Triggers(d, d)
    BY DEF Stage, Triggers
  <2> QED
    BY <1>1, <2>1, <2>2, <2>3
<1>2. CASE b = 1
  <2>1. CASE d.long
    <3>1. e = EndLong(d)
      BY <1>2, <2>1 DEF ScanCode
    <3>2. /\ e \in DecoderT /\ SameDecoder(d, e) /\ e.count = d.count /\ e.handling = d.handling
          /\ e.eof = d.eof /\ e.long = FALSE /\ e.failed = (d.failed \/ d.count # 1)
      <4> DEFINE a == [d EXCEPT !.long = FALSE]
                 z == (d.failed \/ d.count # 1)
      <4>1. e = [a EXCEPT !.failed = z] /\ z \in BOOLEAN
        BY <3>1 DEF EndLong
      <4>2. /\ a \in DecoderT /\ SameDecoder(d, a) /\ a.count = d.count
            /\ a.handling = d.handling /\ a.eof = d.eof /\ a.long = FALSE
        BY DEF DecoderT, SameDecoder
      <4> HIDE DEF a, z, e
      <4>3. /\ e \in DecoderT /\ SameDecoder(a, e) /\ e.count = a.count /\ e.handling = a.handling
            /\ e.eof = a.eof /\ e.long = a.long /\ e.failed = z
        BY <4>1, <4>2 DEF DecoderT, SameDecoder
      <4> QED
        BY <4>2, <4>3 DEF SameDecoder, z
    <3> HIDE DEF e
    <3>4. LongLast(d) => LongLast(e)
      BY <1>0, <2>1, <3>2 DEF LongLast, Ready
    <3>3. Whole(e) = Whole(d) + 1
      BY <1>0, <2>1, <3>2 DEF Whole, Ready
    <3> QED
      BY <1>2, <3>2, <3>3, <3>4 DEF Triggers, SameDecoder, Stage, Ready, e
  <2>2. CASE ~d.long
    <3>1. e = NewMessage(d)
      BY <1>2, <2>2 DEF ScanCode
    <3>2. /\ e \in DecoderT /\ SameDecoder(d, e) /\ Triggers(d, e)
          /\ e.eof = d.eof /\ e.long = d.long /\ e.count = d.count + 1 /\ e.failed = d.failed
      BY <3>1, NewMessageFacts
    <3> HIDE DEF e
    <3>4. LongLast(d) => LongLast(e)
      BY <2>2, <3>2 DEF LongLast
    <3>3. Whole(e) = Whole(d) + 1
      BY <1>0, <3>2 DEF Whole, Ready
    <3> QED
      BY <1>2, <3>2, <3>3, <3>4 DEF SameDecoder, Stage, Ready, e
  <2> QED
    BY <2>1, <2>2
<1>3. CASE b = 2
  <2>1. e = ScanEof(d)
    BY <1>3 DEF ScanCode
  <2>2. /\ e \in DecoderT /\ SameDecoder(d, e) /\ Triggers(d, e) /\ Whole(e) = Whole(d)
        /\ LongLast(d) => LongLast(e)
    BY <2>1, ScanEofFacts
  <2> HIDE DEF e
  <2>3. Whole(e) = Whole(d) + Ready(b = 1)
    BY <1>0, <1>3, <2>2 DEF Ready
  <2> QED
    BY <1>3, <2>2, <2>3 DEF SameDecoder, Stage, e
<1>4. CASE b = 3
  <2>1. e = [d EXCEPT !.mode = 1, !.data = 0]
    BY <1>4 DEF ScanCode
  <2>2. /\ e \in DecoderT /\ e.mode = 1 /\ e.data = 0 /\ e.esc = d.esc
        /\ e.count = d.count /\ e.handling = d.handling /\ e.eof = d.eof /\ e.long = d.long
        /\ e.failed = d.failed
    <3> DEFINE a == [d EXCEPT !.mode = 1]
    <3>1. e = [a EXCEPT !.data = 0]
      BY <2>1
    <3>2. /\ a \in DecoderT /\ a.mode = 1 /\ a.esc = d.esc
          /\ a.count = d.count /\ a.handling = d.handling /\ a.eof = d.eof /\ a.long = d.long
          /\ a.failed = d.failed
      BY DEF DecoderT
    <3> HIDE DEF a, e
    <3> QED
      BY <3>1, <3>2 DEF DecoderT
  <2> HIDE DEF e
  <2>3. Whole(e) = Whole(d) /\ Whole(d) = Whole(d) + Ready(b = 1)
    BY <1>0, <1>4, <2>2 DEF Ready, Whole
  <2> QED
    BY <1>4, <2>2, <2>3 DEF Stage, Triggers, LongLast, e
<1> QED
  BY <1>1, <1>2, <1>3, <1>4

\* One byte of the scan.
LEMMA ScanByteFacts ==
  ASSUME NEW d \in DecoderT, NEW w, NEW x, NEW y, Leads(x, w, y),
         Stage(x, d.esc, d.mode, d.data)
  PROVE  LET e == ScanByte(d, w)
         IN  /\ e \in DecoderT /\ Triggers(d, e) /\ Whole(e) = Whole(d) + Ready(w.s = "EOM")
             /\ Stage(y, e.esc, e.mode, e.data) /\ (LongLast(d) => LongLast(e))
<1> DEFINE e == ScanByte(d, w)
<1>1. d.count \in Nat /\ d.long \in BOOLEAN /\ d.eof \in BOOLEAN /\ Whole(d) \in Int
  BY DEF DecoderT, Whole, Ready
\* A byte that changes only what the decoder is at.
<1>2. ASSUME e \in DecoderT, e.count = d.count, e.long = d.long, e.eof = d.eof,
             e.handling = d.handling, e.failed = d.failed, w.s # "EOM"
      PROVE  /\ Triggers(d, e) /\ Whole(e) = Whole(d) + Ready(w.s = "EOM")
             /\ LongLast(d) => LongLast(e)
  <2> HIDE DEF e
  <2>1. Triggers(d, e) /\ Whole(e) = Whole(d) /\ (LongLast(d) => LongLast(e))
    BY <1>2 DEF Triggers, Whole, LongLast
  <2> QED
    BY <1>1, <1>2, <2>1 DEF Ready
<1>3. CASE x = "plain"
  <2>1. ~d.esc /\ d.mode = 0 /\ d.data = 0
    BY <1>3 DEF Stage
  <2>2. /\ w.s \in {"D", "none"} /\ (w.b = ESC => y = "esc") /\ (w.b # ESC => y = "plain")
    BY <1>3 DEF Leads, ESC, Plain
  <2>3. e = [d EXCEPT !.esc = (w.b = ESC)]
    BY <2>1 DEF ScanByte
  <2> DEFINE z == (w.b = ESC)
  <2>4. z \in BOOLEAN /\ e = [d EXCEPT !.esc = z]
    BY <2>3
  <2>5. (z => y = "esc") /\ (~z => y = "plain")
    BY <2>2
  <2> HIDE DEF z
  <2>6. /\ e \in DecoderT /\ e.esc = z /\ e.mode = d.mode /\ e.data = d.data
        /\ e.count = d.count /\ e.long = d.long /\ e.eof = d.eof /\ e.handling = d.handling
        /\ e.failed = d.failed
    BY <2>4 DEF DecoderT
  <2>7. Triggers(d, e) /\ Whole(e) = Whole(d) + Ready(w.s = "EOM") /\ (LongLast(d) => LongLast(e))
    BY <1>2, <2>2, <2>6
  <2> HIDE DEF e
  <2>8. Stage(y, e.esc, e.mode, e.data)
    BY <2>1, <2>4, <2>5, <2>6 DEF Stage
  <2> QED
    BY <2>6, <2>7, <2>8 DEF e
<1>4. CASE x = "esc"
  <2> DEFINE a == [d EXCEPT !.esc = FALSE]
  <2>1. d.esc /\ d.mode = 0 /\ d.data = 0
    BY <1>4 DEF Stage
  <2>2. w.b \in {0, 1, 2, 3} /\ y = (IF w.b = 3 THEN "size" ELSE "plain") /\ (w.s = "EOM" <=> w.b = 1)
    BY <1>4 DEF Leads
  <2>3. e = ScanCode(a, w.b)
    BY <2>1 DEF ScanByte
  <2>4. /\ a \in DecoderT /\ a.esc = FALSE /\ a.mode = 0 /\ a.data = 0
        /\ a.count = d.count /\ a.long = d.long /\ a.eof = d.eof /\ a.handling = d.handling
        /\ a.failed = d.failed
    BY <2>1 DEF DecoderT
  <2> HIDE DEF a, e
  <2>5. /\ e \in DecoderT /\ Triggers(a, e) /\ Whole(e) = Whole(a) + Ready(w.b = 1)
        /\ Stage(IF w.b = 3 THEN "size" ELSE "plain", e.esc, e.mode, e.data)
        /\ LongLast(a) => LongLast(e)
    BY <2>2, <2>3, <2>4, ScanCodeFacts
  <2>6. Triggers(d, e) /\ Whole(a) = Whole(d) /\ (LongLast(d) => LongLast(a))
    BY <2>4, <2>5 DEF Triggers, Whole, LongLast
  <2>7. Ready(w.b = 1) = Ready(w.s = "EOM")
    BY <2>2 DEF Ready
  <2> QED
    BY <2>2, <2>5, <2>6, <2>7 DEF e
<1>5. CASE x \in {"size", "more1", "more2"}
  <2> DEFINE m == IF w.b >= 128 THEN d.mode + 1 ELSE 0
             n == d.data + (w.b % 128) * 128^(d.mode - 1)
             a == [d EXCEPT !.data = n]
  <2>1. w.s = "none" /\ d.mode > 0 /\ ~d.esc
    BY <1>5 DEF Leads, Stage
  <2>2. e = [a EXCEPT !.mode = m]
    BY <2>1 DEF ScanByte
  <2>3. m \in Nat /\ n \in Nat /\ Stage(y, d.esc, m, n)
    <3>1. CASE x = "size"
      <4>1. ~d.esc /\ d.mode = 1 /\ d.data = 0
        BY <3>1 DEF Stage
      <4>2. 128^(1 - 1) = 1 /\ 129 % 128 = 1 /\ 130 % 128 = 2 /\ 129 >= 128 /\ 130 >= 128
        BY SMT
      <4>3. \/ w.b = 129 /\ y = "more1"
            \/ w.b = 130 /\ y = "more2"
        BY <3>1 DEF Leads
      <4>4. m = 2 /\ n = IF w.b = 129 THEN 1 ELSE 2
        BY <4>1, <4>2, <4>3
      <4> QED
        BY <4>1, <4>3, <4>4 DEF Stage
    <3>2. CASE x = "more1" \/ x = "more2"
      <4>1. ~d.esc /\ d.mode = 2 /\ d.data = IF x = "more1" THEN 1 ELSE 2
        BY <3>2 DEF Stage
      <4>2. 128^(2 - 1) = 128 /\ 0 % 128 = 0 /\ ~(0 >= 128)
        BY SMT
      <4>3. w.b = 0 /\ y = IF x = "more1" THEN "left1" ELSE "left2"
        BY <3>2 DEF Leads
      <4>4. m = 0 /\ n = d.data
        BY <4>1, <4>2, <4>3
      <4> QED
        BY <3>2, <4>1, <4>3, <4>4 DEF Stage
    <3> QED
      BY <1>5, <3>1, <3>2
  <2> HIDE DEF m, n
  <2>4. /\ a \in DecoderT /\ a.esc = d.esc /\ a.data = n
        /\ a.count = d.count /\ a.long = d.long /\ a.eof = d.eof /\ a.handling = d.handling
        /\ a.failed = d.failed
    BY <2>3 DEF DecoderT
  <2> HIDE DEF a
  <2>5. /\ e \in DecoderT /\ e.esc = d.esc /\ e.data = n /\ e.mode = m
        /\ e.count = d.count /\ e.long = d.long /\ e.eof = d.eof /\ e.handling = d.handling
        /\ e.failed = d.failed
    BY <2>2, <2>3, <2>4 DEF DecoderT
  <2>6. Triggers(d, e) /\ Whole(e) = Whole(d) + Ready(w.s = "EOM") /\ (LongLast(d) => LongLast(e))
    BY <1>2, <2>1, <2>5
  <2> HIDE DEF e
  <2> QED
    BY <2>3, <2>5, <2>6 DEF e
<1>6. CASE x \in {"left1", "left2"}
  <2>1. ~d.esc /\ d.mode = 0 /\ d.data \in {1, 2} /\ (d.data = 1 <=> x = "left1")
    BY <1>6 DEF Stage
  <2>2. w.s \in {"E", "C"} /\ (x = "left1" => y = "plain") /\ (x = "left2" => y = "left1")
    BY <1>6 DEF Leads
  <2> DEFINE n == d.data - 1
  <2>3. e = [d EXCEPT !.data = n]
    BY <2>1 DEF ScanByte
  <2>4. n \in Nat /\ (x = "left1" => n = 0) /\ (x = "left2" => n = 1)
    BY <1>6, <2>1
  <2> HIDE DEF n
  <2>5. /\ e \in DecoderT /\ e.esc = d.esc /\ e.data = n /\ e.mode = d.mode
        /\ e.count = d.count /\ e.long = d.long /\ e.eof = d.eof /\ e.handling = d.handling
        /\ e.failed = d.failed
    BY <2>3, <2>4 DEF DecoderT
  <2>6. Triggers(d, e) /\ Whole(e) = Whole(d) + Ready(w.s = "EOM") /\ (LongLast(d) => LongLast(e))
    BY <1>2, <2>2, <2>5
  <2> HIDE DEF e
  <2>7. Stage(y, e.esc, e.mode, e.data)
    BY <1>6, <2>1, <2>2, <2>4, <2>5 DEF Stage
  <2> QED
    BY <2>5, <2>6, <2>7 DEF e
<1>7. x \in {"plain", "esc", "size", "more1", "more2", "left1", "left2"}
  BY DEF Stage
<1> HIDE DEF e
<1> QED
  BY <1>3, <1>4, <1>5, <1>6, <1>7 DEF e

\* What the scan of i bytes, after the first p.k, makes of the decoder b.
ScanStep(p, x, w) == ScanByte(x, w)
ScannedTo(p, i, b, x) ==
  /\ x \in DecoderT /\ Triggers(b, x) /\ Stage(p.S[p.k + i], x.esc, x.mode, x.data)
  /\ Whole(x) = Cardinality(Eoms(p.q, p.a, p.N[p.k + i])) /\ (LongLast(b) => LongLast(x))

Scanning == INSTANCE ProofLemmas WITH Op <- ScanStep, Rel <- ScannedTo

\* The bytes are the ones after the first k.
Follow(bytes, T, k) ==
  k + Len(bytes) <= Len(T) /\ \A i \in 1 .. Len(bytes) : bytes[i] = T[k + i]

\* The fold of Scan.
Scanned(d, bytes) == FoldLeft(ScanByte, d, bytes)

\* The scan takes the decoder along the text, and counts the messages that end there.
LEMMA ScanFacts ==
  ASSUME NEW T, NEW S, NEW N, NEW q, Traced(T, S, N, q), NEW k \in Nat,
         NEW bytes \in Seq(ByteT), Follow(bytes, T, k),
         NEW d \in DecoderT, Stage(S[k], d.esc, d.mode, d.data), NEW a \in Nat, a <= N[k],
         Whole(d) = Cardinality(Eoms(q, a, N[k]))
  PROVE  LET e == Scanned(d, bytes)
         IN  /\ e \in DecoderT /\ Triggers(d, e)
             /\ Stage(S[k + Len(bytes)], e.esc, e.mode, e.data)
             /\ Whole(e) = Cardinality(Eoms(q, a, N[k + Len(bytes)]))
             /\ LongLast(d) => LongLast(e)
<1> DEFINE p == [S |-> S, N |-> N, k |-> k, q |-> q, a |-> a]
           v == Scanning!Fold(p, d, bytes)
<1>1. Scanned(d, bytes) = v
  BY Zenon DEF Scanned, ScanStep, Scanning!Fold, FoldLeft, Scanning!FoldLeft, MapThenFoldSet,
               Scanning!MapThenFoldSet, Max, Scanning!Max
<1>2. p.S = S /\ p.N = N /\ p.k = k /\ p.q = q /\ p.a = a
  OBVIOUS
<1> HIDE DEF p
<1>3. ScannedTo(p, 0, d, d)
  <2>1. k + 0 = k
    OBVIOUS
  <2> QED
    BY <1>2, <2>1 DEF ScannedTo, Triggers
<1>4. ASSUME NEW i \in 1 .. Len(bytes), NEW x, ScannedTo(p, i - 1, d, x)
      PROVE  ScannedTo(p, i, d, ScanStep(p, x, bytes[i]))
  <2> DEFINE j == k + (i - 1)
             e == ScanByte(x, bytes[i])
  <2>1. Len(bytes) \in Nat /\ Len(T) \in Nat /\ k + Len(bytes) <= Len(T)
    BY LenProperties DEF Traced, Follow
  <2>2. j \in Nat /\ j < Len(T) /\ j + 1 = k + i /\ k <= j
    BY <2>1
  <2> HIDE DEF j, e
  <2>3. bytes[i] = T[j + 1]
    BY <2>2 DEF Follow
  <2>4. /\ x \in DecoderT /\ Triggers(d, x) /\ Stage(S[j], x.esc, x.mode, x.data)
        /\ Whole(x) = Cardinality(Eoms(q, a, N[j])) /\ (LongLast(d) => LongLast(x))
    BY <1>2, <1>4 DEF ScannedTo, j
  <2>5. /\ Leads(S[j], T[j + 1], S[j + 1])
        /\ IsSymbol(T[j + 1]) => N[j + 1] = N[j] + 1 /\ q[N[j] + 1] = T[j + 1].s
        /\ ~IsSymbol(T[j + 1]) => N[j + 1] = N[j]
    BY <2>2, NextByte
  <2>6. /\ e \in DecoderT /\ Triggers(x, e) /\ Whole(e) = Whole(x) + Ready(T[j + 1].s = "EOM")
        /\ Stage(S[j + 1], e.esc, e.mode, e.data) /\ (LongLast(x) => LongLast(e))
    BY <2>3, <2>4, <2>5, ScanByteFacts DEF e
  <2>7. Triggers(d, e) /\ (LongLast(d) => LongLast(e))
    BY <2>4, <2>6 DEF Triggers
  <2>8. Whole(e) = Cardinality(Eoms(q, a, N[j + 1]))
    <3>1. N[j] \in Nat /\ N[k] <= N[j] /\ N[k] \in Nat
      <4>1. j <= Len(T)
        BY <2>1, <2>2
      <4> QED
        BY <2>2, <4>1, CountsOrdered
    <3>2. a <= N[j]
      BY <3>1
    <3>3. Cardinality(Eoms(q, a, N[j])) \in Nat
      BY <3>1, EomsFinite
    <3>4. CASE IsSymbol(T[j + 1])
      <4>1. Cardinality(Eoms(q, a, N[j] + 1)) = Cardinality(Eoms(q, a, N[j])) + Ready(q[N[j] + 1] = "EOM")
        BY <3>1, <3>2, EomsMore
      <4> QED
        BY <2>4, <2>5, <2>6, <3>4, <4>1
    <3>5. CASE ~IsSymbol(T[j + 1])
      <4>1. Ready(T[j + 1].s = "EOM") = 0
        BY <3>5 DEF IsSymbol, Ready
      <4> QED
        BY <2>4, <2>5, <2>6, <3>3, <3>5, <4>1
    <3> QED
      BY <3>4, <3>5
  <2>9. ScannedTo(p, i, d, e)
    BY <1>2, <2>2, <2>6, <2>7, <2>8 DEF ScannedTo
  <2> QED
    BY <2>9 DEF ScanStep, e
<1>5. ScannedTo(p, Len(bytes), d, v)
  BY <1>3, <1>4, Scanning!FoldKeeps
<1> HIDE DEF v
<1> QED
  BY <1>1, <1>2, <1>5 DEF ScannedTo

\* The symbols that the next i bytes complete.
SymbolsIn(T, k, i) == {j \in 1 .. i : IsSymbol(T[k + j])}

\* The count of symbols grows by the symbols that the bytes in between complete.
LEMMA SymbolsCounted ==
  ASSUME NEW T, NEW S, NEW N, NEW q, Traced(T, S, N, q), NEW k \in Nat, NEW n \in Nat,
         k + n <= Len(T)
  PROVE  N[k + n] = N[k] + Cardinality(SymbolsIn(T, k, n))
<1> DEFINE Bad == {i \in 0 .. n : N[k + i] # N[k] + Cardinality(SymbolsIn(T, k, i))}
           b == Min(Bad)
<1>1. Len(T) \in Nat
  BY LenProperties DEF Traced
<1>2. ASSUME NEW i \in 0 .. n PROVE N[k + i] \in Nat /\ k + i \in Nat /\ k + i <= Len(T)
  <2>1. k + i \in Nat /\ k + i <= Len(T)
    BY <1>1
  <2> QED
    BY <2>1, CountsOrdered
<1>3. N[k] \in Nat /\ SymbolsIn(T, k, 0) = {} /\ k + 0 = k
  <2>1. k + 0 = k /\ 0 \in 0 .. n
    OBVIOUS
  <2>2. N[k] \in Nat
    BY <1>2, <2>1
  <2> QED
    BY <2>1, <2>2 DEF SymbolsIn
<1>4. Bad = {}
  <2>1. SUFFICES ASSUME Bad # {} PROVE FALSE
    OBVIOUS
  <2>2. b \in Bad /\ \A y \in Bad : b <= y
    <3>1. Bad \subseteq Nat
      OBVIOUS
    <3> QED
      BY <2>1, <3>1, MinNat
  <2>3. b \in 0 .. n /\ N[k + b] # N[k] + Cardinality(SymbolsIn(T, k, b))
    BY <2>2
  <2> HIDE DEF b
  <2>4. b # 0
    <3>1. Cardinality(SymbolsIn(T, k, 0)) = 0 /\ N[k] + 0 = N[k]
      BY <1>3, FS_EmptySet
    <3> QED
      BY <1>3, <2>3, <3>1
  <2> DEFINE i == b - 1
  <2>5. i \in Nat /\ i \in 0 .. n /\ ~(b <= i) /\ b = i + 1 /\ k + i + 1 = k + b
        /\ k + i \in Nat /\ k + i < Len(T)
    BY <1>1, <2>3, <2>4
  <2> HIDE DEF i
  <2>6. N[k + i] = N[k] + Cardinality(SymbolsIn(T, k, i)) /\ N[k + i] \in Nat
    <3>1. i \notin Bad
      BY <2>2, <2>5
    <3> QED
      BY <1>2, <2>5, <3>1
  <2>7. /\ IsSymbol(T[k + b]) => N[k + b] = N[k + i] + 1
        /\ ~IsSymbol(T[k + b]) => N[k + b] = N[k + i]
    <3>1. /\ IsSymbol(T[k + i + 1]) => N[k + i + 1] = N[k + i] + 1
          /\ ~IsSymbol(T[k + i + 1]) => N[k + i + 1] = N[k + i]
      BY <2>5, NextByte
    <3> QED
      BY <2>5, <3>1
  <2>8. IsFiniteSet(SymbolsIn(T, k, i)) /\ Cardinality(SymbolsIn(T, k, i)) \in Nat
    <3>1. IsFiniteSet(1 .. i)
      BY <2>5, FS_Interval
    <3>2. IsFiniteSet(SymbolsIn(T, k, i))
      BY <3>1, FS_Subset DEF SymbolsIn
    <3> QED
      BY <3>2, FS_CardinalityType
  <2>9. /\ b \notin SymbolsIn(T, k, i)
        /\ \A j : j \in 1 .. b <=> j \in 1 .. i \/ j = b
    BY <2>5 DEF SymbolsIn
  <2>10. CASE IsSymbol(T[k + b])
    <3>1. SymbolsIn(T, k, b) = SymbolsIn(T, k, i) \cup {b}
      BY <2>9, <2>10 DEF SymbolsIn
    <3>2. Cardinality(SymbolsIn(T, k, b)) = Cardinality(SymbolsIn(T, k, i)) + 1
      BY <2>8, <2>9, <3>1, FS_AddElement
    <3>3. N[k + b] = N[k] + Cardinality(SymbolsIn(T, k, i)) + 1
      BY <2>6, <2>7, <2>10
    <3>4. N[k] + Cardinality(SymbolsIn(T, k, i)) + 1 = N[k] + (Cardinality(SymbolsIn(T, k, i)) + 1)
      BY <1>3, <2>8
    <3> QED
      BY <2>3, <3>2, <3>3, <3>4
  <2>11. CASE ~IsSymbol(T[k + b])
    <3>1. SymbolsIn(T, k, b) = SymbolsIn(T, k, i)
      BY <2>9, <2>11 DEF SymbolsIn
    <3> QED
      BY <2>3, <2>6, <2>7, <2>11, <3>1
  <2> QED
    BY <2>10, <2>11
<1>5. n \in 0 .. n
  OBVIOUS
<1> QED
  BY <1>4, <1>5

\* n bytes are written after the d that are there: no byte that is needed is
\* overwritten.
LEMMA Filled ==
  ASSUME NEW z \in Nat, z > 1, NEW c \in 0 .. z, NEW d \in Nat, NEW n \in Nat, d + n < z,
         NEW i, i = Where(c, d, z), i + n <= z
  PROVE  /\ i \in Nat /\ (i + n) % z = Where(c, d + n, z)
         /\ \A e \in Nat : e < n => Where(c, d + e, z) = i + e
         /\ \A e \in Nat : e < d => Where(c, e, z) < i \/ Where(c, e, z) >= i + n
<1>1. i \in Nat /\ i + n \in Nat
  BY DEF Where
<1>2. (i + n) % z = IF i + n = z THEN 0 ELSE i + n
  <2> DEFINE m == i + n
  <2>1. m \in Nat /\ m <= z
    BY <1>1
  <2> HIDE DEF m
  <2>2. m % z = IF m = z THEN 0 ELSE m
    BY <2>1
  <2> QED
    BY <2>2 DEF m
<1>3. Where(c, d + n, z) = IF i + n = z THEN 0 ELSE i + n
  BY DEF Where
<1>4. \A e \in Nat : e < n => Where(c, d + e, z) = i + e
  BY DEF Where
<1>5. \A e \in Nat : e < d => Where(c, e, z) < i \/ Where(c, e, z) >= i + n
  BY DEF Where
<1> QED
  BY <1>1, <1>2, <1>3, <1>4, <1>5

\* The bytes that are read are in the buffer with the others.
LEMMA StoredMore ==
  ASSUME NEW T, NEW o \in Nat, NEW k \in Nat, o <= k, NEW b, NEW z \in Nat, z > 1, NEW c,
         NEW i, StoredAt(T, o, k, b, z, c, i), DOMAIN b = 0 .. z - 1, NEW n \in Nat,
         i + n <= z, k - o + n < z, NEW w, \A j \in 1 .. n : w[j] = T[k + j], NEW v,
         v = [x \in DOMAIN b |-> IF x >= i /\ x < i + n THEN w[x - i + 1].b ELSE b[x]]
  PROVE  StoredAt(T, o, k + n, v, z, c, (i + n) % z)
<1> DEFINE d == k - o
<1>1. /\ d \in Nat /\ d + n < z /\ (k + n) - o = d + n /\ c \in 0 .. z /\ i = Where(c, d, z)
      /\ \A j \in 1 .. d : b[Where(c, j - 1, z)] = T[o + j].b
  BY DEF StoredAt
<1>2. o + d = k
  OBVIOUS
<1> HIDE DEF d
<1>3. /\ i \in Nat /\ (i + n) % z = Where(c, d + n, z)
      /\ \A e \in Nat : e < n => Where(c, d + e, z) = i + e
      /\ \A e \in Nat : e < d => Where(c, e, z) < i \/ Where(c, e, z) >= i + n
  BY <1>1, Filled
<1>4. ASSUME NEW j \in 1 .. d + n PROVE v[Where(c, j - 1, z)] = T[o + j].b
  <2>1. j - 1 \in Nat /\ j - 1 < z
    BY <1>1
  <2>2. Where(c, j - 1, z) \in 0 .. z - 1
    BY <1>1, <2>1, WhereFacts
  <2>3. CASE j <= d
    <3>1. j - 1 < d /\ j \in 1 .. d
      BY <1>1, <2>3
    <3>2. Where(c, j - 1, z) < i \/ Where(c, j - 1, z) >= i + n
      BY <1>3, <2>1, <3>1
    <3> DEFINE x == Where(c, j - 1, z)
    <3> HIDE DEF x
    <3>3. x \in 0 .. z - 1 /\ (x < i \/ x >= i + n) /\ b[x] = T[o + j].b
      BY <1>1, <2>2, <3>1, <3>2 DEF x
    <3>4. ~(x >= i /\ x < i + n)
      <4>1. x \in Int /\ i \in Int /\ i + n \in Int /\ (x < i \/ x >= i + n)
        BY <1>3, <3>3
      <4>2. \A y, s, u \in Int : y < s \/ y >= u => ~(y >= s /\ y < u)
        OBVIOUS
      <4> QED
        BY <4>1, <4>2
    <3>5. v[x] = b[x]
      BY <3>3, <3>4
    <3> QED
      BY <3>3, <3>5 DEF x
  <2>4. CASE ~(j <= d)
    <3> DEFINE e == j - 1 - d
               x == i + e
    <3>1. e \in Nat /\ e < n /\ d + e = j - 1 /\ e + 1 \in 1 .. n /\ k + (e + 1) = o + j
      BY <1>1, <1>2, <2>4
    <3> HIDE DEF e
    <3>2. Where(c, j - 1, z) = x
      <4>1. Where(c, d + e, z) = x
        BY <1>3, <3>1
      <4> QED
        BY <3>1, <4>1
    <3>3. x >= i /\ x < i + n /\ x - i + 1 = e + 1 /\ x \in 0 .. z - 1
      BY <1>3, <3>1
    <3> HIDE DEF x
    <3>4. v[x] = w[x - i + 1].b
      BY <3>3
    <3> QED
      BY <3>1, <3>2, <3>3, <3>4
  <2> QED
    BY <2>3, <2>4
<1> QED
  BY <1>1, <1>3, <1>4 DEF StoredAt

\* The buffer is enlarged when it is full.
LEMMA Enlarged ==
  ASSUME NEW T, NEW o \in Nat, NEW k \in Nat, o <= k, NEW b, NEW z \in Nat, z > 1,
         NEW c \in 0 .. z - 1, NEW i, StoredAt(T, o, k, b, z, c, i), FreeSize(c, i, z) = 0
  PROVE  /\ StoredAt(T, o, k, Unroll(b, c, z), 2 * z, 0, z - 1)
         /\ DOMAIN Unroll(b, c, z) = 0 .. 2 * z - 1
<1> DEFINE d == k - o
           v == Unroll(b, c, z)
<1>1. /\ d \in Nat /\ d < z /\ i = Where(c, d, z) /\ \A j \in 1 .. d : b[Where(c, j - 1, z)] = T[o + j].b
  BY DEF StoredAt
<1>2. d = z - 1
  <2> HIDE DEF d
  <2> QED
    BY <1>1, FreeRoom
<1>3. z - 1 = Where(0, d, 2 * z) /\ d < 2 * z /\ 0 \in 0 .. 2 * z
  BY <1>2 DEF Where
<1> HIDE DEF d
<1>4. v = [x \in 0 .. 2 * z - 1 |->
            IF x < z - c THEN b[c + x] ELSE IF x < z THEN b[x - (z - c)] ELSE 0]
  BY DEF Unroll
<1> HIDE DEF v
<1>5. ASSUME NEW j \in 1 .. d PROVE v[Where(0, j - 1, 2 * z)] = T[o + j].b
  <2> DEFINE x == j - 1
  <2>1. x \in Nat /\ x < z /\ x \in 0 .. 2 * z - 1 /\ Where(0, x, 2 * z) = x
    BY <1>2 DEF Where
  <2>2. b[Where(c, x, z)] = T[o + j].b
    BY <1>1
  <2> HIDE DEF x
  <2>3. x < z - c => Where(c, x, z) = c + x
    BY <2>1 DEF Where
  <2>4. ~(x < z - c) => Where(c, x, z) = x - (z - c)
    BY <2>1 DEF Where
  <2>5. v[x] = b[Where(c, x, z)]
    BY <1>4, <2>1, <2>3, <2>4
  <2> QED
    BY <2>1, <2>2, <2>5 DEF x
<1>6. DOMAIN v = 0 .. 2 * z - 1
  BY <1>4
<1> QED
  BY <1>3, <1>5, <1>6 DEF StoredAt, d, v

\* The stream, at g up to x, is set to c up to e: the reset of ibuf_free_size.
Resets(g, x, z, stop, c, e) ==
  c = (IF stop THEN g ELSE Rewind(g, z)) /\ e = (IF c = g THEN x ELSE 0)

\* c and e are inside the buffer, and as far apart as g and x.
SameWindow(g, x, z, stop, c, e) ==
  /\ c \in 0 .. z /\ (stop \/ c \in 0 .. z - 1) /\ e \in Int
  /\ (g < x => x <= z) => (c < e <=> g < x) /\ (c < e => e - c = x - g /\ e <= z)

\* The stream is rewound at the end of the buffer.
LEMMA Rewound ==
  ASSUME NEW T, NEW o \in Nat, NEW k \in Nat, o <= k, NEW b, NEW z \in Nat, z > 1, NEW g, NEW i,
         StoredAt(T, o, k, b, z, g, i), NEW stop \in BOOLEAN, NEW x \in Int, NEW c, NEW e,
         Resets(g, x, z, stop, c, e)
  PROVE  StoredAt(T, o, k, b, z, c, i) /\ SameWindow(g, x, z, stop, c, e)
<1>1. g \in 0 .. z
  BY DEF StoredAt
<1>2. /\ c \in 0 .. z /\ (stop \/ c \in 0 .. z - 1) /\ e \in Int
      /\ \/ c = g /\ e = x
         \/ g = z /\ c = 0 /\ e = 0
  <2>1. CASE stop
    BY <1>1, <2>1 DEF Resets
  <2>2. CASE ~stop /\ g # z
    <3>1. c = g /\ e = x
      BY <2>2 DEF Rewind, Resets
    <3> QED
      BY <1>1, <2>2, <3>1
  <2>3. CASE ~stop /\ g = z
    <3>1. c = 0 /\ c # g
      BY <2>3 DEF Rewind, Resets
    <3>2. e = 0
      BY <3>1 DEF Resets
    <3> QED
      BY <2>3, <3>1, <3>2
  <2> QED
    BY <2>1, <2>2, <2>3
<1>3. StoredAt(T, o, k, b, z, c, i)
  <2>1. \A y \in Nat : 0 + y < z => Where(c, y, z) = Where(g, 0 + y, z)
    BY <1>1, <1>2 DEF Where
  <2>2. 0 \in Nat /\ o + 0 <= k /\ o + 0 = o
    OBVIOUS
  <2>3. StoredAt(T, o + 0, k, b, z, c, i)
    BY <1>2, <2>1, <2>2, StoredOn
  <2> QED
    BY <2>2, <2>3
<1>4. (g < x => x <= z) => (c < e <=> g < x) /\ (c < e => e - c = x - g /\ e <= z)
  BY <1>1, <1>2
<1> QED
  BY <1>2, <1>3, <1>4 DEF SameWindow

\* Bytes arrive.
LEMMA ReadDoneKeeps ==
  ASSUME IbufInv, NEW n, ReadDone(n)
  PROVE  IbufInv'
<1>a. PICK d, b, i, c, e :
        /\ d = Scan(SubSeq(wire, 1, n))
        /\ b = [x \in DOMAIN buf |->
                  IF x >= inp /\ x < inp + n THEN wire[x - inp + 1].b ELSE buf[x]]
        /\ i = Advance(inp, n)
        /\ c = (IF d.eof THEN cur ELSE Rewind(cur, buf_size))
        /\ e = (IF c = cur THEN end ELSE 0)
  OBVIOUS
<1> DEFINE full == ~d.eof /\ FreeSize(c, i, buf_size) = 0
           grow == full /\ buf_size < MaxBufSize
           stuck == full /\ ~grow /\ d.count = 0
<1>1. /\ read_size > 0 /\ ~closed /\ Dispatchable /\ n \in 1 .. Min({read_size, Len(wire)})
      /\ UNCHANGED <<decode, closed, shut, sent, received>>
      /\ wire' = SubSeq(wire, n + 1, Len(wire))
      /\ call' = CASE call = "read_wait" -> "read" [] call = "peek_wait" -> "peek"
                   [] OTHER -> call
      /\ out' = (IF Waiting THEN cur' ELSE out)
      /\ scanned' = scanned + Cardinality({j \in 1 .. n : IsSymbol(wire[j])})
      /\ inp_esc' = d.esc /\ inp_size_mode' = d.mode /\ inp_data_size' = d.data /\ eof' = d.eof
      /\ assert_failed' = d.failed
      /\ long_msg' = (d.long \/ stuck)
      /\ message_count' = (IF stuck THEN 1 ELSE d.count)
      /\ handling_msg' = (IF stuck THEN Trigger(d.handling) ELSE d.handling)
      /\ grow => /\ buf' = Unroll(b, c, buf_size) /\ buf_size' = 2 * buf_size
                 /\ inp' = buf_size - 1 /\ cur' = 0 /\ end' = e - c
      /\ ~grow => buf' = b /\ buf_size' = buf_size /\ inp' = i /\ cur' = c /\ end' = e
      /\ read_size' = TriggerRead(cur', inp', buf_size', d.eof, 0)
  BY <1>a DEF ReadDone
<1> HIDE DEF full, grow, stuck
<1>2. Open /\ IbufTypes /\ Messages /\ Got
  BY <1>1 DEF IbufInv, Open
<1>3. PICK T, S, N, o, f, k : Positions(T, S, N, o, f, k)
  BY <1>2 DEF Open
<1>4. /\ Traced(T, S, N, sent) /\ S[Len(T)] = "plain" /\ o \in Nat /\ f \in Nat /\ k \in Nat
      /\ o <= f /\ f <= k /\ k <= Len(T) /\ Len(T) \in Nat
      /\ wire \in Seq(ByteT) /\ Len(wire) = Len(T) - k /\ Len(wire) \in Nat
      /\ \A j \in 1 .. Len(wire) : wire[j] = T[k + j]
      /\ scanned = N[k] /\ Len(received) = N[o]
      /\ StoredAt(T, o, k, buf, buf_size, cur, inp) /\ RoomFor(o, k, buf_size, inp, read_size)
      /\ buf_size \in Nat /\ buf_size > 1 /\ DOMAIN buf = 0 .. buf_size - 1
      /\ read_size \in Nat /\ end \in Int
  BY <1>2, <1>3, LenProperties DEF Positions, Cursors, OnWire, Counted, Stored, Traced, IbufTypes
<1>5. n \in Nat /\ 1 <= n /\ n <= read_size /\ n <= Len(wire) /\ k + n <= Len(T) /\ k + n \in Nat
  <2> DEFINE R == {read_size, Len(wire)}
  <2>1. R \subseteq Nat /\ R # {}
    BY <1>4
  <2>2. Min(R) \in R /\ \A y \in R : Min(R) <= y
    BY <2>1, MinNat
  <2>3. Min(R) \in Nat /\ Min(R) <= read_size /\ Min(R) <= Len(wire)
    BY <2>1, <2>2
  <2>4. n \in 1 .. Min(R)
    BY <1>1
  <2> HIDE DEF R
  <2>5. /\ k \in Nat /\ Len(T) \in Nat /\ k <= Len(T) /\ Len(wire) = Len(T) - k
        /\ read_size \in Nat
    BY <1>4
  <2> QED
    BY <2>3, <2>4, <2>5
<1>6. /\ N[o] \in Nat /\ N[k] \in Nat /\ N[o] <= N[k]
  BY <1>4, CountsOrdered, SMTT(30)
<1>7. /\ d \in DecoderT /\ Stage(S[k + n], d.esc, d.mode, d.data)
      /\ Whole(d) = Cardinality(Eoms(sent, N[o], N[k + n]))
      /\ (d.count > 0 <=> d.handling # "Idle")
      /\ (handling_msg = "Active" => d.handling = "Active")
      /\ LongLast(d)
  <2> DEFINE q == SubSeq(wire, 1, n)
             a == [esc |-> inp_esc, mode |-> inp_size_mode, data |-> inp_data_size,
                   failed |-> assert_failed, eof |-> eof, long |-> long_msg,
                   count |-> message_count, handling |-> handling_msg]
  <2>1. Stage(S[k], inp_esc, inp_size_mode, inp_data_size)
    BY <1>3 DEF Positions, Decoders
  <2>2. inp_size_mode \in Nat /\ inp_data_size \in Nat
    BY <2>1 DEF Stage
  <2>3. a \in DecoderT
    BY <1>2, <2>2 DEF DecoderT, IbufTypes, Messages, Handlings
  <2>4. Stage(S[k], a.esc, a.mode, a.data)
    BY <2>1
  <2>5. Whole(a) = Cardinality(Eoms(sent, N[o], N[k]))
    <3>1. Cardinality(Eoms(sent, N[o], N[k])) \in Nat
      BY <1>6, EomsFinite
    <3>2. Unhandled = Eoms(sent, N[o], N[k])
      BY <1>4 DEF Unhandled, Eoms
    <3>3. message_count = Cardinality(Eoms(sent, N[o], N[k])) + Ready(eof) + Ready(long_msg)
      BY <1>2, <3>2 DEF Messages
    <3>4. Whole(a) = message_count - Ready(eof) - Ready(long_msg)
      BY DEF Whole
    <3>5. Ready(eof) \in Nat /\ Ready(long_msg) \in Nat
      BY DEF Ready
    <3> HIDE DEF a
    <3> QED
      BY <3>1, <3>3, <3>4, <3>5
  <2>6. q \in Seq(ByteT) /\ Len(q) = n /\ \A j \in 1 .. n : q[j] = T[k + j]
    <3>1. q \in Seq(ByteT) /\ Len(q) = n /\ \A j \in 1 .. n : q[j] = wire[j]
      BY <1>4, <1>5, SubSeqProperties, SMTT(30)
    <3>2. \A j \in 1 .. n : j \in 1 .. Len(wire)
      BY <1>4, <1>5
    <3> QED
      BY <1>4, <3>1, <3>2
  <2>7. d = Scanned(a, q)
    BY <1>a, Zenon DEF Scan, Scanned
  <2>8. (a.count > 0 <=> a.handling # "Idle") /\ a.handling = handling_msg /\ LongLast(a)
    BY <1>2 DEF Messages, LongLast, LongMessageIsLast
  <2> HIDE DEF q, a
  <2>9. /\ d \in DecoderT /\ Triggers(a, d) /\ Stage(S[k + n], d.esc, d.mode, d.data)
        /\ Whole(d) = Cardinality(Eoms(sent, N[o], N[k + n])) /\ (LongLast(a) => LongLast(d))
    <3>1. Follow(q, T, k)
      BY <1>5, <2>6 DEF Follow
    <3>2. Traced(T, S, N, sent) /\ k \in Nat /\ q \in Seq(ByteT) /\ Len(q) = n
      BY <1>4, <2>6
    <3>3. /\ d \in DecoderT /\ Triggers(a, d)
          /\ Stage(S[k + Len(q)], d.esc, d.mode, d.data)
          /\ Whole(d) = Cardinality(Eoms(sent, N[o], N[k + Len(q)]))
          /\ LongLast(a) => LongLast(d)
      BY <1>6, <2>3, <2>4, <2>5, <2>7, <3>1, <3>2, ScanFacts, SMTT(30)
    <3> QED
      BY <3>2, <3>3
  <2> QED
    BY <2>8, <2>9 DEF Triggers
<1>8. scanned' = N[k + n]
  <2>1. \A j \in 1 .. n : wire[j] = T[k + j]
    BY <1>4, <1>5, SMTT(30)
  <2>2. {j \in 1 .. n : IsSymbol(wire[j])} = SymbolsIn(T, k, n)
    BY <2>1 DEF SymbolsIn
  <2>3. N[k + n] = N[k] + Cardinality(SymbolsIn(T, k, n))
    <3>1. Traced(T, S, N, sent) /\ k \in Nat /\ n \in Nat /\ k + n <= Len(T)
      BY <1>4, <1>5
    <3> QED
      BY <3>1, SymbolsCounted
  <2> QED
    BY <1>1, <1>4, <2>2, <2>3
<1>9. OnWire(T, k + n)'
  <2>1. /\ wire' \in Seq(ByteT) /\ Len(wire') = Len(wire) - n
        /\ \A j \in 1 .. Len(wire) - n : wire'[j] = wire[n + j]
    <3>1. Len(wire) - (n + 1) + 1 = Len(wire) - n /\ \A j \in 1 .. Len(wire) - n : n + 1 + j - 1 = n + j
      BY <1>4, <1>5
    <3>3. wire \in Seq(ByteT) /\ wire' = SubSeq(wire, n + 1, Len(wire))
      BY <1>1, <1>4
    <3>a. n + 1 \in Int /\ Len(wire) \in Int /\ \A j \in n + 1 .. Len(wire) : wire[j] \in ByteT
      <4>1. \A j \in n + 1 .. Len(wire) : j \in 1 .. Len(wire)
        BY <1>4, <1>5
      <4> QED
        BY <1>4, <1>5, <4>1, ElementOfSeq
    <3>4. /\ wire' \in Seq(ByteT)
          /\ Len(wire') = IF n + 1 <= Len(wire) THEN Len(wire) - (n + 1) + 1 ELSE 0
          /\ \A j \in 1 .. Len(wire) - (n + 1) + 1 : wire'[j] = wire[n + 1 + j - 1]
      BY <3>3, <3>a, SubSeqProperties
    <3>5. Len(wire') = Len(wire) - n
      <4>1. n \in Nat /\ Len(wire) \in Nat /\ n <= Len(wire)
        BY <1>4, <1>5
      <4>2. Len(wire') = IF n + 1 <= Len(wire) THEN Len(wire) - (n + 1) + 1 ELSE 0
        BY <3>4
      <4> QED
        BY <4>1, <4>2
    <3> QED
      BY <3>1, <3>4, <3>5
  <2>2. ASSUME NEW j \in 1 .. Len(wire) - n PROVE wire'[j] = T[k + n + j]
    <3>1. n + j \in 1 .. Len(wire) /\ k + (n + j) = k + n + j
      BY <1>4, <1>5
    <3>2. wire[n + j] = T[k + (n + j)]
      BY <1>4, <3>1
    <3> QED
      BY <2>1, <3>1, <3>2
  <2>3. Len(wire') = Len(T) - (k + n) /\ Len(wire') = Len(wire) - n
    BY <1>4, <1>5, <2>1
  <2> QED
    BY <2>1, <2>2, <2>3 DEF OnWire
<1>10. /\ StoredAt(T, o, k + n, b, buf_size, cur, i) /\ DOMAIN b = 0 .. buf_size - 1
       /\ cur \in 0 .. buf_size
  <2>1. inp \in 0 .. buf_size - 1 /\ cur \in 0 .. buf_size
    <3>1. inp = Where(cur, k - o, buf_size) /\ k - o \in Nat /\ k - o < buf_size /\ cur \in 0 .. buf_size
      BY <1>4 DEF StoredAt
    <3> QED
      BY <1>4, <3>1, WhereFacts
  <2>2. inp + n <= buf_size /\ k - o + n < buf_size /\ o <= k
    <3>1. read_size > 0 /\ o <= k /\ RoomFor(o, k, buf_size, inp, read_size)
      BY <1>1, <1>4
    <3>2. inp + read_size <= buf_size /\ k - o + read_size < buf_size
      BY <3>1 DEF RoomFor
    <3>3. /\ o \in Nat /\ k \in Nat /\ o <= k /\ buf_size \in Nat /\ read_size \in Nat
          /\ n \in Nat /\ n <= read_size /\ inp \in 0 .. buf_size - 1
      BY <1>4, <1>5, <2>1
    <3> QED
      BY <3>2, <3>3
  <2>3. \A j \in 1 .. n : wire[j] = T[k + j]
    BY <1>4, <1>5
  <2>4. b = [x \in DOMAIN buf |->
                  IF x >= inp /\ x < inp + n THEN wire[x - inp + 1].b ELSE buf[x]]
    BY <1>a
  <2>5. StoredAt(T, o, k + n, b, buf_size, cur, (inp + n) % buf_size)
    <3>1. /\ o \in Nat /\ k \in Nat /\ o <= k /\ n \in Nat /\ buf_size \in Nat /\ buf_size > 1
          /\ DOMAIN buf = 0 .. buf_size - 1 /\ StoredAt(T, o, k, buf, buf_size, cur, inp)
      BY <1>4, <1>5
    <3> QED
      BY <2>2, <2>3, <2>4, <3>1, StoredMore
  <2> QED
    BY <1>4, <1>a, <2>1, <2>4, <2>5 DEF Advance
<1>11. /\ c \in 0 .. buf_size /\ (d.eof \/ c \in 0 .. buf_size - 1) /\ e \in Int
       /\ StoredAt(T, o, k + n, b, buf_size, c, i)
       /\ (cur < end => end <= buf_size)
            => (c < e <=> cur < end) /\ (c < e => e - c = end - cur /\ e <= buf_size)
  <2>1. d.eof \in BOOLEAN /\ o <= k + n
    <3>1. d.eof \in BOOLEAN
      BY <1>7 DEF DecoderT
    <3>2. o \in Nat /\ k \in Nat /\ n \in Nat /\ o <= k
      BY <1>4, <1>5
    <3> QED
      BY <3>1, <3>2
  <2> QED
    <3>1. /\ o \in Nat /\ k + n \in Nat /\ buf_size \in Nat /\ buf_size > 1 /\ end \in Int
      BY <1>4, <1>5
    <3>2. Resets(cur, end, buf_size, d.eof, c, e)
      BY <1>a DEF Resets
    <3>3. StoredAt(T, o, k + n, b, buf_size, cur, i)
      BY <1>10
    <3>4. PICK stop, m : stop = d.eof /\ m = k + n
      OBVIOUS
    <3>5. /\ stop \in BOOLEAN /\ o <= m /\ m \in Nat /\ Resets(cur, end, buf_size, stop, c, e)
          /\ StoredAt(T, o, m, b, buf_size, cur, i)
      BY <2>1, <3>1, <3>2, <3>3, <3>4
    <3>6. o \in Nat /\ buf_size \in Nat /\ buf_size > 1 /\ end \in Int
      BY <3>1
    <3>7. StoredAt(T, o, m, b, buf_size, c, i) /\ SameWindow(cur, end, buf_size, stop, c, e)
      BY <3>5, <3>6, Rewound
    <3> QED
      BY <3>4, <3>7 DEF SameWindow
<1>12. /\ StoredAt(T, o, k + n, buf', buf_size', cur', inp')
       /\ buf_size' \in Nat /\ buf_size' > 1 /\ DOMAIN buf' = 0 .. buf_size' - 1 /\ end' \in Int
       /\ cur' \in 0 .. buf_size' /\ (d.eof \/ cur' # buf_size')
       /\ (cur < end => end <= buf_size)
            => /\ cur' < end' <=> cur < end
               /\ cur' < end' => end' - cur' = end - cur /\ end' <= buf_size'
  <2>1. CASE grow
    <3>1. ~d.eof /\ FreeSize(c, i, buf_size) = 0 /\ c \in 0 .. buf_size - 1 /\ o <= k + n
      BY <1>4, <1>5, <1>11, <2>1 DEF grow, full
    <3>2. /\ StoredAt(T, o, k + n, Unroll(b, c, buf_size), 2 * buf_size, 0, buf_size - 1)
          /\ DOMAIN Unroll(b, c, buf_size) = 0 .. 2 * buf_size - 1
      <4>1. o \in Nat /\ k + n \in Nat /\ buf_size \in Nat /\ buf_size > 1
        BY <1>4, <1>5
      <4>2. StoredAt(T, o, k + n, b, buf_size, c, i)
        BY <1>11
      <4> QED
        BY <3>1, <4>1, <4>2, Enlarged
    <3>3. 2 * buf_size \in Nat /\ 2 * buf_size > 1 /\ 0 \in 0 .. 2 * buf_size /\ 0 # 2 * buf_size
      BY <1>4
    <3>4. /\ 0 < e - c <=> c < e
          /\ (e - c) - 0 = e - c /\ e - c \in Int
          /\ e <= buf_size => e - c <= 2 * buf_size
      BY <1>4, <1>11, <3>1
    <3>5. (cur < end => end <= buf_size)
            => (0 < e - c <=> cur < end) /\ (0 < e - c => (e - c) - 0 = end - cur /\ e - c <= 2 * buf_size)
      BY <1>11, <3>4
    <3>6. /\ buf' = Unroll(b, c, buf_size) /\ buf_size' = 2 * buf_size
          /\ inp' = buf_size - 1 /\ cur' = 0 /\ end' = e - c
      BY <1>1, <2>1
    <3> QED
      BY <3>2, <3>3, <3>4, <3>5, <3>6
  <2>2. CASE ~grow
    <3>1. buf' = b /\ buf_size' = buf_size /\ inp' = i /\ cur' = c /\ end' = e
      BY <1>1, <2>2
    <3>2. d.eof \/ c # buf_size
      BY <1>4, <1>11
    <3> QED
      BY <1>4, <1>10, <1>11, <3>1, <3>2
  <2> QED
    BY <2>1, <2>2
<1>13. /\ read_size' \in Nat /\ RoomFor(o, k + n, buf_size', inp', read_size')
       /\ d.eof => read_size' = 0
  <2>1. PICK B, Z, C, I : B = buf' /\ Z = buf_size' /\ C = cur' /\ I = inp'
    OBVIOUS
  <2>2. /\ StoredAt(T, o, k + n, B, Z, C, I) /\ Z \in Nat /\ Z > 1 /\ (d.eof \/ C # Z)
        /\ read_size' = TriggerRead(C, I, Z, d.eof, 0)
    <3>1. /\ StoredAt(T, o, k + n, buf', buf_size', cur', inp')
          /\ buf_size' \in Nat /\ buf_size' > 1 /\ (d.eof \/ cur' # buf_size')
      BY <1>12
    <3>2. read_size' = TriggerRead(cur', inp', buf_size', d.eof, 0)
      BY <1>1
    <3> QED
      BY <2>1, <3>1, <3>2
  <2>3. d.eof \in BOOLEAN /\ o <= k + n /\ o <= o /\ 0 \in Nat
    <3>1. d.eof \in BOOLEAN
      BY <1>7 DEF DecoderT
    <3>2. o \in Nat /\ k \in Nat /\ n \in Nat /\ o <= k
      BY <1>4, <1>5
    <3> QED
      BY <3>1, <3>2
  <2>4. RoomFor(o, k + n, Z, I, 0)
    BY DEF RoomFor
  <2> DEFINE r == TriggerRead(C, I, Z, d.eof, 0)
  <2>5. r \in Nat /\ RoomFor(o, k + n, Z, I, r) /\ (d.eof => r = 0)
    <3>1. o \in Nat /\ k + n \in Nat
      BY <1>4, <1>5
    <3> QED
      BY <2>2, <2>3, <2>4, <3>1, RoomTriggered
  <2> HIDE DEF r
  <2> QED
    BY <2>1, <2>2, <2>5 DEF r
<1>14. \/ call = "none" /\ call' = "none"
       \/ /\ Waiting /\ f = o /\ call' \in {"read", "peek"} /\ out' = cur' /\ d.handling = "Active"
  <2>1. CASE Waiting
    BY <1>1, <1>2, <1>3, <1>7, <2>1 DEF Positions, Reading, Waiting, Messages
  <2>2. CASE ~Waiting
    <3>1. call = "none"
      BY <1>1, <1>2, <2>2 DEF Dispatchable, Messages
    <3> QED
      BY <1>1, <3>1
  <2> QED
    BY <2>1, <2>2
<1>15. Reading(T, N, o, f, k + n)'
  <2>1. CASE call = "none" /\ call' = "none"
    <3>1. /\ cur < end => end <= buf_size /\ f = o + (end - cur)
          /\ ~(cur < end) => f = o
          /\ \A j \in o + 1 .. f : IsSymbol(T[j]) /\ T[j].s = DataSymbol(T[j].b)
      BY <1>3, <2>1 DEF Positions, Reading
    <3>2. /\ cur' < end' => end' <= buf_size' /\ f = o + (end' - cur')
          /\ ~(cur' < end') => f = o
      BY <1>12, <3>1
    <3> QED
      BY <2>1, <3>1, <3>2 DEF Reading, InGetMore, Waiting
  <2>2. CASE f = o /\ call' \in {"read", "peek"} /\ out' = cur'
    <3>1. o - o = 0 /\ 0 \in Nat /\ 0 < buf_size'
      BY <1>4, <1>12
    <3>2. Where(cur', 0, buf_size') = Rewind(cur', buf_size')
      BY <1>12, <3>1, WhereFacts
    <3> QED
      BY <1>12, <2>2, <3>1, <3>2 DEF Reading, InGetMore, Waiting, at
  <2> QED
    BY <1>14, <2>1, <2>2
<1>16. Positions(T, S, N, o, f, k + n)'
  <2>1. Cursors(T, o, f, k + n)
    BY <1>4, <1>5 DEF Cursors
  <2>2. Decoders(S, f, k + n)'
    BY <1>1, <1>3, <1>7 DEF Positions, Decoders, decode
  <2>3. Counted(N, o, k + n)'
    BY <1>1, <1>4, <1>8 DEF Counted
  <2>4. Stored(T, o, k + n)'
    BY <1>12, <1>13 DEF Stored
  <2> QED
    BY <1>1, <1>4, <1>9, <1>15, <2>1, <2>2, <2>3, <2>4 DEF Positions, Cursors
<1>17. Messages'
  <2>1. Unhandled' = Eoms(sent, N[o], N[k + n])
    BY <1>1, <1>4, <1>8 DEF Unhandled, Eoms
  <2>2. Cardinality(Unhandled') \in Nat
    <3>1. N[k + n] \in Nat
      BY <1>4, <1>5, CountsOrdered
    <3> QED
      BY <1>6, <2>1, <3>1, EomsFinite
  <2>3. /\ d.count \in Nat /\ d.eof \in BOOLEAN /\ d.long \in BOOLEAN /\ d.handling \in Handlings
        /\ d.count - Ready(d.eof) - Ready(d.long) = Cardinality(Unhandled')
    BY <1>7, <2>1 DEF DecoderT, Whole
  <2>4. d.count = Cardinality(Unhandled') + Ready(d.eof) + Ready(d.long)
    BY <2>2, <2>3 DEF Ready
  <2>5. ~Waiting' /\ (call' # "none" => d.handling = "Active")
    BY <1>14 DEF Waiting
  <2>6. CASE stuck
    <3>1. ~d.eof /\ d.count = 0
      BY <2>6 DEF stuck, full
    <3>2. d.handling = "Idle" /\ call' = "none"
      BY <1>7, <2>3, <2>5, <3>1 DEF Handlings
    <3>3. message_count' = 1 /\ handling_msg' = "Triggered" /\ long_msg' /\ ~eof'
      BY <1>1, <2>6, <3>1, <3>2 DEF Trigger
    <3>4. Cardinality(Unhandled') = 0
      BY <2>2, <2>3, <2>4, <3>1 DEF Ready
    <3> QED
      <4>1. LongMessageIsLast'
        BY <1>1, <1>7, <3>1 DEF LongLast, LongMessageIsLast
      <4> QED
        BY <2>5, <3>2, <3>3, <3>4, <4>1 DEF Messages, Ready
  <2>7. CASE ~stuck
    <3>1. /\ message_count' = d.count /\ handling_msg' = d.handling /\ eof' = d.eof
          /\ long_msg' = d.long
      BY <1>1, <2>3, <2>7
    <3>2. eof' => read_size' = 0
      BY <1>13, <3>1
    <3> QED
      <4>1. LongMessageIsLast' /\ (long_msg' => message_count' = 1 + Ready(eof'))
        BY <1>1, <1>7, <3>1 DEF LongLast, LongMessageIsLast
      <4> QED
        BY <1>7, <2>3, <2>4, <2>5, <3>1, <3>2, <4>1 DEF Messages
  <2> QED
    BY <2>6, <2>7
<1>18. IbufTypes'
  <2>1. d.esc \in BOOLEAN /\ d.eof \in BOOLEAN /\ d.handling \in Handlings /\ d.failed \in BOOLEAN
    BY <1>7 DEF DecoderT
  <2>2. handling_msg' \in {"Idle", "Triggered", "Active"}
    BY <1>1, <2>1 DEF Trigger, Handlings
  <2>3. eof' \in BOOLEAN /\ inp_esc' \in BOOLEAN /\ out_esc' \in BOOLEAN /\ assert_failed' \in BOOLEAN
    BY <1>1, <1>2, <2>1 DEF decode, IbufTypes
  <2>4. long_msg' \in BOOLEAN
    BY <1>1
  <2>5. call' \in {"none", "read", "peek", "read_wait", "peek_wait", "eos"}
    BY <1>14
  <2> QED
    BY <1>12, <1>13, <2>2, <2>3, <2>4, <2>5 DEF IbufTypes
<1>19. Got' /\ closed' = closed
  BY <1>1, <1>2 DEF Got
<1> QED
  BY <1>1, <1>16, <1>17, <1>18, <1>19 DEF IbufInv, Open

-----------------------------------------------------------------------------
(* The theorems.                                                           *)

\* The invariant holds for the empty buffer, with the empty text.
LEMMA IbufInitOk ==
  ASSUME IbufInit
  PROVE  IbufInv
<1> DEFINE S == [i \in 0 .. 0 |-> "plain"]
           N == [i \in 0 .. 0 |-> 0]
           T == <<>>
<1>1. /\ buf_size = BufSize /\ buf = [i \in 0 .. BufSize - 1 |-> 0] /\ inp = 0 /\ cur = 0 /\ end = 0
      /\ inp_esc = FALSE /\ inp_size_mode = 0 /\ inp_data_size = 0 /\ assert_failed = FALSE
      /\ out_esc = FALSE /\ out_size_mode = 0 /\ out_data_size = 0
      /\ eof = FALSE /\ long_msg = FALSE /\ message_count = 0 /\ handling_msg = "Idle"
      /\ read_size = BufSize - 1 /\ call = "none" /\ out = 0 /\ closed = FALSE
      /\ wire = <<>> /\ sent = <<>> /\ scanned = 0 /\ received = <<>>
  BY DEF IbufInit
<1>2. BufSize \in Nat /\ BufSize > 1
  BY InputBufAssumption
<1>3. T \in Seq(ByteT) /\ <<>> \in Seq(Words) /\ Len(<<>>) = 0
  BY EmptySeq
<1>4. Traced(T, S, N, <<>>) /\ S[Len(T)] = "plain"
  BY <1>3 DEF Traced, Stages
<1>5. N[0] = 0 /\ S[0] = "plain" /\ 0 - 0 = 0
  OBVIOUS
<1> HIDE DEF S, N, T
<1>6. Len(T) = 0
  BY <1>3 DEF T
<1>7. Cursors(T, 0, 0, 0) /\ OnWire(T, 0)
  BY <1>1, <1>3, <1>6 DEF Cursors, OnWire, T
<1>8. Decoders(S, 0, 0) /\ Counted(N, 0, 0)
  BY <1>1, <1>3, <1>5 DEF Decoders, Counted, Stage
<1>9. Stored(T, 0, 0)
  BY <1>1, <1>2 DEF Stored, StoredAt, RoomFor, Where
<1>10. Reading(T, N, 0, 0, 0)
  BY <1>1 DEF Reading, InGetMore, Waiting
<1>11. Positions(T, S, N, 0, 0, 0)
  BY <1>1, <1>4, <1>7, <1>8, <1>9, <1>10 DEF Positions
<1>12. IbufTypes
  <2>1. DOMAIN buf = 0 .. buf_size - 1 /\ buf_size - 1 \in Nat /\ read_size = buf_size - 1
    BY <1>1, <1>2
  <2>2. /\ eof \in BOOLEAN /\ long_msg \in BOOLEAN
        /\ inp_esc \in BOOLEAN /\ out_esc \in BOOLEAN /\ assert_failed \in BOOLEAN
    BY <1>1, Zenon
  <2> QED
    BY <1>1, <1>2, <2>1, <2>2 DEF IbufTypes
<1>13. Messages
  <2>1. Unhandled = {} /\ Cardinality({}) = 0
    BY <1>1, <1>3, FS_EmptySet DEF Unhandled
  <2> QED
    BY <1>1, <2>1 DEF Messages, Waiting, Ready, LongMessageIsLast
<1>14. Got
  BY <1>1, <1>3 DEF Got
<1> QED
  BY <1>1, <1>11, <1>12, <1>13, <1>14 DEF IbufInv, Open

\* Every step keeps the invariant.
LEMMA IbufNextKeeps ==
  ASSUME IbufInv, [IbufNext]_ibuf_vars
  PROVE  IbufInv'
<1>1. CASE \E s \in Symbols : PeerSends(s)
  BY <1>1, PeerSendsKeeps
<1>2. CASE PeerCloses \/ PeerShutsDown
  BY <1>2, PeerClosesKeeps, PeerShutsDownKeeps
<1>3. CASE ReadStep
  <2>1. CASE ReadEof
    BY <2>1, ReadEofKeeps
  <2>2. CASE \E n \in 1 .. MaxBufSize : ReadDone(n)
    BY <2>2, ReadDoneKeeps
  <2> QED
    BY <1>3, <2>1, <2>2 DEF ReadStep
<1>4. CASE GetMoreStep
  BY <1>4, GetMoreEmptyKeeps, GetMoreSizeKeeps, GetMoreBlockKeeps, GetMorePlainKeeps,
     GetMoreEscKeeps, GetMoreBlockStartKeeps, GetMoreCodeKeeps DEF GetMoreStep
<1>5. CASE HandlerStep
  BY <1>4, <1>5, StartMessageKeeps, ClosingKeeps DEF HandlerStep
<1>6. CASE Read
  BY <1>6, ReadDirectKeeps, CallGetMoreKeeps DEF Read
<1>7. CASE CallGetMore("peek")
  BY <1>7, CallGetMoreKeeps
<1>8. CASE Close
  BY <1>8, ClosingKeeps
<1>9. CASE UNCHANGED ibuf_vars
  <2>1. UNCHANGED <<store, stream, scan, decode, messages, read_size, call, out, closed, wire,
                    sent, scanned, received>>
    BY <1>9 DEF ibuf_vars, peer
  <2> QED
    BY <2>1, Unmoved
<1> QED
  BY <1>1, <1>2, <1>3, <1>5, <1>6, <1>7, <1>8, <1>9 DEF IbufNext

\* The invariant of the input buffer holds: the bytes that have been scanned and
\* not yet read are in the buffer, in order, and each of the two decoders of
\* inputbuf.c, the one of ibuf_read_done and the one of ibuf_get_more, stands
\* where a decoder of the text that the peer sent stands after the same bytes.
THEOREM InputBufferSound == IbufSpec => []IbufInv
<1>1. IbufInit => IbufInv
  BY IbufInitOk
<1>2. IbufInv /\ [IbufNext]_ibuf_vars => IbufInv'
  BY IbufNextKeeps
<1> QED
  BY <1>1, <1>2, PTL DEF IbufSpec

\* What the handler reads is a prefix of what the peer sent, however the bytes are
\* cut into reads and however the buffer wraps and grows.
THEOREM StreamReadIntact == IbufSpec => []StreamIntact
<1>1. IbufInv => StreamIntact
  <2>1. SUFFICES ASSUME Got PROVE StreamIntact
    BY DEF IbufInv
  <2>2. /\ received \in Seq(Words) /\ sent \in Seq(Words) /\ Len(received) \in Nat
        /\ Len(sent) \in Nat /\ Len(received) <= Len(sent)
        /\ \A j \in 1 .. Len(received) : received[j] = sent[j]
    BY <2>1, LenProperties DEF Got
  <2> DEFINE q == SubSeq(sent, 1, Len(received))
  <2>3. /\ q \in Seq(Words) /\ Len(q) = Len(received)
        /\ \A j \in 1 .. Len(received) : q[j] = sent[j]
    <3>1. \A j \in 1 .. Len(received) : j \in 1 .. Len(sent) /\ sent[j] \in Words
      <4>1. \A j \in 1 .. Len(received) : j \in 1 .. Len(sent)
        BY <2>2
      <4> QED
        BY <2>2, <4>1, ElementOfSeq
    <3>2. /\ q \in Seq(Words)
          /\ Len(q) = IF 1 <= Len(received) THEN Len(received) - 1 + 1 ELSE 0
          /\ \A j \in 1 .. Len(received) - 1 + 1 : q[j] = sent[1 + j - 1]
      BY <2>2, <3>1, SubSeqProperties
    <3> HIDE DEF q
    <3>3. Len(received) - 1 + 1 = Len(received) /\ \A j \in 1 .. Len(received) : 1 + j - 1 = j
      BY <2>2
    <3>4. Len(q) = Len(received)
      BY <2>2, <3>2
    <3> QED
      BY <3>2, <3>3, <3>4
  <2> HIDE DEF q
  <2>4. received = q
    BY <2>2, <2>3, SeqEqual
  <2> QED
    BY <2>2, <2>4 DEF StreamIntact, IsPrefix, q
<1> QED
  BY <1>1, InputBufferSound, PTL

\* The assertion of ibuf_read_done fails only after the end of the stream, in a
\* channel that is closed, too.
LEMMA LastKeeps ==
  ASSUME IbufInv, IbufInv', LongMessageIsLast, [IbufNext]_ibuf_vars
  PROVE  LongMessageIsLast'
<1>1. CASE ~closed'
  BY <1>1 DEF IbufInv, Open, Messages
<1>2. CASE closed'
  <2>1. CASE ReadStep
    BY <1>2, <2>1 DEF ReadStep, ReadDone, ReadEof
  <2>2. CASE CloseAtEof \/ HandlerThrows \/ Close
    BY <2>2 DEF CloseAtEof, HandlerThrows, Close, SendEofAndClose, LongMessageIsLast
  <2>3. CASE (\E s \in Symbols : PeerSends(s)) \/ PeerCloses \/ PeerShutsDown \/ StartMessage
    BY <2>3 DEF PeerSends, PeerCloses, PeerShutsDown, StartMessage, LongMessageIsLast, scan,
                messages
  <2>4. CASE Read \/ CallGetMore("peek")
    BY <2>4 DEF Read, ReadDirect, CallGetMore, LongMessageIsLast, scan, messages
  <2>5. CASE GetMoreStep
    BY <2>5 DEF GetMoreStep, GetMoreEmpty, GetMoreSize, GetMoreBlock, GetMorePlain, GetMoreEsc,
                GetMoreBlockStart, GetMoreCode, LongMessageIsLast, scan, messages
  <2>6. CASE UNCHANGED ibuf_vars
    BY <2>6 DEF ibuf_vars, LongMessageIsLast, scan, messages
  <2> QED
    BY <2>1, <2>2, <2>3, <2>4, <2>5, <2>6 DEF IbufNext, HandlerStep
<1> QED
  BY <1>1, <1>2

\* message_count is exact, the handler is posted or running while it is not 0, and
\* a handler waits for bytes only inside the long message that is counted alone:
\* the assertions of ibuf_get_more hold, and that of ibuf_read_done, about the end of
\* a long message, holds up to the end of the stream.
THEOREM DecodersInStep == IbufSpec => []DecodersAgree
<1>1. IbufInit => LongMessageIsLast
  BY DEF IbufInit, LongMessageIsLast
<1>2. IbufInv /\ IbufInv' /\ LongMessageIsLast /\ [IbufNext]_ibuf_vars => LongMessageIsLast'
  BY LastKeeps
<1>3. IbufInv => MessageCountExact
  BY DEF IbufInv, Open, Messages, Ready, MessageCountExact
<1>4. IbufInv => BlocksOnlyInLongMessage
  BY DEF IbufInv, Open, Messages, Waiting, BlocksOnlyInLongMessage
<1>5. IbufInv /\ LongMessageIsLast => DecodersAgree
  BY <1>3, <1>4 DEF DecodersAgree
<1> QED
  BY <1>1, <1>2, <1>5, InputBufferSound, PTL DEF IbufSpec
=============================================================================
