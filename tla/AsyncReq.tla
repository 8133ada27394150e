------------------------------ MODULE AsyncReq ------------------------------
(***************************************************************************)
(* Asynchronous requests (agent/tcf/framework/asyncreq.c), composed with   *)
(* the shutdown manager and, in outline, with the channels.                *)
(*                                                                         *)
(* Blocking calls are made by worker threads.  An idle worker waits in     *)
(* wtlist; if there is none a new one is created.  wtlist is guarded by    *)
(* wtlock, and a section that holds it is one step.  async_shutdown.state  *)
(* is written by the dispatch thread outside of the lock.                  *)
(***************************************************************************)
EXTENDS Shutdown

CONSTANTS
  Workers,            \* worker threads
  Reqs,               \* requests of services
  ChanReq,            \* the read request of a channel
  TimerReq,           \* timer_req, which never completes
  NoReq, ShutdownReq, \* NULL, &shutdown_req
  MaxIdle,            \* MAX_WORKER_THREADS
  MaxPosts            \* bound: requests posted by services

ASSUME AsyncReqAssumption ==
  /\ Objs = {"async", "channel"}
  /\ MaxIdle \in Nat \ {0} /\ MaxPosts \in Nat
  /\ ChanReq \notin Reqs /\ TimerReq \notin Reqs \cup {ChanReq}
  /\ {NoReq, ShutdownReq} \cap (Reqs \cup {ChanReq, TimerReq}) = {}
  /\ IsFiniteSet(Workers)

VARIABLES
  worker,           \* worker -> "none", "busy", "idle", "leaving" (out of the
                    \* loop) or "left" (worker_thread_exit is posted)
  wt_req,           \* worker -> WorkerThread.req
  wtlist,           \* idle workers
  wtrunning_count,
  req_state,        \* request -> "free", "deferred" (worker_thread_add_deferred
                    \* is posted), "running" or "done" (its event is posted)
  timer,            \* start_timer has still to run
  channel,          \* "none", "open" or "closing"
  posts,            \* history: requests posted by services
  late              \* history: a connection was completed after shutdown began

pool == <<worker, wt_req, wtlist, wtrunning_count>>
history == <<posts, late>>
vars == <<sdVars, pool, req_state, timer, channel, history>>

AllReqs == Reqs \cup {ChanReq, TimerReq}

Init ==
  /\ SdInit
  /\ worker = [w \in Workers |-> "none"] /\ wt_req = [w \in Workers |-> NoReq]
  /\ wtlist = <<>> /\ wtrunning_count = 0
  /\ req_state = [r \in AllReqs |-> "free"]
  /\ timer = TRUE /\ channel = "none" /\ posts = 0 /\ late = FALSE

-----------------------------------------------------------------------------
(* Requests.                                                               *)

\* worker_thread_add: the first worker makes the subsystem active.
WorkerThreadAdd(r) ==
  /\ \E w \in Workers :
       /\ worker[w] = "none"
       /\ worker' = [worker EXCEPT ![w] = "busy"]
       /\ wt_req' = [wt_req EXCEPT ![w] = r]
  /\ wtrunning_count' = wtrunning_count + 1
  /\ UNCHANGED wtlist

\* Fault: the worker stays in wtlist.
GiveToIdle_StaysListed(r) ==
  /\ worker' = [worker EXCEPT ![Head(wtlist)] = "busy"]
  /\ wt_req' = [wt_req EXCEPT ![Head(wtlist)] = r]
  /\ UNCHANGED <<wtlist, wtrunning_count>>

\* The first idle worker gets the request and is signalled.
GiveToIdle(r) ==
  /\ worker' = [worker EXCEPT ![Head(wtlist)] = "busy"]
  /\ wt_req' = [wt_req EXCEPT ![Head(wtlist)] = r]
  /\ wtlist' = Tail(wtlist)
  /\ UNCHANGED wtrunning_count

\* async_req_post on the dispatch thread.
Post(r) ==
  /\ req_state[r] = "free"
  /\ req_state' = [req_state EXCEPT ![r] = "running"]
  /\ IF wtlist = <<>> THEN WorkerThreadAdd(r) ELSE GiveToIdle(r)

\* worker_thread_add calls shutdown_set_normal for the first worker.
ActivateAsync(added) ==
  IF added /\ wtrunning_count = 0 THEN SetNormal("async")
  ELSE UNCHANGED <<sd_state, shutdown_active>>

sdRest == <<notify_pending, started, complete, visiting, notified, aborted>>

PostByService(r) ==
  /\ DispatchFree /\ posts < MaxPosts
  /\ posts' = posts + 1
  /\ Post(r)
  /\ ActivateAsync(wtlist = <<>>)
  /\ UNCHANGED <<sdRest, timer, channel, late>>

StartTimer ==
  /\ DispatchFree /\ timer
  /\ timer' = FALSE
  /\ Post(TimerReq)
  /\ ActivateAsync(wtlist = <<>>)
  /\ UNCHANGED <<sdRest, channel, history>>

\* Fault: the event is posted although an idle worker takes the request.
PostByThread_Both(r) ==
  /\ posts < MaxPosts
  /\ posts' = posts + 1
  /\ req_state[r] = "free"
  /\ req_state' = [req_state EXCEPT ![r] = "deferred"]
  /\ IF wtlist = <<>> THEN UNCHANGED pool ELSE GiveToIdle(r)
  /\ UNCHANGED <<sdVars, timer, channel, late>>

\* async_req_post on another thread: the dispatch thread creates the worker.
PostByThread(r) ==
  /\ posts < MaxPosts
  /\ posts' = posts + 1
  /\ req_state[r] = "free"
  /\ IF wtlist = <<>>
     THEN req_state' = [req_state EXCEPT ![r] = "deferred"] /\ UNCHANGED pool
     ELSE req_state' = [req_state EXCEPT ![r] = "running"] /\ GiveToIdle(r)
  /\ UNCHANGED <<sdVars, timer, channel, late>>

WorkerThreadAddDeferred(r) ==
  /\ DispatchFree /\ req_state[r] = "deferred"
  /\ req_state' = [req_state EXCEPT ![r] = "running"]
  /\ WorkerThreadAdd(r)
  /\ ActivateAsync(TRUE)
  /\ UNCHANGED <<sdRest, timer, channel, history>>

\* Fault: the worker looks at the state only when wtlist is full.
LeavesPool_IfFull == Len(wtlist) >= MaxIdle

\* When a worker that has finished its request leaves.
LeavesPool == Len(wtlist) >= MaxIdle \/ sd_state["async"] = "PENDING"

\* The end of a request: its event is posted, and the worker leaves or waits.
\* The read of an open channel only ends when the channel is being closed.
WorkerFinishes(w) ==
  /\ worker[w] = "busy" /\ wt_req[w] \in Reqs \cup {ChanReq}
  /\ wt_req[w] = ChanReq => channel = "closing"
  /\ req_state' = [req_state EXCEPT ![wt_req[w]] = "done"]
  /\ wt_req' = [wt_req EXCEPT ![w] = NoReq]
  /\ IF LeavesPool
     THEN worker' = [worker EXCEPT ![w] = "leaving"] /\ UNCHANGED wtlist
     ELSE worker' = [worker EXCEPT ![w] = "idle"] /\ wtlist' = Append(wtlist, w)
  /\ UNCHANGED <<sdVars, wtrunning_count, timer, channel, history>>

\* A worker that was given shutdown_req, or the timer, leaves its loop.
WorkerStops(w) ==
  /\ worker[w] = "busy"
  /\ \/ wt_req[w] = ShutdownReq
     \/ wt_req[w] = TimerReq /\ sd_state["async"] = "PENDING"
  /\ worker' = [worker EXCEPT ![w] = "leaving"]
  /\ UNCHANGED <<sdVars, wt_req, wtlist, wtrunning_count, req_state, timer, channel, history>>

\* post_event(worker_thread_exit), the last thing the thread does.
WorkerLeaves(w) ==
  /\ worker[w] = "leaving"
  /\ worker' = [worker EXCEPT ![w] = "left"]
  /\ UNCHANGED <<sdVars, wt_req, wtlist, wtrunning_count, req_state, timer, channel, history>>

\* Fault: the timer's thread is not counted.
LastWorker_ButTimer == wtrunning_count <= 2

\* The thread that exits is the last one.
LastWorker == wtrunning_count = 1

\* worker_thread_exit
WorkerThreadExit(w) ==
  /\ DispatchFree /\ worker[w] = "left"
  /\ worker' = [worker EXCEPT ![w] = "none"]
  /\ wt_req' = [wt_req EXCEPT ![w] = NoReq]
  /\ wtrunning_count' = wtrunning_count - 1
  /\ IF LastWorker THEN SetStopped("async")
     ELSE UNCHANGED <<sd_state, shutdown_active, notify_pending>>
  /\ UNCHANGED <<started, complete, visiting, notified, aborted, wtlist, req_state, timer,
                 channel, history>>

\* The event of a service's request.
RequestDone(r) ==
  /\ DispatchFree /\ req_state[r] = "done" /\ r # ChanReq
  /\ req_state' = [req_state EXCEPT ![r] = "free"]
  /\ UNCHANGED <<sdVars, pool, timer, channel, history>>

-----------------------------------------------------------------------------
(* Shutdown.                                                               *)

\* Every idle worker is given shutdown_req.
TellIdle ==
  /\ worker' = [w \in Workers |-> IF w \in ToSet(wtlist) THEN "busy" ELSE worker[w]]
  /\ wt_req' = [w \in Workers |-> IF w \in ToSet(wtlist) THEN ShutdownReq ELSE wt_req[w]]
  /\ wtlist' = <<>>

TriggerAsyncShutdown ==
  /\ notified = "async"
  /\ TellIdle
  /\ NotifyReturns
  /\ UNCHANGED <<wtrunning_count, req_state, timer, channel, history>>

\* trigger_channel_shutdown closes every channel.
TriggerChannelShutdown ==
  /\ notified = "channel"
  /\ channel' = "closing"
  /\ NotifyReturns
  /\ UNCHANGED <<pool, req_state, timer, history>>

\* A connection is completed: create_channel and the first read.  Both may
\* call shutdown_set_normal, the channel first.
ChannelCreate ==
  /\ DispatchFree /\ channel = "none"
  /\ req_state[ChanReq] = "free" /\ ~timer
  /\ channel' = "open"
  /\ Post(ChanReq)
  /\ IF wtlist = <<>> /\ wtrunning_count = 0
     THEN /\ sd_state' = [sd_state EXCEPT !["channel"] = "NORMAL", !["async"] = "NORMAL"]
          /\ shutdown_active' = Linked(Linked(shutdown_active, "channel"), "async")
     ELSE SetNormal("channel")
  /\ late' = (late \/ started)
  /\ UNCHANGED <<sdRest, timer, posts>>

\* The peer ends the connection.
ChannelClose ==
  /\ DispatchFree /\ channel = "open"
  /\ channel' = "closing"
  /\ UNCHANGED <<sdVars, pool, req_state, timer, history>>

\* The last read is done: delete_channel.
ChannelDelete ==
  /\ DispatchFree /\ channel = "closing" /\ req_state[ChanReq] = "done"
  /\ channel' = "none"
  /\ req_state' = [req_state EXCEPT ![ChanReq] = "free"]
  /\ SetStopped("channel")
  /\ UNCHANGED <<started, complete, visiting, notified, aborted, pool, timer, history>>

-----------------------------------------------------------------------------
rest == <<pool, req_state, timer, channel, history>>

WorkerStep(w) == WorkerFinishes(w) \/ WorkerStops(w) \/ WorkerLeaves(w)

DispatchStep ==
  \/ (NotifyAll \/ NotifyObj) /\ UNCHANGED rest
  \/ TriggerAsyncShutdown \/ TriggerChannelShutdown
  \/ StartTimer \/ ChannelDelete
  \/ \E w \in Workers : WorkerThreadExit(w)
  \/ \E r \in Reqs : WorkerThreadAddDeferred(r) \/ RequestDone(r)

Next ==
  \/ DispatchStep
  \/ \E w \in Workers : WorkerStep(w)
  \/ \E r \in Reqs : PostByService(r) \/ PostByThread(r)
  \/ ChannelCreate \/ ChannelClose
  \/ ShutdownStart /\ UNCHANGED rest

Spec == Init /\ [][Next]_vars

\* Blocking calls return, threads are scheduled and events are dispatched.
Fairness ==
  /\ SF_vars(NotifyAll /\ UNCHANGED rest) /\ WF_vars(DispatchStep)
  /\ SF_vars(ChannelDelete) /\ SF_vars(StartTimer)
  /\ WF_vars(\E w \in Workers : WorkerStep(w))
  /\ SF_vars(\E w \in Workers : WorkerThreadExit(w))

FairSpec == Spec /\ Fairness

-----------------------------------------------------------------------------
(* Properties.                                                             *)

\* Each request that was posted is in the hands of exactly one worker until
\* its event is posted: none is lost between the idle list and the threads,
\* none is run twice.  (timer_req never completes.)
OneWorkerPerRequest ==
  \A r \in Reqs \cup {ChanReq} :
    Cardinality({w \in Workers : worker[w] = "busy" /\ wt_req[w] = r})
      = IF req_state[r] = "running" THEN 1 ELSE 0

\* The assertions on wt->req: a worker is in wtlist, once, exactly while it
\* has nothing to do, and the list keeps its limit.
IdleListExact ==
  /\ Len(wtlist) <= MaxIdle
  /\ ToSet(wtlist) = {w \in Workers : worker[w] = "idle"}
  /\ Cardinality(ToSet(wtlist)) = Len(wtlist)
  /\ \A w \in ToSet(wtlist) : wt_req[w] = NoReq

\* wtrunning_count counts the threads whose exit has not been handled, and
\* the subsystem is active while there are any; shutdown_active holds the
\* active subsystems, each once.
RunningCountExact ==
  /\ ToSet(shutdown_active) = {o \in Objs : sd_state[o] # "STOPPED"}
  /\ Cardinality(ToSet(shutdown_active)) = Len(shutdown_active)
  /\ wtrunning_count = Cardinality({w \in Workers : worker[w] # "none"})
  /\ (wtrunning_count = 0) = (sd_state["async"] = "STOPPED")

\* The pool's books are right although workers, the dispatch thread and the exit
\* events of threads that are gone keep them together.
PoolExact == OneWorkerPerRequest /\ IdleListExact /\ RunningCountExact

\* Shutdown comes to its end: every worker leaves, whether it is idle, busy,
\* just finishing or the timer when the request comes, as long as no
\* connection is completed after that.
ShutdownCompletes == started ~> (complete \/ aborted \/ late)

=============================================================================
