----------------------------- MODULE EventQueue -----------------------------
(***************************************************************************)
(* The event queue of the framework (agent/tcf/framework/events.c).        *)
(*                                                                         *)
(* One dispatch thread runs handlers; any number of background threads     *)
(* post events to it.  The dispatch thread owns event_queue and free_queue *)
(* without a lock; timer_queue, free_bg_queue and cancel_handler are       *)
(* shared under event_lock.  A section that holds event_lock is one atomic *)
(* step here; the two condition waits release the lock and are states of   *)
(* their own.                                                              *)
(*                                                                         *)
(* The clock is relative: "due" is the runtime of an event minus the       *)
(* current time, and Tick moves every runtime closer.                      *)
(***************************************************************************)
EXTENDS Integers, Sequences, FiniteSets, FiniteSetsExt, SequencesExt

CONSTANTS
  Callbacks,   \* (handler, arg) pairs that clients post
  BgThreads,   \* threads other than the dispatch thread
  EventBuf,    \* the nodes of event_buf
  CntLimit,    \* untimed events between two looks at timer_queue (100)
  Delays,      \* delays given to post_event_with_delay, in clock ticks
  MaxQueue,    \* bound: pending events of each queue
  MaxCalls,    \* bound: calls one run of a handler makes to this module
  MaxLag,      \* bound: ticks a runtime may lie in the past
  MaxSerial,   \* bound: posts that are numbered; 0 turns numbering off
  ExitHandler, \* the pair (exit_event_handler, NULL)
  Dispatcher,  \* the dispatch thread, as the source of an event
  Heap,        \* a node that does not come from event_buf
  None         \* no event, no deadline, no cancel_handler

ASSUME EventQueueAssumption ==
  /\ CntLimit \in Nat \ {0}
  /\ Delays \subseteq Nat
  /\ MaxQueue \in Nat /\ MaxCalls \in Nat /\ MaxLag \in Nat /\ MaxSerial \in Nat
  /\ IsFiniteSet(EventBuf)
  /\ ExitHandler \notin Callbacks
  /\ None \notin Callbacks \cup {ExitHandler} /\ None \notin Int
  /\ Heap \notin EventBuf
  /\ Dispatcher \notin BgThreads

VARIABLES
  event_queue,     \* untimed queue, private to the dispatch thread
  timer_queue,     \* timed queue, ordered by runtime
  free_queue,      \* unused nodes of event_buf, for the dispatch thread
  free_bg_queue,   \* unused nodes of event_buf, for the other threads
  event_cnt,       \* untimed events since timer_queue was last looked at
  process_events,  \* cleared to make run_event_loop return
  exit_event,      \* TRUE until exit_event_loop has used its node
  cancel_handler,  \* what cancel_event waits for, or None
  disp,            \* where the dispatch thread is
  current,         \* the event whose handler runs, or None
  calls,           \* calls made so far by that handler
  signalled,       \* event_cond was signalled during the wait
  deadline,        \* end of the timed wait, or None
  bg,              \* what each background thread is doing
  serial,          \* history: number of the last post
  exit_serial,     \* history: serial when exit_event_loop was called
  owed             \* history: posts neither dispatched nor cancelled

queues == <<event_queue, timer_queue>>
pools  == <<free_queue, free_bg_queue>>
loop   == <<disp, current, event_cnt, process_events>>
wait   == <<signalled, deadline>>
ghosts == <<serial, exit_serial, owed>>
vars   == <<queues, pools, loop, calls, wait, exit_event, cancel_handler, bg, ghosts>>

AllCallbacks == Callbacks \cup {ExitHandler}
Nodes        == EventBuf \cup {Heap}
Threads      == BgThreads \cup {Dispatcher}

\* struct event_node.  timed = FALSE is the runtime 0.0; imm marks an event
\* of post_event, src and serial record who posted it and when.
Event == [node : Nodes, cb : AllCallbacks, timed : BOOLEAN, due : Int,
          imm : BOOLEAN, src : Threads, serial : Nat]

\* NULL is not an event.
ASSUME NoneAssumption == None \notin Event

BgState == [pc : {"idle", "busy", "posting"}, cb : AllCallbacks, due : Int,
            imm : BOOLEAN]

IdleBg == [pc |-> "idle", cb |-> ExitHandler, due |-> 0, imm |-> FALSE]

-----------------------------------------------------------------------------
(* Helpers.                                                                *)

\* Fault: the comparison is the wrong way round.
Earlier_Swapped(a, b) == a.timed /\ (b.timed => b.due < a.due)

\* time_cmp(a, b) < 0
Earlier(a, b) == b.timed /\ (a.timed => a.due < b.due)

FirstOf(S, n) == Min(S \cup {n})

\* Fault: the loop stops at the first event that is not earlier.
InsertPos_BeforeEqual(q, ev) ==
  FirstOf({k \in DOMAIN q : ~Earlier(q[k], ev)}, Len(q) + 1)

\* The insertion loop shared by both posting functions: behind every event
\* whose runtime is not later than that of ev.
InsertPos(q, ev) ==
  FirstOf({k \in DOMAIN q : Earlier(ev, q[k])}, Len(q) + 1)

InsertTimer(q, ev) == InsertAt(q, InsertPos(q, ev), ev)

Due(ev) == ev.timed => ev.due <= 0

\* How many events at the head of the timer queue are ready.
ReadyCount(q) == FirstOf({k \in DOMAIN q : ~Due(q[k])}, Len(q) + 1) - 1

Matches(q, cb) == {k \in DOMAIN q : q[k].cb = cb}

NextSerial == IF MaxSerial = 0 THEN 0 ELSE serial + 1
MayPost    == MaxSerial = 0 \/ serial < MaxSerial

NewEvent(node, cb, timed, due, imm, src) ==
  [node |-> node, cb |-> cb, timed |-> timed, due |-> due, imm |-> imm,
   src |-> src, serial |-> NextSerial]

CountPost(cb) == /\ serial' = NextSerial
                 /\ owed' = [owed EXCEPT ![cb] = @ + 1]
                 /\ UNCHANGED exit_serial

CountTaken(cb) == /\ owed' = [owed EXCEPT ![cb] = @ - 1]
                  /\ UNCHANGED <<serial, exit_serial>>

\* alloc_event_node: a free node of the dispatch thread, else the heap.
AllocNode(n) == /\ n \in IF free_queue = {} THEN {Heap} ELSE free_queue
                /\ free_queue' = free_queue \ {n}
                /\ UNCHANGED free_bg_queue

\* alloc_event_node_bg
AllocNodeBg(n) == /\ n \in IF free_bg_queue = {} THEN {Heap} ELSE free_bg_queue
                  /\ free_bg_queue' = free_bg_queue \ {n}
                  /\ UNCHANGED free_queue

\* free_event_node: heap nodes go back to the heap.
FreeNode(n) == /\ free_queue' = free_queue \cup ({n} \ {Heap})
               /\ UNCHANGED free_bg_queue

\* Fault: nobody is signalled.
SignalEventCond_Lost == signalled' = signalled

\* pthread_cond_signal(&event_cond) reaches only a thread that waits.
SignalEventCond == signalled' = (signalled \/ disp = "wait")

-----------------------------------------------------------------------------
(* ini_events_queue and the entry of run_event_loop.                       *)

Init ==
  /\ event_queue = <<>> /\ timer_queue = <<>>
  /\ free_queue = EventBuf /\ free_bg_queue = {}
  /\ event_cnt = 0 /\ process_events = TRUE /\ exit_event = TRUE
  /\ cancel_handler = None
  /\ disp = "loop" /\ current = None /\ calls = 0
  /\ signalled = FALSE /\ deadline = None
  /\ bg = [b \in BgThreads |-> IdleBg]
  /\ serial = 0 /\ exit_serial = 0
  /\ owed = [c \in AllCallbacks |-> 0]

-----------------------------------------------------------------------------
(* Background threads.                                                     *)

\* A thread takes on work that ends in a post of cb (a request of
\* asyncreq.c, a waitpid loop): the caller's side of cancel_event(.., 1).
BgStart(b, cb) ==
  /\ bg[b].pc = "idle"
  /\ bg' = [bg EXCEPT ![b] = [@ EXCEPT !.pc = "busy", !.cb = cb]]
  /\ UNCHANGED <<queues, pools, loop, calls, wait, exit_event, cancel_handler, ghosts>>

\* post_from_bg_thread, before the lock: clock_gettime and time_add_usec.
\* The delay 0 is that of post_event.
BgReadClock(b, d) ==
  /\ bg[b].pc = "busy"
  /\ bg' = [bg EXCEPT ![b] = [@ EXCEPT !.pc = "posting", !.due = d, !.imm = (d = 0)]]
  /\ UNCHANGED <<queues, pools, loop, calls, wait, exit_event, cancel_handler, ghosts>>

\* Fault: the posting thread does not look at cancel_handler.
BgPostCancelled_Never(b) == FALSE /\ UNCHANGED vars

\* post_from_bg_thread, under the lock: the waiting cancel_event takes it.
BgPostCancelled(b) ==
  /\ bg[b].pc = "posting"
  /\ cancel_handler = bg[b].cb
  /\ cancel_handler' = None
  /\ bg' = [bg EXCEPT ![b] = IdleBg]
  /\ UNCHANGED <<queues, pools, loop, calls, wait, exit_event, ghosts>>

\* post_from_bg_thread, under the lock: the event goes to timer_queue.
BgPost(b) ==
  /\ bg[b].pc = "posting"
  /\ cancel_handler # bg[b].cb
  /\ Len(timer_queue) < MaxQueue /\ MayPost
  /\ \E n \in Nodes :
       /\ AllocNodeBg(n)
       /\ LET ev == NewEvent(n, bg[b].cb, TRUE, bg[b].due, bg[b].imm, b)
          IN  /\ timer_queue' = InsertTimer(timer_queue, ev)
              /\ IF InsertPos(timer_queue, ev) = 1
                 THEN SignalEventCond
                 ELSE UNCHANGED signalled
  /\ CountPost(bg[b].cb)
  /\ bg' = [bg EXCEPT ![b] = IdleBg]
  /\ UNCHANGED <<event_queue, loop, calls, deadline, exit_event, cancel_handler>>

\* exit_event_loop: any thread, a signal handler included.
ExitEventLoop ==
  /\ exit_event
  /\ exit_event' = FALSE
  /\ timer_queue' = <<[node |-> Heap, cb |-> ExitHandler, timed |-> FALSE,
                       due |-> 0, imm |-> FALSE, src |-> Dispatcher,
                       serial |-> serial]>> \o timer_queue
  /\ SignalEventCond
  /\ exit_serial' = serial
  /\ owed' = [owed EXCEPT ![ExitHandler] = @ + 1]
  /\ UNCHANGED <<event_queue, pools, loop, calls, deadline, cancel_handler, bg, serial>>

-----------------------------------------------------------------------------
(* run_event_loop.                                                         *)

\* Fault: timers are collected on every turn of the loop.
MustCollect_Always(elapsed) == TRUE

\* When the loop looks at timer_queue; the periodic events_timer_ms may have
\* advanced by 100 ms at any time, which elapsed stands for.
MustCollect(elapsed) ==
  \/ event_queue = <<>>
  \/ event_cnt >= CntLimit
  \/ event_cnt >= 1 /\ elapsed

\* Top up free_bg_queue to two nodes.
RefillBgPool ==
  \E S \in SUBSET free_queue :
    /\ Cardinality(S) = Min({Cardinality(free_queue),
                             Max({0, 2 - Cardinality(free_bg_queue)})})
    /\ free_queue' = free_queue \ S
    /\ free_bg_queue' = free_bg_queue \cup S

\* Fault: the pending untimed events are overwritten.
MoveReady_Overwrite ==
  LET n == ReadyCount(timer_queue)
  IN  /\ event_queue' = IF n = 0 THEN event_queue
                        ELSE [k \in 1..n |-> [timer_queue[k] EXCEPT !.due = 0]]
      /\ timer_queue' = SubSeq(timer_queue, n + 1, Len(timer_queue))

\* Events that are ready move to the beginning of the untimed queue.  From
\* there on only the difference between 0.0 and another runtime is used.
MoveReady ==
  LET n == ReadyCount(timer_queue)
      ready == [k \in 1..n |-> [timer_queue[k] EXCEPT !.due = 0]]
  IN  /\ event_queue' = ready \o event_queue
      /\ timer_queue' = SubSeq(timer_queue, n + 1, Len(timer_queue))

\* The body of the for (;;) loop: move what is ready, else wait if there is
\* nothing to dispatch.
LookAtTimers ==
  IF event_queue = <<>> /\ ReadyCount(timer_queue) = 0
  THEN /\ disp' = "wait"
       /\ signalled' = FALSE
       /\ deadline' = IF timer_queue = <<>> THEN None ELSE timer_queue[1].due
       /\ UNCHANGED queues
  ELSE /\ MoveReady
       /\ disp' = "dispatch"
       /\ signalled' = FALSE /\ deadline' = None

Collect ==
  /\ disp = "loop"
  /\ \E elapsed \in BOOLEAN : MustCollect(elapsed)
  /\ event_cnt' = 0
  /\ RefillBgPool
  /\ LookAtTimers
  /\ UNCHANGED <<current, process_events, calls, exit_event, cancel_handler, bg, ghosts>>

\* pthread_cond_wait or pthread_cond_timedwait returns.  A return for no
\* reason finds nothing ready, waits again and so changes nothing.
WakeUp ==
  /\ disp = "wait"
  /\ signalled \/ (deadline # None /\ deadline <= 0)
  /\ LookAtTimers
  /\ UNCHANGED <<pools, current, event_cnt, process_events, calls, exit_event,
                 cancel_handler, bg, ghosts>>

\* Events with the runtime 0.0 are counted.
CountUntimed(ev) == IF ev.timed THEN event_cnt ELSE event_cnt + 1

Dispatch ==
  /\ \/ disp = "dispatch"
     \/ disp = "loop" /\ ~MustCollect(FALSE)
  /\ LET ev == Head(event_queue)
     IN  /\ current' = ev
         /\ event_cnt' = CountUntimed(ev)
         /\ CountTaken(ev.cb)
  /\ event_queue' = Tail(event_queue)
  /\ disp' = "handler" /\ calls' = 0
  /\ UNCHANGED <<timer_queue, pools, wait, process_events, exit_event,
                 cancel_handler, bg>>

\* The handler returns, its node is freed, the loop condition is tested.
HandlerReturn ==
  /\ disp = "handler" /\ current.cb # ExitHandler
  /\ FreeNode(current.node)
  /\ current' = None
  /\ disp' = IF process_events THEN "loop" ELSE "stopped"
  /\ UNCHANGED <<queues, wait, event_cnt, process_events, calls, exit_event,
                 cancel_handler, bg, ghosts>>

\* Fault: exit_event_handler stops the loop at once.
ExitEventHandlerStops_AtOnce ==
  /\ disp = "handler" /\ current.cb = ExitHandler
  /\ process_events' = FALSE
  /\ FreeNode(current.node)
  /\ current' = None
  /\ disp' = "stopped"
  /\ UNCHANGED <<queues, wait, event_cnt, calls, exit_event, cancel_handler, bg, ghosts>>

\* exit_event_handler: stop when the untimed queue has run empty, else go
\* round once more behind what is queued.
ExitEventHandlerStops ==
  /\ disp = "handler" /\ current.cb = ExitHandler
  /\ event_queue = <<>>
  /\ process_events' = FALSE
  /\ FreeNode(current.node)
  /\ current' = None
  /\ disp' = "stopped"
  /\ UNCHANGED <<queues, wait, event_cnt, calls, exit_event, cancel_handler, bg, ghosts>>

ExitEventHandlerReposts ==
  /\ disp = "handler" /\ current.cb = ExitHandler
  /\ event_queue # <<>>
  /\ \E n \in Nodes :
       /\ n \in IF free_queue = {} THEN {Heap} ELSE free_queue
       /\ free_queue' = (free_queue \ {n}) \cup ({current.node} \ {Heap})
       /\ event_queue' = Append(event_queue,
            [node |-> n, cb |-> ExitHandler, timed |-> FALSE, due |-> 0,
             imm |-> FALSE, src |-> Dispatcher, serial |-> serial])
  /\ current' = None
  /\ disp' = IF process_events THEN "loop" ELSE "stopped"
  /\ owed' = [owed EXCEPT ![ExitHandler] = @ + 1]
  /\ UNCHANGED <<timer_queue, free_bg_queue, wait, event_cnt, process_events, calls,
                 exit_event, cancel_handler, bg, serial, exit_serial>>

-----------------------------------------------------------------------------
(* What a client's handler may call.                                       *)

InHandler == /\ disp = "handler" /\ current.cb # ExitHandler
             /\ calls < MaxCalls
             /\ calls' = calls + 1

\* post_event on the dispatch thread.
PostEvent(cb) ==
  /\ InHandler
  /\ Len(event_queue) < MaxQueue /\ MayPost
  /\ \E n \in Nodes :
       /\ AllocNode(n)
       /\ event_queue' = Append(event_queue,
                           NewEvent(n, cb, FALSE, 0, TRUE, Dispatcher))
  /\ CountPost(cb)
  /\ UNCHANGED <<timer_queue, loop, wait, exit_event, cancel_handler, bg>>

\* post_event_with_delay on the dispatch thread: nobody waits on event_cond.
PostEventWithDelay(cb, d) ==
  /\ InHandler
  /\ Len(timer_queue) < MaxQueue /\ MayPost
  /\ \E n \in Nodes :
       /\ AllocNode(n)
       /\ timer_queue' = InsertTimer(timer_queue,
                           NewEvent(n, cb, TRUE, d, FALSE, Dispatcher))
  /\ CountPost(cb)
  /\ UNCHANGED <<event_queue, loop, wait, exit_event, cancel_handler, bg>>

\* cancel_event finds the event in event_queue,
CancelQueued(cb) ==
  /\ InHandler
  /\ Matches(event_queue, cb) # {}
  /\ LET k == Min(Matches(event_queue, cb))
     IN  /\ FreeNode(event_queue[k].node)
         /\ event_queue' = RemoveAt(event_queue, k)
  /\ CountTaken(cb)
  /\ UNCHANGED <<timer_queue, loop, wait, exit_event, cancel_handler, bg>>

\* or else in timer_queue,
CancelTimer(cb) ==
  /\ InHandler
  /\ Matches(event_queue, cb) = {}
  /\ Matches(timer_queue, cb) # {}
  /\ LET k == Min(Matches(timer_queue, cb))
     IN  /\ FreeNode(timer_queue[k].node)
         /\ timer_queue' = RemoveAt(timer_queue, k)
  /\ CountTaken(cb)
  /\ UNCHANGED <<event_queue, loop, wait, exit_event, cancel_handler, bg>>

\* or else waits for it.  Callers set "wait" only while a background thread
\* still owes them the post (rd_req, wr_req of channel_tcp.c, channel_pipe.c).
CancelWait(cb) ==
  /\ InHandler
  /\ Matches(event_queue, cb) = {} /\ Matches(timer_queue, cb) = {}
  /\ \E b \in BgThreads : bg[b].pc # "idle" /\ bg[b].cb = cb
  /\ cancel_handler' = cb
  /\ disp' = "cancel"
  /\ UNCHANGED <<queues, pools, wait, current, event_cnt, process_events,
                 exit_event, bg, ghosts>>

\* pthread_cond_wait(&cancel_cond) ends when cancel_handler is cleared.
CancelDone ==
  /\ disp = "cancel" /\ cancel_handler = None
  /\ disp' = "handler"
  /\ UNCHANGED <<queues, pools, wait, current, calls, event_cnt, process_events,
                 exit_event, cancel_handler, bg, ghosts>>

CancelEventLoop ==
  /\ InHandler
  /\ process_events' = FALSE
  /\ UNCHANGED <<queues, pools, disp, current, event_cnt, wait, exit_event,
                 cancel_handler, bg, ghosts>>

-----------------------------------------------------------------------------
(* The clock.                                                              *)

TickEvent(ev) == IF ev.timed THEN [ev EXCEPT !.due = @ - 1] ELSE ev

\* Time passes (CLOCK_MONOTONIC).  Bound: no runtime lies more than MaxLag ticks back.
Tick ==
  /\ disp # "stopped"
  /\ \A k \in DOMAIN timer_queue : timer_queue[k].due > -MaxLag
  /\ \A b \in BgThreads : bg[b].due > -MaxLag
  /\ timer_queue' = [k \in DOMAIN timer_queue |-> TickEvent(timer_queue[k])]
  /\ bg' = [b \in BgThreads |->
       IF bg[b].pc = "posting" THEN [bg[b] EXCEPT !.due = @ - 1] ELSE bg[b]]
  /\ deadline' = IF deadline = None THEN None ELSE deadline - 1
  /\ UNCHANGED <<event_queue, pools, loop, calls, signalled, exit_event,
                 cancel_handler, ghosts>>

-----------------------------------------------------------------------------
BgStep(b) == BgPostCancelled(b) \/ BgPost(b)
             \/ \E d \in Delays \cup {0} : BgReadClock(b, d)

\* Steps of run_event_loop itself; a handler's calls are ClientCall.
LoopStep == Collect \/ WakeUp \/ Dispatch \/ HandlerReturn \/ CancelDone
            \/ ExitEventHandlerStops \/ ExitEventHandlerReposts

ClientCall ==
  \/ \E cb \in Callbacks : PostEvent(cb) \/ CancelQueued(cb) \/ CancelTimer(cb)
                            \/ CancelWait(cb)
  \/ \E cb \in Callbacks, d \in Delays : PostEventWithDelay(cb, d)
  \/ CancelEventLoop

Next ==
  \/ \E b \in BgThreads : BgStep(b) \/ \E cb \in Callbacks : BgStart(b, cb)
  \/ ExitEventLoop
  \/ LoopStep
  \/ ClientCall
  \/ Tick

Spec == Init /\ [][Next]_vars

\* Threads are scheduled, handlers return (HandlerReturn is a LoopStep), a
\* request that was taken on is finished, and the clock advances.
Fairness ==
  /\ WF_vars(LoopStep)
  /\ \A b \in BgThreads : WF_vars(BgStep(b))
  /\ WF_vars(Tick)

FairSpec == Spec /\ Fairness

-----------------------------------------------------------------------------
(* Properties.                                                             *)

\* Every variable stays in its type: the queues hold event nodes, disp is a
\* place in run_event_loop or in a handler.
TypeOK ==
  /\ event_queue \in Seq(Event) /\ timer_queue \in Seq(Event)
  /\ free_queue \subseteq EventBuf /\ free_bg_queue \subseteq EventBuf
  /\ event_cnt \in Nat /\ process_events \in BOOLEAN /\ exit_event \in BOOLEAN
  /\ cancel_handler \in Callbacks \cup {None}
  /\ disp \in {"loop", "wait", "dispatch", "handler", "cancel", "stopped"}
  /\ current \in Event \cup {None} /\ calls \in 0..MaxCalls
  /\ signalled \in BOOLEAN /\ deadline \in Int \cup {None}
  /\ bg \in [BgThreads -> BgState]
  /\ serial \in Nat /\ exit_serial \in Nat
  /\ owed \in [AllCallbacks -> Int]

\* A sleeping dispatch thread never oversleeps: unless it has been signalled,
\* its wait ends no later than the runtime of the first timer, although
\* post_from_bg_thread signals only when it changes the head of the queue.
NoLostWakeup ==
  disp = "wait" /\ ~signalled =>
    /\ event_queue = <<>>
    /\ timer_queue # <<>> => /\ timer_queue[1].timed
                             /\ deadline # None
                             /\ deadline <= timer_queue[1].due

\* timer_queue is ordered by runtime whatever the order in which the posting
\* threads read the clock and take the lock.
TimerQueueSorted ==
  \A i, j \in DOMAIN timer_queue :
    i < j => ~Earlier(timer_queue[j], timer_queue[i])

NodeUses(n) ==
  Cardinality({k \in DOMAIN event_queue : event_queue[k].node = n})
  + Cardinality({k \in DOMAIN timer_queue : timer_queue[k].node = n})
  + (IF n \in free_queue THEN 1 ELSE 0)
  + (IF n \in free_bg_queue THEN 1 ELSE 0)
  + (IF current # None /\ current.node = n THEN 1 ELSE 0)

\* Each node of event_buf is in exactly one place: it is neither lost nor
\* reused while an event still sits in it, across the two free lists of
\* which only one is guarded by the lock.
NodesInOnePlace == \A n \in EventBuf : NodeUses(n) = 1

\* No event is lost or doubled: what is owed to a callback is what is queued
\* for it, through collection, cancellation and exit.
EventsConserved ==
  \A cb \in AllCallbacks :
    owed[cb] = Cardinality(Matches(event_queue, cb))
               + Cardinality(Matches(timer_queue, cb))

pending == event_queue \o timer_queue

\* The post_event calls of one thread are dispatched in the order in which
\* they were made, as long as exit_event_loop has not been called.
FifoPerThread ==
  exit_event =>
    \A i, j \in DOMAIN pending :
      /\ i < j
      /\ pending[i].imm /\ pending[j].imm
      /\ pending[i].src = pending[j].src
      => pending[i].serial <= pending[j].serial

\* exit_event_loop lets the loop finish every event of post_event that was
\* queued before it, even when they still sit in timer_queue.
ExitDrainsImmediate ==
  disp = "stopped" /\ process_events = FALSE /\ owed[ExitHandler] = 0 /\ ~exit_event =>
    \A i \in DOMAIN pending : pending[i].imm => pending[i].serial > exit_serial

Untimed(q) == {k \in DOMAIN q : ~q[k].timed}

\* The untimed queue, which is first in first out, is not starved by posts of
\* other threads, although those overtake it: new timer events are only
\* collected after an untimed one was dispatched.
QueueNotStarved ==
  (Untimed(event_queue) # {}) ~>
    \/ Untimed(event_queue) = {}
    \/ current # None /\ ~current.timed
    \/ disp = "stopped"

\* Timers are not starved by handlers that keep posting to the untimed queue:
\* until it stops, the loop looks at timer_queue again and again, whether or
\* not events_timer_ms is maintained.
TimersLookedAt ==
  \/ <>(disp = "stopped")
  \/ []<>(disp \in {"wait", "dispatch"})

\* cancel_event(.., 1) returns: the post it waits for reaches it, whichever
\* thread makes it and whatever else is posted meanwhile.
CancelReturns == (disp = "cancel") ~> (disp # "cancel")

\* Nothing of the queue is lost or shared: nodes are in one place, and so are
\* events, while three lists of nodes and two of events change hands between
\* the loop and the posting threads.
NothingLost == NodesInOnePlace /\ EventsConserved

\* Untimed events and timers do not starve each other.
NothingStarved == QueueNotStarved /\ TimersLookedAt
=============================================================================
