-------------------------- MODULE EventQueueProofs --------------------------
EXTENDS EventQueue, ProofLemmas

\* The position at which a search loop stops: the first hit, else n.
LEMMA FirstOfFacts ==
  ASSUME NEW S, S \subseteq Nat, NEW n \in Nat
  PROVE  /\ FirstOf(S, n) \in S \cup {n}
         /\ FirstOf(S, n) <= n
         /\ \A y \in S : FirstOf(S, n) <= y
<1>1. S \cup {n} \subseteq Nat /\ S \cup {n} # {}
  OBVIOUS
<1> QED
  BY <1>1, MinNat DEF FirstOf

-----------------------------------------------------------------------------
(* Queues ordered by runtime.                                              *)

Sorted(q) == \A i, j \in 1 .. Len(q) : i < j => ~Earlier(q[j], q[i])

\* time_cmp orders the runtimes.
LEMMA EarlierTransitive ==
  ASSUME NEW x \in Event, NEW y \in Event, NEW z \in Event,
         Earlier(x, y), Earlier(y, z)
  PROVE  Earlier(x, z)
  BY DEF Earlier, Event

\* The loop stops at the first later event, or at the end.
LEMMA InsertPosFacts ==
  ASSUME NEW q \in Seq(Event), NEW ev \in Event
  PROVE  /\ InsertPos(q, ev) \in 1 .. Len(q) + 1
         /\ InsertPos(q, ev) <= Len(q) => Earlier(ev, q[InsertPos(q, ev)])
         /\ \A k \in 1 .. Len(q) : k < InsertPos(q, ev) => ~Earlier(ev, q[k])
<1> DEFINE S == {k \in DOMAIN q : Earlier(ev, q[k])}
<1>1. Len(q) \in Nat /\ DOMAIN q = 1 .. Len(q)
  BY LenProperties
<1>2. S \subseteq 1 .. Len(q)
  BY <1>1
<1>3. S \subseteq Nat /\ Len(q) + 1 \in Nat
  BY <1>1, <1>2
<1>4. InsertPos(q, ev) = FirstOf(S, Len(q) + 1)
  BY DEF InsertPos
<1>5. /\ InsertPos(q, ev) \in S \cup {Len(q) + 1}
      /\ InsertPos(q, ev) <= Len(q) + 1
      /\ \A y \in S : InsertPos(q, ev) <= y
  <2> DEFINE n == Len(q) + 1
  <2>1. S \subseteq Nat /\ n \in Nat
    BY <1>3
  <2> HIDE DEF S, n
  <2>2. /\ FirstOf(S, n) \in S \cup {n}
        /\ FirstOf(S, n) <= n
        /\ \A y \in S : FirstOf(S, n) <= y
    BY <2>1, FirstOfFacts
  <2> QED
    BY <1>4, <2>2 DEF n
<1>6. InsertPos(q, ev) \in 1 .. Len(q) + 1
  BY <1>1, <1>2, <1>5
<1>7. InsertPos(q, ev) <= Len(q) => InsertPos(q, ev) \in S
  BY <1>1, <1>5, <1>6
<1>8. ASSUME NEW k \in 1 .. Len(q), k < InsertPos(q, ev) PROVE ~Earlier(ev, q[k])
  <2>1. k \notin S
    BY <1>1, <1>5, <1>6, <1>8
  <2> QED
    BY <1>1, <2>1
<1> QED
  BY <1>6, <1>7, <1>8

\* Insertion keeps the order, and changes the head only at position 1.
LEMMA InsertTimerFacts ==
  ASSUME NEW q \in Seq(Event), NEW ev \in Event, Sorted(q)
  PROVE  /\ InsertTimer(q, ev) \in Seq(Event)
         /\ Len(InsertTimer(q, ev)) = Len(q) + 1
         /\ Sorted(InsertTimer(q, ev))
         /\ InsertPos(q, ev) # 1 => q # <<>> /\ InsertTimer(q, ev)[1] = q[1]
<1> DEFINE p == InsertPos(q, ev)
           r == InsertTimer(q, ev)
<1>1. Len(q) \in Nat /\ \A k \in 1 .. Len(q) : q[k] \in Event
  BY LenProperties, ElementOfSeq
<1>2. /\ p \in 1 .. Len(q) + 1
      /\ p <= Len(q) => Earlier(ev, q[p])
      /\ \A k \in 1 .. Len(q) : k < p => ~Earlier(ev, q[k])
  BY InsertPosFacts
<1>3. /\ r \in Seq(Event) /\ Len(r) = Len(q) + 1
      /\ \A k \in 1 .. Len(q) + 1 :
           r[k] = IF k < p THEN q[k] ELSE IF k = p THEN ev ELSE q[k - 1]
  <2>1. r = InsertAt(q, p, ev)
    BY DEF InsertTimer
  <2>2. p \in 1 .. Len(q) + 1
    BY <1>2
  <2> HIDE DEF p, r
  <2>3. /\ InsertAt(q, p, ev) \in Seq(Event)
        /\ Len(InsertAt(q, p, ev)) = Len(q) + 1
        /\ \A k \in 1 .. Len(q) + 1 :
             InsertAt(q, p, ev)[k] = IF k < p THEN q[k]
                                     ELSE IF k = p THEN ev ELSE q[k - 1]
    BY <2>2, InsertAtFacts
  <2> QED
    BY <2>1, <2>3, Zenon
<1> HIDE DEF p, r
<1>4. ASSUME NEW k \in 1 .. Len(q), k >= p PROVE ~Earlier(q[k], ev)
  <2>1. p \in 1 .. Len(q) /\ Earlier(ev, q[p])
    BY <1>1, <1>2, <1>4
  <2>2. q[k] \in Event /\ q[p] \in Event
    BY <1>1, <2>1
  <2>3. k = p \/ ~Earlier(q[k], q[p])
    BY <1>1, <1>4, <2>1 DEF Sorted
  <2>4. CASE k = p
    BY SMTT(40), <2>1, <2>2, <2>4 DEF Earlier, Event
  <2>5. CASE ~Earlier(q[k], q[p])
    BY <2>1, <2>2, <2>5, EarlierTransitive
  <2> QED
    BY <2>3, <2>4, <2>5
<1>5. ASSUME NEW i \in 1 .. Len(q) + 1, NEW j \in 1 .. Len(q) + 1, i < j
      PROVE  ~Earlier(r[j], r[i])
  <2>1. CASE j < p
    <3>1. i \in 1 .. Len(q) /\ j \in 1 .. Len(q) /\ r[i] = q[i] /\ r[j] = q[j]
      BY <1>1, <1>2, <1>3, <1>5, <2>1
    <3> QED
      BY <1>5, <3>1 DEF Sorted
  <2>2. CASE j = p
    <3>1. i \in 1 .. Len(q) /\ i < p /\ r[i] = q[i] /\ r[j] = ev
      BY <1>1, <1>2, <1>3, <1>5, <2>2
    <3> QED
      BY <1>2, <3>1
  <2>3. CASE j > p
    <3>1. j - 1 \in 1 .. Len(q) /\ j - 1 >= p /\ r[j] = q[j - 1]
      BY <1>1, <1>2, <1>3, <1>5, <2>3
    <3>2. CASE i < p
      <4>1. i \in 1 .. Len(q) /\ i < j - 1
        BY <1>1, <1>2, <2>3, <3>2
      <4>2. r[i] = q[i]
        BY <1>3, <3>2
      <4> QED
        BY <3>1, <4>1, <4>2 DEF Sorted
    <3>3. CASE i = p
      <4>1. r[i] = ev
        BY <1>3, <3>3
      <4> QED
        BY <1>4, <3>1, <4>1
    <3>4. CASE i > p
      <4>1. i - 1 \in 1 .. Len(q) /\ i - 1 < j - 1 /\ r[i] = q[i - 1]
        BY <1>1, <1>2, <1>3, <1>5, <3>4
      <4> QED
        BY <3>1, <4>1 DEF Sorted
    <3> QED
      BY <1>2, <3>2, <3>3, <3>4
  <2> QED
    BY <1>2, <2>1, <2>2, <2>3
<1>6. Sorted(r)
  BY <1>3, <1>5 DEF Sorted
<1>7. p # 1 => q # <<>> /\ r[1] = q[1]
  BY <1>1, <1>2, <1>3
<1> QED
  BY <1>3, <1>6, <1>7 DEF p, r

\* The loop that looks for ready events stops at the first one that is not.
LEMMA ReadyCountFacts ==
  ASSUME NEW q \in Seq(Event)
  PROVE  /\ ReadyCount(q) \in 0 .. Len(q)
         /\ ReadyCount(q) = 0 /\ q # <<>> => ~Due(q[1])
<1> DEFINE S == {k \in DOMAIN q : ~Due(q[k])}
           n == Len(q) + 1
<1>1. Len(q) \in Nat /\ DOMAIN q = 1 .. Len(q) /\ (q # <<>> => Len(q) >= 1)
  BY LenProperties, EmptySeq
<1>2. S \subseteq 1 .. Len(q) /\ S \subseteq Nat /\ n \in Nat
  BY <1>1
<1>3. ReadyCount(q) = FirstOf(S, n) - 1
  BY DEF ReadyCount
<1>4. n = Len(q) + 1 /\ (1 \in S => ~Due(q[1]))
  OBVIOUS
<1> HIDE DEF S, n
<1>5. FirstOf(S, n) \in S \cup {n}
  BY <1>2, FirstOfFacts
<1>6. FirstOf(S, n) \in 1 .. Len(q) + 1
  <2>1. CASE FirstOf(S, n) = n
    BY <1>1, <1>4, <2>1
  <2>2. CASE FirstOf(S, n) \in S
    <3>1. FirstOf(S, n) \in 1 .. Len(q)
      BY <1>2, <2>2
    <3> QED
      BY <1>1, <3>1
  <2> QED
    BY <1>5, <2>1, <2>2
<1>7. ReadyCount(q) = 0 /\ q # <<>> => 1 \in S
  BY <1>1, <1>3, <1>4, <1>5, <1>6
<1> QED
  BY <1>1, <1>3, <1>4, <1>6, <1>7

\* What is left of the timer queue is in order.
LEMMA SuffixSorted ==
  ASSUME NEW q \in Seq(Event), Sorted(q), NEW n \in 0 .. Len(q)
  PROVE  /\ SubSeq(q, n + 1, Len(q)) \in Seq(Event)
         /\ Sorted(SubSeq(q, n + 1, Len(q)))
<1> DEFINE r == SubSeq(q, n + 1, Len(q))
<1>1. Len(q) \in Nat /\ \A k \in 1 .. Len(q) : q[k] \in Event
  BY LenProperties, ElementOfSeq
<1>2. /\ r \in Seq(Event) /\ Len(r) = Len(q) - n
      /\ \A k \in 1 .. Len(q) - n : r[k] = q[n + k]
  <2>1. \A k \in n + 1 .. Len(q) : q[k] \in Event
    BY <1>1
  <2> QED
    BY <1>1, <2>1, SubSeqProperties
<1> HIDE DEF r
<1>3. ASSUME NEW i \in 1 .. Len(r), NEW j \in 1 .. Len(r), i < j
      PROVE  ~Earlier(r[j], r[i])
  <2>1. /\ n + i \in 1 .. Len(q) /\ n + j \in 1 .. Len(q) /\ n + i < n + j
    BY <1>1, <1>2, <1>3
  <2>2. r[i] = q[n + i] /\ r[j] = q[n + j]
    BY <1>2, <1>3
  <2> QED
    BY <2>1, <2>2 DEF Sorted
<1> QED
  BY <1>2, <1>3 DEF Sorted, r

\* A queue from which an event was cancelled is in order.
LEMMA RemoveSorted ==
  ASSUME NEW q \in Seq(Event), Sorted(q), NEW k \in 1 .. Len(q)
  PROVE  Sorted(RemoveAt(q, k))
<1> DEFINE r == RemoveAt(q, k)
<1>1. Len(q) \in Nat
  BY LenProperties
<1>2. /\ Len(r) = Len(q) - 1
      /\ \A m \in 1 .. Len(q) - 1 : r[m] = IF m < k THEN q[m] ELSE q[m + 1]
  BY RemoveAtFacts
<1> HIDE DEF r
<1>3. ASSUME NEW i \in 1 .. Len(r), NEW j \in 1 .. Len(r), i < j
      PROVE  ~Earlier(r[j], r[i])
  <2>1. PICK a \in 1 .. Len(q) : r[i] = q[a] /\ a = IF i < k THEN i ELSE i + 1
    BY <1>1, <1>2, <1>3
  <2>2. PICK b \in 1 .. Len(q) : r[j] = q[b] /\ b = IF j < k THEN j ELSE j + 1
    BY SMTT(40), <1>1, <1>2, <1>3
  <2>3. a < b
    BY <1>1, <1>2, <1>3, <2>1, <2>2
  <2> QED
    BY <2>1, <2>2, <2>3 DEF Sorted
<1> QED
  BY <1>3 DEF Sorted, r

-----------------------------------------------------------------------------
(* The inductive invariant.                                                *)

\* Between the two halves of a dispatch the dispatch thread has what it needs:
\* a handler runs for an event, and "dispatch" is entered with work to do.
HandlerHasEvent == disp \in {"handler", "cancel"} => current \in Event
DispatchHasWork == disp = "dispatch" => event_queue # <<>>

IInv == /\ TypeOK /\ NoLostWakeup /\ Sorted(timer_queue)
        /\ HandlerHasEvent /\ DispatchHasWork

\* A new event node is well formed.
LEMMA NewEventType ==
  ASSUME TypeOK, NEW n \in Nodes, NEW cb \in AllCallbacks, NEW timed \in BOOLEAN,
         NEW due \in Int, NEW imm \in BOOLEAN, NEW src \in Threads
  PROVE  /\ NewEvent(n, cb, timed, due, imm, src) \in Event
         /\ NewEvent(n, cb, timed, due, imm, src).timed = timed
         /\ NewEvent(n, cb, timed, due, imm, src).due = due
  BY EventQueueAssumption DEF NewEvent, Event, NextSerial, TypeOK

\* The counters of the history keep their types.
LEMMA CountType ==
  ASSUME TypeOK, NEW cb \in AllCallbacks, CountPost(cb) \/ CountTaken(cb)
  PROVE  serial' \in Nat /\ exit_serial' \in Nat /\ owed' \in [AllCallbacks -> Int]
  BY EventQueueAssumption DEF TypeOK, CountPost, CountTaken, NextSerial

\* The free lists hold nodes of event_buf, whoever takes or gives one.
LEMMA PoolType ==
  ASSUME TypeOK,
         NEW n, AllocNode(n) \/ AllocNodeBg(n) \/ (n \in Nodes /\ FreeNode(n))
  PROVE  free_queue' \subseteq EventBuf /\ free_bg_queue' \subseteq EventBuf /\ n \in Nodes
  BY DEF TypeOK, AllocNode, AllocNodeBg, FreeNode, Nodes

\* What the body of the loop in run_event_loop leaves behind: either it sleeps
\* until the first timer, or there is an event to dispatch.
LEMMA LookAtTimersFacts ==
  ASSUME IInv, LookAtTimers
  PROVE  /\ event_queue' \in Seq(Event) /\ timer_queue' \in Seq(Event)
         /\ disp' \in {"wait", "dispatch"} /\ signalled' = FALSE
         /\ deadline' \in Int \cup {None}
         /\ NoLostWakeup' /\ Sorted(timer_queue') /\ DispatchHasWork'
<1> DEFINE n == ReadyCount(timer_queue)
<1>1. /\ event_queue \in Seq(Event) /\ timer_queue \in Seq(Event) /\ Sorted(timer_queue)
      /\ Len(timer_queue) \in Nat
  BY LenProperties DEF IInv, TypeOK
<1>2. /\ n \in 0 .. Len(timer_queue)
      /\ n = 0 /\ timer_queue # <<>> => ~Due(timer_queue[1])
  BY <1>1, ReadyCountFacts
<1>3. timer_queue # <<>> => timer_queue[1] \in Event
  BY <1>1, ElementOfSeq, EmptySeq, LenProperties
<1>4. CASE event_queue = <<>> /\ n = 0
  <2>1. /\ disp' = "wait" /\ signalled' = FALSE
        /\ deadline' = IF timer_queue = <<>> THEN None ELSE timer_queue[1].due
        /\ event_queue' = event_queue /\ timer_queue' = timer_queue
    BY <1>4 DEF LookAtTimers, queues
  <2>2. timer_queue # <<>> => /\ timer_queue[1].timed /\ timer_queue[1].due \in Int
    BY <1>2, <1>3, <1>4 DEF Due, Event
  <2>3. timer_queue # <<>> => deadline' # None /\ deadline' <= timer_queue[1].due
    BY <2>1, <2>2, EventQueueAssumption
  <2>4. NoLostWakeup'
    BY <1>4, <2>1, <2>2, <2>3 DEF NoLostWakeup
  <2> QED
    BY <1>1, <2>1, <2>2, <2>4 DEF DispatchHasWork
<1>5. CASE ~(event_queue = <<>> /\ n = 0)
  <2> DEFINE ready == [k \in 1 .. n |-> [timer_queue[k] EXCEPT !.due = 0]]
  <2>1. /\ disp' = "dispatch" /\ signalled' = FALSE /\ deadline' = None
        /\ event_queue' = ready \o event_queue
        /\ timer_queue' = SubSeq(timer_queue, n + 1, Len(timer_queue))
    BY <1>5 DEF LookAtTimers, MoveReady
  <2>2. ASSUME NEW k \in 1 .. n PROVE [timer_queue[k] EXCEPT !.due = 0] \in Event
    <3>1. k \in 1 .. Len(timer_queue)
      BY <1>1, <1>2
    <3>2. timer_queue[k] \in Event
      BY <1>1, <3>1, ElementOfSeq
    <3> QED
      BY <3>2 DEF Event
  <2>3. ready \in Seq(Event) /\ Len(ready) = n
    <3>1. n \in Nat
      BY <1>1, <1>2
    <3> HIDE DEF n
    <3> QED
      BY <2>2, <3>1, IsASeq
  <2>4. timer_queue' \in Seq(Event) /\ Sorted(timer_queue')
    <3>1. /\ SubSeq(timer_queue, n + 1, Len(timer_queue)) \in Seq(Event)
          /\ Sorted(SubSeq(timer_queue, n + 1, Len(timer_queue)))
      <4> HIDE DEF n
      <4> QED
        BY <1>1, <1>2, SuffixSorted
    <3> QED
      BY <2>1, <3>1
  <2> HIDE DEF ready, n
  <2>5. event_queue' \in Seq(Event) /\ Len(event_queue') = n + Len(event_queue)
    BY <1>1, <2>1, <2>3, ConcatProperties
  <2>6. event_queue # <<>> => Len(event_queue) \in Nat /\ Len(event_queue) > 0
    BY <1>1, EmptySeq, LenProperties
  <2>7. Len(event_queue') > 0
    <3>1. CASE event_queue = <<>>
      <4>1. Len(event_queue) = 0 /\ n # 0
        BY <1>5, <3>1, EmptySeq
      <4> QED
        BY <1>1, <1>2, <2>5, <4>1
    <3>2. CASE event_queue # <<>>
      BY <1>1, <1>2, <2>5, <2>6, <3>2
    <3> QED
      BY <3>1, <3>2
  <2>8. event_queue' # <<>>
    BY <2>7, EmptySeq
  <2> QED
    BY <2>1, <2>4, <2>5, <2>8 DEF NoLostWakeup, DispatchHasWork
<1> QED
  BY <1>4, <1>5

-----------------------------------------------------------------------------
(* One lemma per group of actions.                                         *)

\* A step that only touches what a background thread is doing, or what
\* cancel_event waits for, disturbs nothing.
LEMMA BgFrame ==
  ASSUME IInv, bg' \in [BgThreads -> BgState], cancel_handler' \in Callbacks \cup {None},
         UNCHANGED <<queues, pools, loop, calls, wait, exit_event, ghosts>>
  PROVE  IInv'
<1>1. /\ event_queue' = event_queue /\ timer_queue' = timer_queue
      /\ free_queue' = free_queue /\ free_bg_queue' = free_bg_queue
      /\ disp' = disp /\ current' = current /\ event_cnt' = event_cnt
      /\ process_events' = process_events /\ calls' = calls
      /\ signalled' = signalled /\ deadline' = deadline /\ exit_event' = exit_event
      /\ serial' = serial /\ exit_serial' = exit_serial /\ owed' = owed
  BY DEF queues, pools, loop, wait, ghosts
<1>2. TypeOK'
  BY <1>1 DEF IInv, TypeOK
<1>3. NoLostWakeup' /\ HandlerHasEvent' /\ DispatchHasWork'
  BY <1>1 DEF IInv, NoLostWakeup, HandlerHasEvent, DispatchHasWork
<1>4. Sorted(timer_queue')
  BY <1>1 DEF IInv
<1> QED
  BY <1>2, <1>3, <1>4 DEF IInv

\* post_from_bg_thread, the thread's other steps.
LEMMA BgKeepsIInv ==
  ASSUME IInv, NEW b \in BgThreads,
         \/ BgPostCancelled(b)
         \/ \E cb \in Callbacks : BgStart(b, cb)
         \/ \E d \in Delays \cup {0} : BgReadClock(b, d)
  PROVE  IInv'
<1>1. CASE BgPostCancelled(b)
  <2>1. bg' \in [BgThreads -> BgState]
    BY <1>1 DEF IInv, TypeOK, BgPostCancelled, IdleBg, BgState, AllCallbacks
  <2> QED
    BY <1>1, <2>1, BgFrame DEF BgPostCancelled
<1>2. ASSUME NEW cb \in Callbacks, BgStart(b, cb) PROVE IInv'
  <2>1. bg' \in [BgThreads -> BgState]
    BY ZenonT(60), <1>2 DEF IInv, TypeOK, BgStart, BgState, AllCallbacks
  <2> QED
    BY <1>2, <2>1, BgFrame DEF BgStart, IInv, TypeOK
<1>3. ASSUME NEW d \in Delays \cup {0}, BgReadClock(b, d) PROVE IInv'
  <2>1. d \in Int
    BY EventQueueAssumption
  <2>2. bg' \in [BgThreads -> BgState]
    <3> DEFINE imm == (d = 0)
               r == [bg[b] EXCEPT !.pc = "posting", !.due = d, !.imm = imm]
    <3>1. imm \in BOOLEAN
      OBVIOUS
    <3>2. bg \in [BgThreads -> BgState] /\ bg' = [bg EXCEPT ![b] = r]
      BY <1>3 DEF IInv, TypeOK, BgReadClock
    <3> HIDE DEF imm
    <3>3. r \in BgState
      BY <2>1, <3>1, <3>2 DEF BgState
    <3> HIDE DEF r
    <3> QED
      BY <3>2, <3>3
  <2> QED
    BY <1>3, <2>2, BgFrame DEF BgReadClock, IInv, TypeOK
<1> QED
  BY <1>1, <1>2, <1>3

\* post_from_bg_thread under the lock: the thread that may be asleep is
\* signalled when, and only when, the head of timer_queue changes.
LEMMA BgPostKeepsIInv ==
  ASSUME IInv, NEW b \in BgThreads, BgPost(b)
  PROVE  IInv'
<1>1. /\ TypeOK /\ timer_queue \in Seq(Event) /\ Sorted(timer_queue)
      /\ bg[b] \in BgState
  BY DEF IInv, TypeOK
<1>2. PICK n \in Nodes :
        /\ AllocNodeBg(n)
        /\ LET ev == NewEvent(n, bg[b].cb, TRUE, bg[b].due, bg[b].imm, b)
           IN  /\ timer_queue' = InsertTimer(timer_queue, ev)
               /\ IF InsertPos(timer_queue, ev) = 1
                  THEN SignalEventCond
                  ELSE UNCHANGED signalled
  BY DEF BgPost
<1> DEFINE ev == NewEvent(n, bg[b].cb, TRUE, bg[b].due, bg[b].imm, b)
<1>3. ev \in Event
  <2>1. bg[b].cb \in AllCallbacks /\ bg[b].due \in Int /\ bg[b].imm \in BOOLEAN
    BY <1>1 DEF BgState
  <2>2. b \in Threads
    BY DEF Threads
  <2> QED
    BY <1>1, <2>1, <2>2, NewEventType
<1>4. /\ timer_queue' = InsertTimer(timer_queue, ev)
      /\ InsertPos(timer_queue, ev) = 1 => SignalEventCond
      /\ InsertPos(timer_queue, ev) # 1 => signalled' = signalled
  BY <1>2
<1> HIDE DEF ev
<1>5. /\ timer_queue' \in Seq(Event) /\ Sorted(timer_queue')
      /\ InsertPos(timer_queue, ev) # 1 =>
           timer_queue # <<>> /\ timer_queue'[1] = timer_queue[1]
  BY <1>1, <1>3, <1>4, InsertTimerFacts
<1>6. signalled' \in BOOLEAN
  BY <1>1, <1>4 DEF TypeOK, SignalEventCond
<1>7. free_queue' \subseteq EventBuf /\ free_bg_queue' \subseteq EventBuf
  BY <1>1, <1>2, PoolType
<1>8. serial' \in Nat /\ exit_serial' \in Nat /\ owed' \in [AllCallbacks -> Int]
  <2>1. bg[b].cb \in AllCallbacks /\ CountPost(bg[b].cb)
    BY <1>1 DEF BgState, BgPost
  <2> QED
    BY <1>1, <2>1, CountType
<1>9. bg' \in [BgThreads -> BgState]
  BY <1>1 DEF TypeOK, BgPost, IdleBg, BgState, AllCallbacks
<1>10. TypeOK'
  BY <1>1, <1>5, <1>6, <1>7, <1>8, <1>9 DEF TypeOK, BgPost, loop
<1>11. NoLostWakeup'
  <2>1. SUFFICES ASSUME disp = "wait", ~signalled'
                 PROVE  /\ event_queue = <<>>
                        /\ timer_queue' # <<>> => /\ timer_queue'[1].timed
                                                  /\ deadline # None
                                                  /\ deadline <= timer_queue'[1].due
    BY DEF BgPost, NoLostWakeup, loop
  <2>2. InsertPos(timer_queue, ev) # 1 /\ signalled' = signalled
    BY <1>4, <2>1 DEF SignalEventCond
  <2> QED
    BY <1>5, <2>1, <2>2 DEF IInv, NoLostWakeup
<1> QED
  BY <1>5, <1>10, <1>11
  DEF IInv, HandlerHasEvent, DispatchHasWork, BgPost, loop

\* exit_event_loop puts an event with the runtime 0.0 in front of the timers.
LEMMA ExitEventLoopKeepsIInv ==
  ASSUME IInv, ExitEventLoop
  PROVE  IInv'
<1> DEFINE ev == [node |-> Heap, cb |-> ExitHandler, timed |-> FALSE, due |-> 0,
                  imm |-> FALSE, src |-> Dispatcher, serial |-> serial]
<1>1. /\ TypeOK /\ timer_queue \in Seq(Event) /\ Sorted(timer_queue)
      /\ Len(timer_queue) \in Nat
  BY LenProperties DEF IInv, TypeOK
<1>2. ev \in Event /\ ~ev.timed
  BY <1>1 DEF TypeOK, Event, Nodes, AllCallbacks, Threads
<1>3. timer_queue' = <<ev>> \o timer_queue
  BY DEF ExitEventLoop
<1> HIDE DEF ev
<1>4. <<ev>> \in Seq(Event) /\ Len(<<ev>>) = 1 /\ <<ev>>[1] = ev
  BY <1>2
<1>5. /\ timer_queue' \in Seq(Event) /\ Len(timer_queue') = Len(timer_queue) + 1
      /\ timer_queue'[1] = ev
      /\ \A k \in 2 .. Len(timer_queue) + 1 : timer_queue'[k] = timer_queue[k - 1]
  <2> DEFINE h == <<ev>>
  <2>1. h \in Seq(Event) /\ Len(h) = 1 /\ h[1] = ev /\ timer_queue' = h \o timer_queue
    BY <1>3, <1>4
  <2> HIDE DEF h
  <2>2. /\ h \o timer_queue \in Seq(Event)
        /\ Len(h \o timer_queue) = Len(h) + Len(timer_queue)
        /\ \A k \in 1 .. Len(h) + Len(timer_queue) :
             (h \o timer_queue)[k] = IF k <= Len(h) THEN h[k] ELSE timer_queue[k - Len(h)]
    BY <1>1, <2>1, ConcatProperties
  <2> QED
    BY <1>1, <2>1, <2>2
<1>6. Sorted(timer_queue')
  <2> SUFFICES ASSUME NEW i \in 1 .. Len(timer_queue'), NEW j \in 1 .. Len(timer_queue'),
                      i < j
               PROVE  ~Earlier(timer_queue'[j], timer_queue'[i])
    BY DEF Sorted
  <2>1. CASE i = 1
    BY <1>2, <1>5, <2>1 DEF Earlier
  <2>2. CASE i # 1
    <3>1. /\ i - 1 \in 1 .. Len(timer_queue) /\ j - 1 \in 1 .. Len(timer_queue)
          /\ i - 1 < j - 1
          /\ timer_queue'[i] = timer_queue[i - 1] /\ timer_queue'[j] = timer_queue[j - 1]
      BY <1>1, <1>5, <2>2
    <3> QED
      BY <1>1, <3>1 DEF Sorted
  <2> QED
    BY <2>1, <2>2
<1>7. /\ signalled' \in BOOLEAN /\ (disp = "wait" => signalled')
      /\ exit_serial' \in Nat /\ owed' \in [AllCallbacks -> Int] /\ exit_event' = FALSE
  <2>1. signalled' \in BOOLEAN /\ (disp = "wait" => signalled')
    BY <1>1 DEF TypeOK, ExitEventLoop, SignalEventCond
  <2>2. exit_serial' \in Nat /\ owed' \in [AllCallbacks -> Int] /\ exit_event' = FALSE
    BY <1>1 DEF TypeOK, ExitEventLoop, AllCallbacks
  <2> QED
    BY <2>1, <2>2
<1>8. TypeOK'
  BY <1>1, <1>5, <1>7 DEF TypeOK, ExitEventLoop, pools, loop
<1> QED
  BY <1>6, <1>7, <1>8
  DEF IInv, NoLostWakeup, HandlerHasEvent, DispatchHasWork, ExitEventLoop, loop

\* While a handler runs the dispatch thread is awake, so a step of the handler
\* owes nothing to NoLostWakeup.
LEMMA HandlerFrame ==
  ASSUME IInv, disp = "handler", TypeOK', Sorted(timer_queue'),
         \/ disp' \in {"loop", "stopped"}
         \/ disp' \in {"handler", "cancel"} /\ current' = current
  PROVE  IInv'
  BY DEF IInv, NoLostWakeup, HandlerHasEvent, DispatchHasWork

\* A call of a handler is counted.
LEMMA CallCounted ==
  ASSUME IInv, InHandler
  PROVE  /\ disp = "handler" /\ current \in Event
         /\ calls' \in 0 .. MaxCalls
<1>1. calls \in 0 .. MaxCalls /\ calls < MaxCalls /\ calls' = calls + 1 /\ MaxCalls \in Nat
  BY EventQueueAssumption DEF IInv, TypeOK, InHandler
<1>2. calls' \in 0 .. MaxCalls
  BY <1>1
<1> QED
  BY <1>2 DEF IInv, HandlerHasEvent, InHandler

\* post_event on the dispatch thread.
LEMMA PostEventKeepsIInv ==
  ASSUME IInv, NEW cb \in Callbacks, PostEvent(cb)
  PROVE  IInv'
<1>1. /\ disp = "handler" /\ calls' \in 0 .. MaxCalls
      /\ TypeOK /\ Sorted(timer_queue) /\ event_queue \in Seq(Event)
  BY CallCounted DEF PostEvent, IInv, TypeOK
<1>2. PICK n \in Nodes :
        /\ AllocNode(n)
        /\ event_queue' = Append(event_queue, NewEvent(n, cb, FALSE, 0, TRUE, Dispatcher))
  BY DEF PostEvent
<1>3. NewEvent(n, cb, FALSE, 0, TRUE, Dispatcher) \in Event
  <2>1. cb \in AllCallbacks /\ Dispatcher \in Threads /\ 0 \in Int
    BY DEF AllCallbacks, Threads
  <2> QED
    BY <1>1, <2>1, NewEventType
<1>4. event_queue' \in Seq(Event)
  BY <1>1, <1>2, <1>3, AppendProperties
<1>5. free_queue' \subseteq EventBuf /\ free_bg_queue' \subseteq EventBuf
  BY <1>1, <1>2, PoolType
<1>6. serial' \in Nat /\ exit_serial' \in Nat /\ owed' \in [AllCallbacks -> Int]
  <2>1. cb \in AllCallbacks /\ CountPost(cb)
    BY DEF AllCallbacks, PostEvent
  <2> QED
    BY <1>1, <2>1, CountType
<1>7. TypeOK'
  BY <1>1, <1>4, <1>5, <1>6 DEF TypeOK, PostEvent, loop, wait
<1>8. disp' = "handler" /\ current' = current /\ timer_queue' = timer_queue
  BY <1>1 DEF PostEvent, loop
<1>9. Sorted(timer_queue')
  BY <1>1, <1>8
<1> QED
  BY <1>1, <1>7, <1>8, <1>9, HandlerFrame

\* post_event_with_delay on the dispatch thread.
LEMMA PostEventWithDelayKeepsIInv ==
  ASSUME IInv, NEW cb \in Callbacks, NEW d \in Delays, PostEventWithDelay(cb, d)
  PROVE  IInv'
<1>1. /\ disp = "handler" /\ calls' \in 0 .. MaxCalls
      /\ TypeOK /\ Sorted(timer_queue) /\ timer_queue \in Seq(Event)
  BY CallCounted DEF PostEventWithDelay, IInv, TypeOK
<1>2. PICK n \in Nodes :
        /\ AllocNode(n)
        /\ timer_queue' = InsertTimer(timer_queue, NewEvent(n, cb, TRUE, d, FALSE, Dispatcher))
  BY DEF PostEventWithDelay
<1> DEFINE ev == NewEvent(n, cb, TRUE, d, FALSE, Dispatcher)
<1>3. ev \in Event
  <2>1. cb \in AllCallbacks /\ Dispatcher \in Threads /\ d \in Int
    BY EventQueueAssumption DEF AllCallbacks, Threads
  <2> QED
    BY <1>1, <2>1, NewEventType
<1>4. timer_queue' = InsertTimer(timer_queue, ev)
  BY <1>2
<1> HIDE DEF ev
<1>5. timer_queue' \in Seq(Event) /\ Sorted(timer_queue')
  BY <1>1, <1>3, <1>4, InsertTimerFacts
<1>6. free_queue' \subseteq EventBuf /\ free_bg_queue' \subseteq EventBuf
  BY <1>1, <1>2, PoolType
<1>7. serial' \in Nat /\ exit_serial' \in Nat /\ owed' \in [AllCallbacks -> Int]
  <2>1. cb \in AllCallbacks /\ CountPost(cb)
    BY DEF AllCallbacks, PostEventWithDelay
  <2> QED
    BY <1>1, <2>1, CountType
<1>8. TypeOK'
  BY <1>1, <1>5, <1>6, <1>7 DEF TypeOK, PostEventWithDelay, loop, wait
<1>9. disp' = "handler" /\ current' = current
  BY <1>1 DEF PostEventWithDelay, loop
<1> QED
  BY <1>1, <1>5, <1>8, <1>9, HandlerFrame

\* The first event that cancel_event finds is one of the queue.
LEMMA MatchFacts ==
  ASSUME NEW q \in Seq(Event), NEW cb, Matches(q, cb) # {}
  PROVE  /\ Min(Matches(q, cb)) \in 1 .. Len(q)
         /\ q[Min(Matches(q, cb))] \in Event
<1> DEFINE S == Matches(q, cb)
<1>1. S \subseteq 1 .. Len(q) /\ Len(q) \in Nat /\ S \subseteq Nat /\ S # {}
  BY LenProperties DEF Matches
<1> HIDE DEF S
<1>2. Min(S) \in S
  BY <1>1, MinNat
<1>3. Min(S) \in 1 .. Len(q)
  BY <1>1, <1>2
<1> QED
  BY <1>3, ElementOfSeq DEF S

\* cancel_event finds the event in event_queue.
LEMMA CancelQueuedKeepsIInv ==
  ASSUME IInv, NEW cb \in Callbacks, CancelQueued(cb)
  PROVE  IInv'
<1> DEFINE k == Min(Matches(event_queue, cb))
<1>1. /\ disp = "handler" /\ calls' \in 0 .. MaxCalls
      /\ TypeOK /\ Sorted(timer_queue) /\ event_queue \in Seq(Event)
  BY CallCounted DEF CancelQueued, IInv, TypeOK
<1>2. k \in 1 .. Len(event_queue) /\ event_queue[k] \in Event
  BY <1>1, MatchFacts DEF CancelQueued
<1>3. FreeNode(event_queue[k].node) /\ event_queue' = RemoveAt(event_queue, k)
  BY DEF CancelQueued
<1> HIDE DEF k
<1>4. event_queue' \in Seq(Event)
  BY <1>1, <1>2, <1>3, RemoveAtFacts
<1>5. free_queue' \subseteq EventBuf /\ free_bg_queue' \subseteq EventBuf
  <2>1. event_queue[k].node \in Nodes
    BY <1>2 DEF Event
  <2> QED
    BY <1>1, <1>3, <2>1, PoolType
<1>6. serial' \in Nat /\ exit_serial' \in Nat /\ owed' \in [AllCallbacks -> Int]
  <2>1. cb \in AllCallbacks /\ CountTaken(cb)
    BY DEF AllCallbacks, CancelQueued
  <2> QED
    BY <1>1, <2>1, CountType
<1>7. TypeOK'
  BY <1>1, <1>4, <1>5, <1>6 DEF TypeOK, CancelQueued, loop, wait
<1>8. disp' = "handler" /\ current' = current /\ timer_queue' = timer_queue
  BY <1>1 DEF CancelQueued, loop
<1>9. Sorted(timer_queue')
  BY <1>1, <1>8
<1> QED
  BY <1>1, <1>7, <1>8, <1>9, HandlerFrame

\* cancel_event finds the event in timer_queue.
LEMMA CancelTimerKeepsIInv ==
  ASSUME IInv, NEW cb \in Callbacks, CancelTimer(cb)
  PROVE  IInv'
<1> DEFINE k == Min(Matches(timer_queue, cb))
<1>1. /\ disp = "handler" /\ calls' \in 0 .. MaxCalls
      /\ TypeOK /\ Sorted(timer_queue) /\ timer_queue \in Seq(Event)
  BY CallCounted DEF CancelTimer, IInv, TypeOK
<1>2. k \in 1 .. Len(timer_queue) /\ timer_queue[k] \in Event
  BY <1>1, MatchFacts DEF CancelTimer
<1>3. FreeNode(timer_queue[k].node) /\ timer_queue' = RemoveAt(timer_queue, k)
  BY DEF CancelTimer
<1> HIDE DEF k
<1>4. timer_queue' \in Seq(Event)
  BY <1>1, <1>2, <1>3, RemoveAtFacts
<1>5. free_queue' \subseteq EventBuf /\ free_bg_queue' \subseteq EventBuf
  <2>1. timer_queue[k].node \in Nodes
    BY <1>2 DEF Event
  <2> QED
    BY <1>1, <1>3, <2>1, PoolType
<1>6. serial' \in Nat /\ exit_serial' \in Nat /\ owed' \in [AllCallbacks -> Int]
  <2>1. cb \in AllCallbacks /\ CountTaken(cb)
    BY DEF AllCallbacks, CancelTimer
  <2> QED
    BY <1>1, <2>1, CountType
<1>7. TypeOK'
  BY <1>1, <1>4, <1>5, <1>6 DEF TypeOK, CancelTimer, loop, wait
<1>8. disp' = "handler" /\ current' = current
  BY <1>1 DEF CancelTimer, loop
<1>9. Sorted(timer_queue')
  <2>1. Sorted(RemoveAt(timer_queue, k))
    BY <1>1, <1>2, RemoveSorted
  <2> QED
    BY <1>3, <2>1
<1> QED
  BY <1>1, <1>7, <1>8, <1>9, HandlerFrame

\* The rest of cancel_event, and cancel_event_loop.
LEMMA CancelKeepsIInv ==
  ASSUME IInv,
         \/ \E cb \in Callbacks : CancelWait(cb)
         \/ CancelDone
         \/ CancelEventLoop
  PROVE  IInv'
<1> USE DEF queues, pools, wait, ghosts
<1>1. ASSUME NEW cb \in Callbacks, CancelWait(cb) PROVE IInv'
  <2>1. disp = "handler" /\ calls' \in 0 .. MaxCalls /\ TypeOK /\ Sorted(timer_queue)
    BY <1>1, CallCounted DEF CancelWait, IInv
  <2>2. TypeOK'
    BY <1>1, <2>1 DEF TypeOK, CancelWait
  <2>3. disp' = "cancel" /\ current' = current /\ timer_queue' = timer_queue
    BY <1>1 DEF CancelWait
  <2>4. Sorted(timer_queue')
    BY <2>1, <2>3
  <2> QED
    BY <2>1, <2>2, <2>3, <2>4, HandlerFrame
<1>2. CASE CancelDone
  <2>1. TypeOK /\ Sorted(timer_queue) /\ current \in Event
    BY <1>2 DEF IInv, CancelDone, HandlerHasEvent
  <2>2. TypeOK'
    BY <1>2, <2>1 DEF TypeOK, CancelDone
  <2>3. disp' = "handler" /\ current' = current /\ timer_queue' = timer_queue
    BY <1>2 DEF CancelDone
  <2>4. Sorted(timer_queue')
    BY <2>1, <2>3
  <2> QED
    BY <2>1, <2>2, <2>3, <2>4 DEF IInv, NoLostWakeup, HandlerHasEvent, DispatchHasWork
<1>3. CASE CancelEventLoop
  <2>1. disp = "handler" /\ calls' \in 0 .. MaxCalls /\ TypeOK /\ Sorted(timer_queue)
    BY <1>3, CallCounted DEF CancelEventLoop, IInv
  <2>2. TypeOK'
    BY <1>3, <2>1 DEF TypeOK, CancelEventLoop
  <2>3. disp' = "handler" /\ current' = current /\ timer_queue' = timer_queue
    BY <1>3, <2>1 DEF CancelEventLoop
  <2>4. Sorted(timer_queue')
    BY <2>1, <2>3
  <2> QED
    BY <2>1, <2>2, <2>3, <2>4, HandlerFrame
<1> QED
  BY <1>1, <1>2, <1>3

\* The handler returns, exit_event_handler included.
LEMMA ReturnKeepsIInv ==
  ASSUME IInv, HandlerReturn \/ ExitEventHandlerStops \/ ExitEventHandlerReposts
  PROVE  IInv'
<1>1. /\ disp = "handler" /\ TypeOK /\ Sorted(timer_queue)
      /\ current \in Event /\ current.node \in Nodes
  BY DEF IInv, HandlerHasEvent, Event, HandlerReturn, ExitEventHandlerStops,
         ExitEventHandlerReposts
<1>2. /\ disp' \in {"loop", "stopped"} /\ current' = None /\ timer_queue' = timer_queue
      /\ process_events' \in BOOLEAN
  BY <1>1 DEF HandlerReturn, ExitEventHandlerStops, ExitEventHandlerReposts, queues, TypeOK
<1>3. TypeOK'
  <2>1. CASE HandlerReturn
    <3>1. free_queue' \subseteq EventBuf /\ free_bg_queue' \subseteq EventBuf
      BY <1>1, <2>1, PoolType DEF HandlerReturn
    <3> QED
      BY <1>1, <1>2, <2>1, <3>1 DEF TypeOK, HandlerReturn, queues, wait, ghosts
  <2>2. CASE ExitEventHandlerStops
    <3>1. free_queue' \subseteq EventBuf /\ free_bg_queue' \subseteq EventBuf
      BY <1>1, <2>2, PoolType DEF ExitEventHandlerStops
    <3> QED
      BY <1>1, <1>2, <2>2, <3>1 DEF TypeOK, ExitEventHandlerStops, queues, wait, ghosts
  <2>3. CASE ExitEventHandlerReposts
    <3>1. PICK n \in Nodes :
            /\ free_queue' = (free_queue \ {n}) \cup ({current.node} \ {Heap})
            /\ event_queue' = Append(event_queue,
                 [node |-> n, cb |-> ExitHandler, timed |-> FALSE, due |-> 0,
                  imm |-> FALSE, src |-> Dispatcher, serial |-> serial])
      BY <2>3 DEF ExitEventHandlerReposts
    <3> DEFINE ev == [node |-> n, cb |-> ExitHandler, timed |-> FALSE, due |-> 0,
                      imm |-> FALSE, src |-> Dispatcher, serial |-> serial]
    <3>2. ev \in Event
      BY <1>1 DEF TypeOK, Event, AllCallbacks, Threads
    <3> HIDE DEF ev
    <3>3. event_queue' = Append(event_queue, ev)
      BY <3>1 DEF ev
    <3>4. event_queue' \in Seq(Event)
      BY <1>1, <3>2, <3>3, AppendProperties DEF TypeOK
    <3>5. free_queue' \subseteq EventBuf
      BY <1>1, <3>1 DEF TypeOK, Nodes
    <3>6. owed' \in [AllCallbacks -> Int]
      BY <1>1, <2>3 DEF TypeOK, ExitEventHandlerReposts, AllCallbacks
    <3> QED
      BY <1>1, <1>2, <2>3, <3>4, <3>5, <3>6 DEF TypeOK, ExitEventHandlerReposts, wait
  <2> QED
    BY <2>1, <2>2, <2>3
<1>4. Sorted(timer_queue')
  BY <1>1, <1>2
<1> QED
  BY <1>1, <1>2, <1>3, <1>4, HandlerFrame

\* The next event is taken from event_queue, which is never empty then.
LEMMA DispatchKeepsIInv ==
  ASSUME IInv, Dispatch
  PROVE  IInv'
<1>1. TypeOK /\ Sorted(timer_queue) /\ event_queue \in Seq(Event) /\ event_queue # <<>>
  BY DEF IInv, TypeOK, Dispatch, DispatchHasWork, MustCollect
<1> DEFINE ev == Head(event_queue)
<1>2. ev \in Event /\ Tail(event_queue) \in Seq(Event)
  BY <1>1, HeadTailProperties
<1>3. /\ current' = ev /\ event_cnt' = CountUntimed(ev) /\ CountTaken(ev.cb)
      /\ event_queue' = Tail(event_queue) /\ disp' = "handler" /\ calls' = 0
      /\ timer_queue' = timer_queue
  BY DEF Dispatch
<1> HIDE DEF ev
<1>4. event_cnt' \in Nat
  BY <1>1, <1>3 DEF TypeOK, CountUntimed
<1>5. serial' \in Nat /\ exit_serial' \in Nat /\ owed' \in [AllCallbacks -> Int]
  <2>1. ev.cb \in AllCallbacks
    BY <1>2 DEF Event
  <2> QED
    BY <1>1, <1>3, <2>1, CountType
<1>6. calls' \in 0 .. MaxCalls
  BY <1>3, EventQueueAssumption
<1>7. TypeOK'
  BY <1>1, <1>2, <1>3, <1>4, <1>5, <1>6 DEF TypeOK, Dispatch, pools, wait
<1>8. Sorted(timer_queue')
  BY <1>1, <1>3
<1> QED
  BY <1>2, <1>3, <1>7, <1>8 DEF IInv, NoLostWakeup, HandlerHasEvent, DispatchHasWork

\* The loop looks at timer_queue, on its own account or because it woke up.
LEMMA CollectKeepsIInv ==
  ASSUME IInv, Collect \/ WakeUp
  PROVE  IInv'
<1>1. TypeOK /\ LookAtTimers
  BY DEF IInv, Collect, WakeUp
<1>2. /\ event_queue' \in Seq(Event) /\ timer_queue' \in Seq(Event)
      /\ disp' \in {"wait", "dispatch"} /\ signalled' = FALSE
      /\ deadline' \in Int \cup {None}
      /\ NoLostWakeup' /\ Sorted(timer_queue') /\ DispatchHasWork'
  BY <1>1, LookAtTimersFacts
<1>3. free_queue' \subseteq EventBuf /\ free_bg_queue' \subseteq EventBuf
  <2>1. CASE Collect
    <3>1. PICK S \in SUBSET free_queue :
            free_queue' = free_queue \ S /\ free_bg_queue' = free_bg_queue \cup S
      BY <2>1 DEF Collect, RefillBgPool
    <3> QED
      BY <1>1, <3>1 DEF TypeOK
  <2>2. CASE WakeUp
    BY <1>1, <2>2 DEF TypeOK, WakeUp, pools
  <2> QED
    BY <2>1, <2>2
<1>4. TypeOK'
  <2>1. CASE Collect
    BY <1>1, <1>2, <1>3, <2>1 DEF TypeOK, Collect, ghosts
  <2>2. CASE WakeUp
    BY <1>1, <1>2, <1>3, <2>2 DEF TypeOK, WakeUp, ghosts
  <2> QED
    BY <2>1, <2>2
<1>5. HandlerHasEvent'
  BY <1>2 DEF HandlerHasEvent
<1> QED
  BY <1>2, <1>4, <1>5 DEF IInv

\* Time passes for the timers, the deadline and the threads about to post.
LEMMA TickKeepsIInv ==
  ASSUME IInv, Tick
  PROVE  IInv'
<1>1. /\ TypeOK /\ Sorted(timer_queue) /\ timer_queue \in Seq(Event)
      /\ Len(timer_queue) \in Nat /\ DOMAIN timer_queue = 1 .. Len(timer_queue)
  BY LenProperties DEF IInv, TypeOK
<1>2. timer_queue' = [k \in 1 .. Len(timer_queue) |-> TickEvent(timer_queue[k])]
  BY <1>1 DEF Tick
<1>3. ASSUME NEW ev \in Event
      PROVE  /\ TickEvent(ev) \in Event /\ TickEvent(ev).timed = ev.timed
             /\ TickEvent(ev).due \in Int /\ ev.due \in Int
             /\ ev.timed => TickEvent(ev).due = ev.due - 1
  BY DEF TickEvent, Event
<1>4. \A k \in 1 .. Len(timer_queue) : timer_queue[k] \in Event
  BY <1>1, ElementOfSeq
<1>5. /\ timer_queue' \in Seq(Event) /\ Len(timer_queue') = Len(timer_queue)
      /\ \A k \in 1 .. Len(timer_queue) : timer_queue'[k] = TickEvent(timer_queue[k])
  <2>1. \A k \in 1 .. Len(timer_queue) : TickEvent(timer_queue[k]) \in Event
    BY <1>3, <1>4
  <2> QED
    BY <1>1, <1>2, <2>1, IsASeq
<1>6. Sorted(timer_queue')
  <2> SUFFICES ASSUME NEW i \in 1 .. Len(timer_queue), NEW j \in 1 .. Len(timer_queue),
                      i < j
               PROVE  ~Earlier(TickEvent(timer_queue[j]), TickEvent(timer_queue[i]))
    BY <1>5 DEF Sorted
  <2>1. ~Earlier(timer_queue[j], timer_queue[i])
    BY <1>1 DEF Sorted
  <2>2. timer_queue[i] \in Event /\ timer_queue[j] \in Event
    BY <1>4
  <2> QED
    BY SMTT(40), <1>3, <2>1, <2>2 DEF Earlier
<1>7. bg' \in [BgThreads -> BgState]
  <2>1. ASSUME NEW b \in BgThreads
        PROVE  (IF bg[b].pc = "posting" THEN [bg[b] EXCEPT !.due = @ - 1] ELSE bg[b]) \in BgState
    <3>1. bg[b] \in BgState /\ bg[b].due \in Int
      BY <1>1 DEF TypeOK, BgState
    <3>2. bg[b].due - 1 \in Int
      BY <3>1
    <3>3. [bg[b] EXCEPT !.due = @ - 1] \in BgState
      BY <3>1, <3>2 DEF BgState
    <3> QED
      BY <3>1, <3>3
  <2> QED
    BY <2>1 DEF Tick
<1>8. deadline' \in Int \cup {None} /\ (deadline # None => deadline' = deadline - 1)
  BY <1>1, EventQueueAssumption DEF TypeOK, Tick
<1>9. TypeOK'
  BY <1>1, <1>5, <1>7, <1>8 DEF TypeOK, Tick, pools, loop, ghosts
<1>10. NoLostWakeup'
  <2>1. SUFFICES ASSUME disp = "wait", ~signalled
                 PROVE  /\ event_queue = <<>>
                        /\ timer_queue' # <<>> => /\ timer_queue'[1].timed
                                                  /\ deadline' # None
                                                  /\ deadline' <= timer_queue'[1].due
    BY DEF Tick, NoLostWakeup, loop
  <2>2. /\ event_queue = <<>>
        /\ timer_queue # <<>> => /\ timer_queue[1].timed
                                 /\ deadline # None
                                 /\ deadline <= timer_queue[1].due
    BY <2>1 DEF IInv, NoLostWakeup
  <2>3. SUFFICES ASSUME timer_queue' # <<>>
                 PROVE  timer_queue'[1].timed /\ deadline' # None
                        /\ deadline' <= timer_queue'[1].due
    BY <2>2
  <2>4. timer_queue # <<>> /\ 1 \in 1 .. Len(timer_queue)
    BY <1>1, <1>5, <2>3, EmptySeq
  <2>5. /\ timer_queue[1] \in Event /\ timer_queue'[1] = TickEvent(timer_queue[1])
    BY <1>4, <1>5, <2>4
  <2>6. deadline \in Int /\ deadline' = deadline - 1
    BY <1>1, <1>8, <2>2, <2>4 DEF TypeOK
  <2>7. deadline' # None
    BY <2>6, EventQueueAssumption
  <2> QED
    BY <1>3, <2>2, <2>4, <2>5, <2>6, <2>7
<1>11. HandlerHasEvent' /\ DispatchHasWork'
  BY DEF IInv, HandlerHasEvent, DispatchHasWork, Tick, loop
<1> QED
  BY <1>6, <1>9, <1>10, <1>11 DEF IInv

-----------------------------------------------------------------------------
(* The theorems.                                                           *)

\* The inductive invariant holds of the loop that ini_events_queue sets up.
LEMMA InitIInv == Init => IInv
<1> SUFFICES ASSUME Init PROVE IInv
  OBVIOUS
<1>1. <<>> \in Seq(Event) /\ Len(<<>>) = 0
  OBVIOUS
<1>2. bg \in [BgThreads -> BgState]
  <2>1. IdleBg \in BgState
    BY DEF IdleBg, BgState, AllCallbacks
  <2> QED
    BY <2>1 DEF Init
<1>3. TypeOK
  <2>1. 0 \in 0 .. MaxCalls
    BY EventQueueAssumption
  <2>2. owed \in [AllCallbacks -> Int]
    BY DEF Init
  <2> QED
    BY <1>1, <1>2, <2>1, <2>2 DEF Init, TypeOK
<1>4. Sorted(timer_queue)
  BY <1>1 DEF Init, Sorted
<1> QED
  BY <1>3, <1>4 DEF Init, IInv, NoLostWakeup, HandlerHasEvent, DispatchHasWork

\* Every step keeps the inductive invariant.
LEMMA NextIInv == IInv /\ [Next]_vars => IInv'
<1> SUFFICES ASSUME IInv, [Next]_vars PROVE IInv'
  OBVIOUS
<1>1. ASSUME NEW b \in BgThreads, BgStep(b) \/ \E cb \in Callbacks : BgStart(b, cb)
      PROVE  IInv'
  BY <1>1, BgKeepsIInv, BgPostKeepsIInv DEF BgStep
<1>2. CASE ExitEventLoop
  BY <1>2, ExitEventLoopKeepsIInv
<1>3. CASE LoopStep
  BY <1>3, CollectKeepsIInv, DispatchKeepsIInv, ReturnKeepsIInv, CancelKeepsIInv
  DEF LoopStep
<1>4. CASE ClientCall
  BY <1>4, PostEventKeepsIInv, CancelQueuedKeepsIInv, CancelTimerKeepsIInv,
     CancelKeepsIInv, PostEventWithDelayKeepsIInv
  DEF ClientCall
<1>5. CASE Tick
  BY <1>5, TickKeepsIInv
<1>6. CASE UNCHANGED vars
  <2>1. /\ bg' = bg /\ cancel_handler' = cancel_handler
        /\ UNCHANGED <<queues, pools, loop, calls, wait, exit_event, ghosts>>
    BY <1>6 DEF vars
  <2>2. bg' \in [BgThreads -> BgState] /\ cancel_handler' \in Callbacks \cup {None}
    BY <2>1 DEF IInv, TypeOK
  <2> QED
    BY <2>1, <2>2, BgFrame
<1> QED
  BY <1>1, <1>2, <1>3, <1>4, <1>5, <1>6 DEF Next

\* The inductive invariant of the event loop, on which the theorems below
\* rest.
LEMMA IInvHolds == Spec => []IInv
  BY InitIInv, NextIInv, PTL DEF Spec

\* Whatever threads post, cancel and exit in whatever order, the queues hold
\* event nodes and the dispatch thread is in one of its places.
THEOREM TypeCorrect == Spec => []TypeOK
<1>1. IInv => TypeOK
  BY DEF IInv
<1> QED
  BY <1>1, IInvHolds, PTL

\* The dispatch thread never sleeps past the first timer: signalling event_cond
\* only when the head of timer_queue changes (post_from_bg_thread and
\* exit_event_loop) is enough, for any number of threads and timers.
THEOREM NeverOversleeps == Spec => []NoLostWakeup
<1>1. IInv => NoLostWakeup
  BY DEF IInv
<1> QED
  BY <1>1, IInvHolds, PTL

\* timer_queue is always ordered by runtime, so that looking at its head is
\* enough for run_event_loop.
THEOREM TimersSorted == Spec => []TimerQueueSorted
<1>1. IInv => TimerQueueSorted
  BY LenProperties DEF IInv, TypeOK, Sorted, TimerQueueSorted
<1> QED
  BY <1>1, IInvHolds, PTL

-----------------------------------------------------------------------------
(* What is queued.                                                         *)

\* The events in the node n, and those for the callback cb.
NodeIs(n) == {e \in Event : e.node = n}
CbIs(cb)  == {e \in Event : e.cb = cb}

In(e, T) == IF e \in T THEN 1 ELSE 0

\* How many events of T a queue holds, and how many the two queues hold.
Count(q, T) == Cardinality(Places(q, T))
Queued(T)   == Count(event_queue, T) + Count(timer_queue, T)

\* What a step does to the queues: ev comes in, ev goes out, or events only
\* move or change their runtimes.
Adds(ev)  == \A T : Queued(T)' = Queued(T) + In(ev, T)
Takes(ev) == \A T : Queued(T)' = Queued(T) - In(ev, T)
Moves     == /\ \A n : Queued(NodeIs(n))' = Queued(NodeIs(n))
             /\ \A cb : Queued(CbIs(cb))' = Queued(CbIs(cb))

\* Membership as a number.
LEMMA InType ==
  ASSUME NEW e, NEW T
  PROVE  In(e, T) \in {0, 1}
BY DEF In

\* A count is a number.
LEMMA CountNat ==
  ASSUME NEW q \in Seq(Event), NEW T
  PROVE  Count(q, T) \in Nat
BY PlacesFinite DEF Count

\* So is what is queued.
LEMMA QueuedType ==
  ASSUME TypeOK, NEW T
  PROVE  Queued(T) \in Nat
<1>1. Count(event_queue, T) \in Nat /\ Count(timer_queue, T) \in Nat
  BY CountNat DEF TypeOK
<1> QED
  BY <1>1 DEF Queued

\* Appending adds the new event.
LEMMA CountAppend ==
  ASSUME NEW q \in Seq(Event), NEW ev \in Event, NEW T
  PROVE  Count(Append(q, ev), T) = Count(q, T) + In(ev, T)
BY PlacesAppend DEF Count, In

\* Taking the head removes it.
LEMMA CountTail ==
  ASSUME NEW q \in Seq(Event), q # <<>>, NEW T
  PROVE  Count(Tail(q), T) = Count(q, T) - In(Head(q), T)
BY PlacesTail DEF Count, In

\* Removing a place removes its event.
LEMMA CountRemove ==
  ASSUME NEW q \in Seq(Event), NEW k \in 1 .. Len(q), NEW T
  PROVE  Count(RemoveAt(q, k), T) = Count(q, T) - In(q[k], T)
BY PlacesRemove DEF Count, In

\* Inserting a timer adds it.
LEMMA CountInsertTimer ==
  ASSUME NEW q \in Seq(Event), NEW ev \in Event, NEW T
  PROVE  Count(InsertTimer(q, ev), T) = Count(q, T) + In(ev, T)
<1> DEFINE p == InsertPos(q, ev)
<1>1. p \in 1 .. Len(q) + 1 /\ InsertTimer(q, ev) = InsertAt(q, p, ev)
  BY InsertPosFacts DEF InsertTimer
<1> HIDE DEF p
<1>2. Cardinality(Places(InsertAt(q, p, ev), T))
        = Cardinality(Places(q, T)) + (IF ev \in T THEN 1 ELSE 0)
  BY <1>1, PlacesInsert
<1> QED
  BY <1>1, <1>2 DEF Count, In

\* Two lists together count as their sum.
LEMMA CountConcat ==
  ASSUME NEW p \in Seq(Event), NEW q \in Seq(Event), NEW T
  PROVE  Count(p \o q, T) = Count(p, T) + Count(q, T)
BY PlacesConcat DEF Count

\* A list cut in two counts as its parts.
LEMMA CountCut ==
  ASSUME NEW q \in Seq(Event), NEW n \in 0 .. Len(q), NEW T
  PROVE  Count(q, T) = Count(SubSeq(q, 1, n), T) + Count(SubSeq(q, n + 1, Len(q)), T)
BY PlacesCut DEF Count

\* A list of one event.
LEMMA CountOne ==
  ASSUME NEW ev \in Event, NEW T
  PROVE  <<ev>> \in Seq(Event) /\ Count(<<ev>>, T) = In(ev, T)
<1> DEFINE q == <<>>
<1>1. q \in Seq(Event) /\ Append(q, ev) = <<ev>>
  OBVIOUS
<1>2. Count(q, T) = 0
  BY PlacesEmpty DEF Count
<1>3. In(ev, T) \in {0, 1}
  BY InType
<1> HIDE DEF q
<1>4. Count(Append(q, ev), T) = Count(q, T) + In(ev, T)
  BY <1>1, CountAppend
<1> QED
  BY <1>1, <1>2, <1>3, <1>4

\* p and q hold the same events but for their runtimes.
SameButDue(p, q) ==
  /\ Len(p) = Len(q)
  /\ \A k \in 1 .. Len(p) : p[k].node = q[k].node /\ p[k].cb = q[k].cb

\* Counts do not depend on the due times.
LEMMA CountSame ==
  ASSUME NEW p \in Seq(Event), NEW q \in Seq(Event), SameButDue(p, q)
  PROVE  /\ \A n : Count(p, NodeIs(n)) = Count(q, NodeIs(n))
         /\ \A cb : Count(p, CbIs(cb)) = Count(q, CbIs(cb))
<1>1. /\ DOMAIN p = 1 .. Len(p) /\ DOMAIN q = 1 .. Len(p)
      /\ \A k \in 1 .. Len(p) : p[k] \in Event /\ q[k] \in Event
  BY LenProperties, ElementOfSeq DEF SameButDue
<1>2. ASSUME NEW n PROVE Places(p, NodeIs(n)) = Places(q, NodeIs(n))
  BY <1>1 DEF Places, NodeIs, SameButDue
<1>3. ASSUME NEW cb PROVE Places(p, CbIs(cb)) = Places(q, CbIs(cb))
  BY <1>1 DEF Places, CbIs, SameButDue
<1> QED
  BY <1>2, <1>3 DEF Count

-----------------------------------------------------------------------------
(* What each action does to the queues.                                    *)

\* An event that is appended to event_queue, or put into timer_queue.
LEMMA AppendAdds ==
  ASSUME TypeOK, NEW ev \in Event, event_queue' = Append(event_queue, ev),
         timer_queue' = timer_queue
  PROVE  Adds(ev)
<1> SUFFICES ASSUME NEW T PROVE Queued(T)' = Queued(T) + In(ev, T)
  BY DEF Adds
<1>1. event_queue \in Seq(Event) /\ timer_queue \in Seq(Event)
  BY DEF TypeOK
<1>2. Count(event_queue, T) \in Nat /\ Count(timer_queue, T) \in Nat /\ In(ev, T) \in {0, 1}
  BY <1>1, CountNat, InType
<1>3. Count(Append(event_queue, ev), T) = Count(event_queue, T) + In(ev, T)
  BY <1>1, CountAppend
<1>4. Queued(T)' = Count(Append(event_queue, ev), T) + Count(timer_queue, T)
  BY DEF Queued
<1> QED
  BY <1>2, <1>3, <1>4 DEF Queued

\* A timer that is inserted is queued once more.
LEMMA InsertAdds ==
  ASSUME TypeOK, NEW ev \in Event, timer_queue' = InsertTimer(timer_queue, ev),
         event_queue' = event_queue
  PROVE  Adds(ev)
<1> SUFFICES ASSUME NEW T PROVE Queued(T)' = Queued(T) + In(ev, T)
  BY DEF Adds
<1>1. event_queue \in Seq(Event) /\ timer_queue \in Seq(Event)
  BY DEF TypeOK
<1>2. Count(event_queue, T) \in Nat /\ Count(timer_queue, T) \in Nat /\ In(ev, T) \in {0, 1}
  BY <1>1, CountNat, InType
<1>3. Count(InsertTimer(timer_queue, ev), T) = Count(timer_queue, T) + In(ev, T)
  BY <1>1, CountInsertTimer
<1>4. Queued(T)' = Count(event_queue, T) + Count(InsertTimer(timer_queue, ev), T)
  BY DEF Queued
<1> QED
  BY <1>2, <1>3, <1>4 DEF Queued

\* So is one put at the head.
LEMMA PrependAdds ==
  ASSUME TypeOK, NEW ev \in Event, timer_queue' = <<ev>> \o timer_queue,
         event_queue' = event_queue
  PROVE  Adds(ev)
<1> SUFFICES ASSUME NEW T PROVE Queued(T)' = Queued(T) + In(ev, T)
  BY DEF Adds
<1>1. event_queue \in Seq(Event) /\ timer_queue \in Seq(Event)
  BY DEF TypeOK
<1>2. Count(event_queue, T) \in Nat /\ Count(timer_queue, T) \in Nat /\ In(ev, T) \in {0, 1}
  BY <1>1, CountNat, InType
<1> DEFINE p == <<ev>>
<1>3. p \in Seq(Event) /\ Count(p, T) = In(ev, T)
  BY CountOne
<1>4. Queued(T)' = Count(event_queue, T) + Count(p \o timer_queue, T)
  BY DEF Queued
<1> HIDE DEF p
<1>5. Count(p \o timer_queue, T) = Count(p, T) + Count(timer_queue, T)
  BY <1>1, <1>3, CountConcat
<1> QED
  BY <1>2, <1>3, <1>4, <1>5 DEF Queued

\* An event that leaves a queue.
LEMMA TailTakes ==
  ASSUME TypeOK, event_queue # <<>>, event_queue' = Tail(event_queue),
         timer_queue' = timer_queue
  PROVE  Takes(Head(event_queue))
<1> DEFINE ev == Head(event_queue)
<1> SUFFICES ASSUME NEW T PROVE Queued(T)' = Queued(T) - In(ev, T)
  BY DEF Takes
<1>1. event_queue \in Seq(Event) /\ timer_queue \in Seq(Event)
  BY DEF TypeOK
<1>2. Count(event_queue, T) \in Nat /\ Count(timer_queue, T) \in Nat /\ In(ev, T) \in {0, 1}
  BY <1>1, CountNat, InType
<1>3. Count(Tail(event_queue), T) = Count(event_queue, T) - In(ev, T)
  BY <1>1, CountTail
<1>4. Queued(T)' = Count(Tail(event_queue), T) + Count(timer_queue, T)
  BY DEF Queued
<1> HIDE DEF ev
<1> QED
  BY <1>2, <1>3, <1>4 DEF Queued

\* A cancelled event is queued once less.
LEMMA RemoveQueuedTakes ==
  ASSUME TypeOK, NEW k \in 1 .. Len(event_queue), event_queue' = RemoveAt(event_queue, k),
         timer_queue' = timer_queue
  PROVE  Takes(event_queue[k])
<1> DEFINE ev == event_queue[k]
<1> SUFFICES ASSUME NEW T PROVE Queued(T)' = Queued(T) - In(ev, T)
  BY DEF Takes
<1>1. event_queue \in Seq(Event) /\ timer_queue \in Seq(Event)
  BY DEF TypeOK
<1>2. Count(event_queue, T) \in Nat /\ Count(timer_queue, T) \in Nat /\ In(ev, T) \in {0, 1}
  BY <1>1, CountNat, InType
<1>3. Count(RemoveAt(event_queue, k), T) = Count(event_queue, T) - In(ev, T)
  BY <1>1, CountRemove
<1>4. Queued(T)' = Count(RemoveAt(event_queue, k), T) + Count(timer_queue, T)
  BY <1>1 DEF Queued
<1> HIDE DEF ev
<1> QED
  BY <1>2, <1>3, <1>4 DEF Queued

\* So is a cancelled timer.
LEMMA RemoveTimerTakes ==
  ASSUME TypeOK, NEW k \in 1 .. Len(timer_queue), timer_queue' = RemoveAt(timer_queue, k),
         event_queue' = event_queue
  PROVE  Takes(timer_queue[k])
<1> DEFINE ev == timer_queue[k]
<1> SUFFICES ASSUME NEW T PROVE Queued(T)' = Queued(T) - In(ev, T)
  BY DEF Takes
<1>1. event_queue \in Seq(Event) /\ timer_queue \in Seq(Event)
  BY DEF TypeOK
<1>2. Count(event_queue, T) \in Nat /\ Count(timer_queue, T) \in Nat /\ In(ev, T) \in {0, 1}
  BY <1>1, CountNat, InType
<1>3. Count(RemoveAt(timer_queue, k), T) = Count(timer_queue, T) - In(ev, T)
  BY <1>1, CountRemove
<1>4. Queued(T)' = Count(event_queue, T) + Count(RemoveAt(timer_queue, k), T)
  BY <1>1 DEF Queued
<1> HIDE DEF ev
<1> QED
  BY <1>2, <1>3, <1>4 DEF Queued

\* Collecting moves the ready events to the untimed queue.
LEMMA LookMoves ==
  ASSUME IInv, LookAtTimers
  PROVE  Moves
<1> DEFINE n == ReadyCount(timer_queue)
           ready == [k \in 1 .. n |-> [timer_queue[k] EXCEPT !.due = 0]]
           front == SubSeq(timer_queue, 1, n)
           rest == SubSeq(timer_queue, n + 1, Len(timer_queue))
<1>1. /\ event_queue \in Seq(Event) /\ timer_queue \in Seq(Event)
      /\ Len(timer_queue) \in Nat
      /\ \A k \in 1 .. Len(timer_queue) : timer_queue[k] \in Event
  BY LenProperties, ElementOfSeq DEF IInv, TypeOK
<1>2. n \in 0 .. Len(timer_queue)
  BY <1>1, ReadyCountFacts
<1>3. CASE UNCHANGED queues
  BY <1>3 DEF Moves, Queued, queues
<1>4. CASE event_queue' = ready \o event_queue /\ timer_queue' = rest
  <2> HIDE DEF n
  <2>1. ASSUME NEW k \in 1 .. n
        PROVE  /\ [timer_queue[k] EXCEPT !.due = 0] \in Event
               /\ [timer_queue[k] EXCEPT !.due = 0].node = timer_queue[k].node
               /\ [timer_queue[k] EXCEPT !.due = 0].cb = timer_queue[k].cb
    <3>1. timer_queue[k] \in Event
      BY <1>1, <1>2
    <3> QED
      BY <3>1 DEF Event
  <2>2. /\ ready \in Seq(Event) /\ Len(ready) = n
        /\ \A k \in 1 .. n : ready[k] = [timer_queue[k] EXCEPT !.due = 0]
    <3>1. n \in Nat
      BY <1>1, <1>2
    <3>2. ready \in Seq(Event) /\ Len(ready) = n
      BY <2>1, <3>1, IsASeq
    <3> QED
      BY <3>2
  <2>3. /\ front \in Seq(Event) /\ Len(front) = n
        /\ \A k \in 1 .. n : front[k] = timer_queue[k]
    <3>1. \A k \in 1 .. n : timer_queue[k] \in Event
      BY <1>1, <1>2
    <3> QED
      BY <1>1, <1>2, <3>1, SubSeqProperties
  <2>4. rest \in Seq(Event)
    BY <1>1, <1>2, SuffixSorted DEF IInv
  <2>5. SameButDue(ready, front)
    BY <2>1, <2>2, <2>3 DEF SameButDue
  <2>6. ASSUME NEW T
        PROVE  /\ Count(timer_queue, T) = Count(front, T) + Count(rest, T)
               /\ Count(front, T) \in Nat /\ Count(rest, T) \in Nat
               /\ Count(event_queue, T) \in Nat /\ Count(ready, T) \in Nat
    <3>1. Count(timer_queue, T) = Count(front, T) + Count(rest, T)
      BY <1>1, <1>2, CountCut
    <3> HIDE DEF front, rest, ready
    <3> QED
      BY <1>1, <2>2, <2>3, <2>4, <3>1, CountNat
  <2> HIDE DEF front, rest, ready
  <2>7. ASSUME NEW T PROVE Queued(T)' = Count(ready, T) + Count(event_queue, T) + Count(rest, T)
    <3>1. Count(ready \o event_queue, T) = Count(ready, T) + Count(event_queue, T)
      BY <1>1, <2>2, CountConcat
    <3>2. Queued(T)' = Count(ready \o event_queue, T) + Count(rest, T)
      BY <1>4 DEF Queued
    <3> QED
      BY <3>1, <3>2
  <2>8. ASSUME NEW T, Count(ready, T) = Count(front, T) PROVE Queued(T)' = Queued(T)
    BY <2>6, <2>7, <2>8 DEF Queued
  <2>9. /\ \A m : Count(ready, NodeIs(m)) = Count(front, NodeIs(m))
        /\ \A cb : Count(ready, CbIs(cb)) = Count(front, CbIs(cb))
    BY <2>2, <2>3, <2>5, CountSame
  <2> QED
    BY <2>8, <2>9 DEF Moves
<1> QED
  BY <1>3, <1>4 DEF LookAtTimers, MoveReady

\* Time that passes changes only runtimes.
LEMMA TickMoves ==
  ASSUME IInv, IInv', Tick
  PROVE  Moves
<1>1. /\ timer_queue \in Seq(Event) /\ timer_queue' \in Seq(Event)
      /\ event_queue \in Seq(Event) /\ event_queue' = event_queue
      /\ Len(timer_queue) \in Nat /\ DOMAIN timer_queue = 1 .. Len(timer_queue)
  BY LenProperties DEF IInv, TypeOK, Tick
<1>2. timer_queue' = [k \in 1 .. Len(timer_queue) |-> TickEvent(timer_queue[k])]
  BY <1>1 DEF Tick
<1>3. Len(timer_queue') = Len(timer_queue)
  BY <1>1, <1>2, LenProperties
<1>4. \A k \in 1 .. Len(timer_queue) : timer_queue[k] \in Event
  BY <1>1, ElementOfSeq
<1>5. ASSUME NEW e \in Event PROVE TickEvent(e).node = e.node /\ TickEvent(e).cb = e.cb
  BY DEF TickEvent, Event
<1>6. SameButDue(timer_queue', timer_queue)
  BY <1>2, <1>3, <1>4, <1>5 DEF SameButDue
<1> DEFINE p == timer_queue'
           q == timer_queue
<1>7. /\ \A n : Count(p, NodeIs(n)) = Count(q, NodeIs(n))
      /\ \A cb : Count(p, CbIs(cb)) = Count(q, CbIs(cb))
  <2>1. p \in Seq(Event) /\ q \in Seq(Event) /\ SameButDue(p, q)
    BY <1>1, <1>6
  <2> HIDE DEF p, q
  <2> QED
    BY <2>1, CountSame
<1>8. \A T : Queued(T)' = Count(event_queue, T) + Count(p, T)
  BY <1>1 DEF Queued
<1> QED
  BY <1>7, <1>8 DEF Moves, Queued

-----------------------------------------------------------------------------
(* Nodes and events are in one place.                                      *)

\* A handler's event is the only one the dispatch thread holds back.
NoneBetween == disp \notin {"handler", "cancel"} => current = None

Holds(n) == IF current # None /\ current.node = n THEN 1 ELSE 0
Held(n)  == In(n, free_queue) + In(n, free_bg_queue) + Holds(n)

NodesBalanced  == \A n \in EventBuf : Queued(NodeIs(n)) + Held(n) = 1
EventsBalanced == \A cb \in AllCallbacks : owed[cb] = Queued(CbIs(cb))

LInv == IInv /\ NoneBetween /\ NodesBalanced /\ EventsBalanced

\* A new event takes its node from the list of its thread, or from the heap.
LEMMA AllocBalanced ==
  ASSUME TypeOK, NodesBalanced, NEW ev \in Event, Adds(ev),
         AllocNode(ev.node) \/ AllocNodeBg(ev.node), current' = current
  PROVE  NodesBalanced'
<1> SUFFICES ASSUME NEW n \in EventBuf PROVE Queued(NodeIs(n))' + Held(n)' = 1
  BY DEF NodesBalanced
<1>1. Queued(NodeIs(n)) + Held(n) = 1 /\ Queued(NodeIs(n)) \in Nat
  BY QueuedType DEF NodesBalanced
<1>2. Queued(NodeIs(n))' = Queued(NodeIs(n)) + In(ev, NodeIs(n))
  BY DEF Adds
<1>3. In(ev, NodeIs(n)) = IF ev.node = n THEN 1 ELSE 0
  BY DEF In, NodeIs
<1>4. Holds(n)' = Holds(n) /\ Holds(n) \in {0, 1}
  BY DEF Holds
<1>5. n # Heap
  BY EventQueueAssumption
<1>6. CASE ev.node = n
  <2>1. Held(n)' = Held(n) - 1
    BY <1>4, <1>5, <1>6 DEF AllocNode, AllocNodeBg, Held, In
  <2> QED
    BY <1>1, <1>2, <1>3, <1>4, <1>6, <2>1 DEF Held, In
<1>7. CASE ev.node # n
  <2>1. Held(n)' = Held(n)
    BY <1>4, <1>7 DEF AllocNode, AllocNodeBg, Held, In
  <2> QED
    BY <1>1, <1>2, <1>3, <1>4, <1>7, <2>1 DEF Held, In
<1> QED
  BY <1>6, <1>7

\* An event in a heap node, such as that of exit_event_loop, takes none.
LEMMA HeapBalanced ==
  ASSUME TypeOK, NodesBalanced, NEW ev \in Event, Adds(ev), ev.node = Heap,
         UNCHANGED <<pools, current>>
  PROVE  NodesBalanced'
<1> SUFFICES ASSUME NEW n \in EventBuf PROVE Queued(NodeIs(n))' + Held(n)' = 1
  BY DEF NodesBalanced
<1>1. Queued(NodeIs(n)) + Held(n) = 1 /\ Queued(NodeIs(n)) \in Nat
  BY QueuedType DEF NodesBalanced
<1>2. Queued(NodeIs(n))' = Queued(NodeIs(n)) + In(ev, NodeIs(n))
  BY DEF Adds
<1>3. In(ev, NodeIs(n)) = 0
  BY EventQueueAssumption DEF In, NodeIs
<1>4. Held(n)' = Held(n)
  BY DEF Held, Holds, In, pools
<1> QED
  BY <1>1, <1>2, <1>3, <1>4

\* The dispatched event is in the dispatch thread's hands,
LEMMA DispatchBalanced ==
  ASSUME TypeOK, NodesBalanced, NEW ev \in Event, Takes(ev), current = None,
         current' = ev, UNCHANGED pools
  PROVE  NodesBalanced'
<1> SUFFICES ASSUME NEW n \in EventBuf PROVE Queued(NodeIs(n))' + Held(n)' = 1
  BY DEF NodesBalanced
<1>1. Queued(NodeIs(n)) + Held(n) = 1 /\ Queued(NodeIs(n)) \in Nat
  BY QueuedType DEF NodesBalanced
<1>2. Queued(NodeIs(n))' = Queued(NodeIs(n)) - In(ev, NodeIs(n))
  BY DEF Takes
<1>3. In(ev, NodeIs(n)) = IF ev.node = n THEN 1 ELSE 0
  BY DEF In, NodeIs
<1>4. ev # None
  BY NoneAssumption
<1>5. Holds(n) = 0 /\ Holds(n)' = IF ev.node = n THEN 1 ELSE 0
  BY <1>4 DEF Holds
<1>6. Held(n)' = Held(n) + In(ev, NodeIs(n))
  BY <1>3, <1>5 DEF Held, In, pools
<1>7. Held(n) \in Int
  BY <1>5, InType DEF Held
<1> QED
  BY <1>1, <1>2, <1>3, <1>6, <1>7

\* until its node goes back to the free list,
LEMMA ReturnBalanced ==
  ASSUME TypeOK, NodesBalanced, UNCHANGED queues, current \in Event, current' = None,
         FreeNode(current.node)
  PROVE  NodesBalanced'
<1> SUFFICES ASSUME NEW n \in EventBuf PROVE Queued(NodeIs(n))' + Held(n)' = 1
  BY DEF NodesBalanced
<1>1. Queued(NodeIs(n)) + Held(n) = 1 /\ Queued(NodeIs(n)) \in Nat
  BY QueuedType DEF NodesBalanced
<1>2. Queued(NodeIs(n))' = Queued(NodeIs(n))
  BY DEF Queued, queues
<1>3. current # None /\ n # Heap
  BY NoneAssumption, EventQueueAssumption
<1>4. /\ Holds(n)' = 0 /\ Holds(n) = IF current.node = n THEN 1 ELSE 0
      /\ free_bg_queue' = free_bg_queue
  BY <1>3 DEF Holds, FreeNode
<1>5. CASE current.node = n
  <2>1. In(n, free_queue) = 0 /\ In(n, free_bg_queue) = 0
    BY <1>1, <1>4, <1>5, InType DEF Held
  <2>2. In(n, free_queue') = 1
    BY <1>3, <1>5 DEF FreeNode, In
  <2> QED
    BY <1>1, <1>2, <1>4, <1>5, <2>1, <2>2 DEF Held
<1>6. CASE current.node # n
  <2>1. In(n, free_queue') = In(n, free_queue)
    BY <1>6 DEF FreeNode, In
  <2> QED
    BY <1>1, <1>2, <1>4, <1>6, <2>1 DEF Held
<1> QED
  BY <1>5, <1>6

\* which exit_event_handler does after it has taken a node for its repost.
LEMMA RepostBalanced ==
  ASSUME TypeOK, NodesBalanced, NEW ev \in Event, Adds(ev), current \in Event,
         current' = None, free_bg_queue' = free_bg_queue,
         ev.node \in IF free_queue = {} THEN {Heap} ELSE free_queue,
         free_queue' = (free_queue \ {ev.node}) \cup ({current.node} \ {Heap})
  PROVE  NodesBalanced'
<1> SUFFICES ASSUME NEW n \in EventBuf PROVE Queued(NodeIs(n))' + Held(n)' = 1
  BY DEF NodesBalanced
<1>1. Queued(NodeIs(n)) + Held(n) = 1 /\ Queued(NodeIs(n)) \in Nat
  BY QueuedType DEF NodesBalanced
<1>2. Queued(NodeIs(n))' = Queued(NodeIs(n)) + In(ev, NodeIs(n))
  BY DEF Adds
<1>3. In(ev, NodeIs(n)) = IF ev.node = n THEN 1 ELSE 0
  BY DEF In, NodeIs
<1>4. current # None /\ n # Heap
  BY NoneAssumption, EventQueueAssumption
<1>5. /\ Holds(n)' = 0 /\ Holds(n) = IF current.node = n THEN 1 ELSE 0
      /\ In(n, free_bg_queue') = In(n, free_bg_queue) /\ In(n, free_bg_queue) \in {0, 1}
      /\ In(n, free_queue) \in {0, 1}
  BY <1>4, InType DEF Holds
<1>6. CASE current.node = n
  <2>1. In(n, free_queue) = 0 /\ In(n, free_bg_queue) = 0
    BY <1>1, <1>5, <1>6 DEF Held
  <2>2. n \notin free_queue
    BY <2>1 DEF In
  <2>3. ev.node # n /\ In(n, free_queue') = 1
    BY <1>4, <1>6, <2>2 DEF In
  <2> QED
    BY <1>1, <1>2, <1>3, <1>5, <1>6, <2>1, <2>3 DEF Held
<1>7. CASE current.node # n /\ ev.node = n
  <2>1. In(n, free_queue) = 1 /\ In(n, free_queue') = 0
    BY <1>4, <1>7 DEF In
  <2> QED
    BY <1>1, <1>2, <1>3, <1>5, <1>7, <2>1 DEF Held
<1>8. CASE current.node # n /\ ev.node # n
  <2>1. In(n, free_queue') = In(n, free_queue)
    BY <1>8 DEF In
  <2> QED
    BY <1>1, <1>2, <1>3, <1>5, <1>8, <2>1 DEF Held
<1> QED
  BY <1>6, <1>7, <1>8

\* A cancelled event gives its node back; it was in no other place.
LEMMA CancelBalanced ==
  ASSUME TypeOK, TypeOK', NodesBalanced, NEW ev \in Event, Takes(ev), FreeNode(ev.node),
         current' = current
  PROVE  NodesBalanced'
<1> SUFFICES ASSUME NEW n \in EventBuf PROVE Queued(NodeIs(n))' + Held(n)' = 1
  BY DEF NodesBalanced
<1>1. Queued(NodeIs(n)) + Held(n) = 1 /\ Queued(NodeIs(n)) \in Nat
  BY QueuedType DEF NodesBalanced
<1>2. Queued(NodeIs(n))' = Queued(NodeIs(n)) - In(ev, NodeIs(n))
  BY DEF Takes
<1>3. In(ev, NodeIs(n)) = IF ev.node = n THEN 1 ELSE 0
  BY DEF In, NodeIs
<1>4. /\ Holds(n)' = Holds(n) /\ Holds(n) \in {0, 1} /\ n # Heap
      /\ free_bg_queue' = free_bg_queue
      /\ In(n, free_queue) \in {0, 1} /\ In(n, free_bg_queue) \in {0, 1}
  BY InType, EventQueueAssumption DEF Holds, FreeNode
<1>5. Queued(NodeIs(n))' \in Nat
  <2>1. /\ Count(event_queue', NodeIs(n)) \in Nat
        /\ Count(timer_queue', NodeIs(n)) \in Nat
    BY CountNat DEF TypeOK
  <2> QED
    BY <2>1 DEF Queued
<1>6. CASE ev.node = n
  <2>1. In(n, free_queue) = 0
    BY <1>1, <1>2, <1>3, <1>4, <1>5, <1>6 DEF Held
  <2>2. In(n, free_queue') = 1
    BY <1>4, <1>6 DEF FreeNode, In
  <2> QED
    BY <1>1, <1>2, <1>3, <1>4, <1>6, <2>1, <2>2 DEF Held
<1>7. CASE ev.node # n
  <2>1. In(n, free_queue') = In(n, free_queue)
    BY <1>7 DEF FreeNode, In
  <2> QED
    BY <1>1, <1>2, <1>3, <1>4, <1>7, <2>1 DEF Held
<1> QED
  BY <1>6, <1>7

\* Topping up free_bg_queue moves nodes from one list to the other.
LEMMA RefillBalanced ==
  ASSUME TypeOK, NodesBalanced, Moves, RefillBgPool \/ UNCHANGED pools, current' = current
  PROVE  NodesBalanced'
<1> SUFFICES ASSUME NEW n \in EventBuf PROVE Queued(NodeIs(n))' + Held(n)' = 1
  BY DEF NodesBalanced
<1>1. Queued(NodeIs(n)) + Held(n) = 1 /\ Queued(NodeIs(n)) \in Nat
  BY QueuedType DEF NodesBalanced
<1>2. Queued(NodeIs(n))' = Queued(NodeIs(n))
  BY DEF Moves
<1>3. Holds(n)' = Holds(n) /\ Holds(n) \in {0, 1}
  BY DEF Holds
<1>4. CASE UNCHANGED pools
  BY <1>1, <1>2, <1>3, <1>4 DEF Held, pools
<1>5. CASE RefillBgPool
  <2>1. PICK S \in SUBSET free_queue :
          free_queue' = free_queue \ S /\ free_bg_queue' = free_bg_queue \cup S
    BY <1>5 DEF RefillBgPool
  <2>2. In(n, free_queue) = 0 \/ In(n, free_bg_queue) = 0
    BY <1>1, <1>3, InType DEF Held, In
  <2>3. In(n, free_queue') + In(n, free_bg_queue') = In(n, free_queue) + In(n, free_bg_queue)
    BY <2>1, <2>2 DEF In
  <2> QED
    BY <1>1, <1>2, <1>3, <2>3, InType DEF Held
<1> QED
  BY <1>4, <1>5

\* What is owed to a callback follows what is queued for it.
LEMMA PostOwed ==
  ASSUME EventsBalanced, TypeOK, NEW ev \in Event, Adds(ev),
         owed' = [owed EXCEPT ![ev.cb] = @ + 1]
  PROVE  EventsBalanced'
<1> SUFFICES ASSUME NEW cb \in AllCallbacks PROVE owed'[cb] = Queued(CbIs(cb))'
  BY DEF EventsBalanced
<1>1. Queued(CbIs(cb))' = Queued(CbIs(cb)) + In(ev, CbIs(cb))
  BY DEF Adds
<1>2. In(ev, CbIs(cb)) = IF ev.cb = cb THEN 1 ELSE 0
  BY DEF In, CbIs
<1>3. owed[cb] = Queued(CbIs(cb)) /\ owed[cb] \in Int /\ owed \in [AllCallbacks -> Int]
  BY DEF EventsBalanced, TypeOK
<1>4. owed'[cb] = owed[cb] + IF ev.cb = cb THEN 1 ELSE 0
  BY <1>3
<1> QED
  BY <1>1, <1>2, <1>3, <1>4

\* A dispatched or cancelled event is owed no more.
LEMMA TakeOwed ==
  ASSUME EventsBalanced, TypeOK, NEW ev \in Event, Takes(ev),
         owed' = [owed EXCEPT ![ev.cb] = @ - 1]
  PROVE  EventsBalanced'
<1> SUFFICES ASSUME NEW cb \in AllCallbacks PROVE owed'[cb] = Queued(CbIs(cb))'
  BY DEF EventsBalanced
<1>1. Queued(CbIs(cb))' = Queued(CbIs(cb)) - In(ev, CbIs(cb))
  BY DEF Takes
<1>2. In(ev, CbIs(cb)) = IF ev.cb = cb THEN 1 ELSE 0
  BY DEF In, CbIs
<1>3. owed[cb] = Queued(CbIs(cb)) /\ owed[cb] \in Int /\ owed \in [AllCallbacks -> Int]
  BY DEF EventsBalanced, TypeOK
<1>4. owed'[cb] = owed[cb] - IF ev.cb = cb THEN 1 ELSE 0
  BY <1>3
<1> QED
  BY <1>1, <1>2, <1>3, <1>4

\* A list that only moves leaves every event owed.
LEMMA MoveOwed ==
  ASSUME EventsBalanced, Moves, owed' = owed
  PROVE  EventsBalanced'
BY DEF EventsBalanced, Moves

\* A step that touches neither queues, lists nor the event in hand.
LEMMA StillBalanced ==
  ASSUME LInv, UNCHANGED <<queues, pools, current, owed>>
  PROVE  NodesBalanced' /\ EventsBalanced'
<1>1. Moves /\ UNCHANGED pools /\ current' = current /\ owed' = owed
  BY DEF Moves, Queued, queues
<1> QED
  BY <1>1, RefillBalanced, MoveOwed DEF LInv, IInv

-----------------------------------------------------------------------------
(* One lemma per group of actions, again.                                  *)

\* The posting functions.
LEMMA PostsKeepLInv ==
  ASSUME LInv,
         \/ \E b \in BgThreads : BgPost(b)
         \/ \E cb \in Callbacks : PostEvent(cb)
         \/ \E cb \in Callbacks, d \in Delays : PostEventWithDelay(cb, d)
  PROVE  NodesBalanced' /\ EventsBalanced' /\ UNCHANGED loop
<1>1. TypeOK /\ NodesBalanced /\ EventsBalanced
  BY DEF LInv, IInv
<1>2. SUFFICES ASSUME NEW ev \in Event, Adds(ev), UNCHANGED loop,
                      AllocNode(ev.node) \/ AllocNodeBg(ev.node), CountPost(ev.cb)
               PROVE  NodesBalanced' /\ EventsBalanced'
  <2>1. ASSUME NEW b \in BgThreads, BgPost(b)
        PROVE  \E ev \in Event : /\ Adds(ev) /\ UNCHANGED loop
                                 /\ AllocNode(ev.node) \/ AllocNodeBg(ev.node)
                                 /\ CountPost(ev.cb)
    <3>1. PICK n \in Nodes :
            /\ AllocNodeBg(n)
            /\ timer_queue' = InsertTimer(timer_queue,
                                NewEvent(n, bg[b].cb, TRUE, bg[b].due, bg[b].imm, b))
      BY <2>1 DEF BgPost
    <3> DEFINE ev == NewEvent(n, bg[b].cb, TRUE, bg[b].due, bg[b].imm, b)
    <3>2. ev.node = n /\ ev.cb = bg[b].cb
      BY DEF NewEvent
    <3>3. ev \in Event
      <4>1. bg[b].cb \in AllCallbacks /\ bg[b].due \in Int /\ bg[b].imm \in BOOLEAN
        BY <1>1 DEF TypeOK, BgState
      <4>2. b \in Threads /\ TRUE \in BOOLEAN
        BY DEF Threads
      <4> QED
        BY <1>1, <4>1, <4>2, NewEventType
    <3>4. /\ timer_queue' = InsertTimer(timer_queue, ev) /\ event_queue' = event_queue
          /\ CountPost(bg[b].cb) /\ UNCHANGED loop
      BY <2>1, <3>1 DEF BgPost
    <3> HIDE DEF ev
    <3>5. Adds(ev)
      BY <1>1, <3>3, <3>4, InsertAdds
    <3> QED
      BY <3>1, <3>2, <3>3, <3>4, <3>5
  <2>2. ASSUME NEW cb \in Callbacks, PostEvent(cb)
        PROVE  \E ev \in Event : /\ Adds(ev) /\ UNCHANGED loop
                                 /\ AllocNode(ev.node) \/ AllocNodeBg(ev.node)
                                 /\ CountPost(ev.cb)
    <3>1. PICK n \in Nodes :
            /\ AllocNode(n)
            /\ event_queue' = Append(event_queue,
                                NewEvent(n, cb, FALSE, 0, TRUE, Dispatcher))
      BY <2>2 DEF PostEvent
    <3> DEFINE ev == NewEvent(n, cb, FALSE, 0, TRUE, Dispatcher)
    <3>2. ev.node = n /\ ev.cb = cb
      BY DEF NewEvent
    <3>3. ev \in Event
      <4>1. /\ cb \in AllCallbacks /\ Dispatcher \in Threads /\ 0 \in Int
            /\ TRUE \in BOOLEAN /\ FALSE \in BOOLEAN
        BY DEF AllCallbacks, Threads
      <4> QED
        BY <1>1, <4>1, NewEventType
    <3>4. /\ event_queue' = Append(event_queue, ev) /\ timer_queue' = timer_queue
          /\ CountPost(cb) /\ UNCHANGED loop
      BY <2>2, <3>1 DEF PostEvent
    <3> HIDE DEF ev
    <3>5. Adds(ev)
      BY <1>1, <3>3, <3>4, AppendAdds
    <3> QED
      BY <3>1, <3>2, <3>3, <3>4, <3>5
  <2>3. ASSUME NEW cb \in Callbacks, NEW d \in Delays, PostEventWithDelay(cb, d)
        PROVE  \E ev \in Event : /\ Adds(ev) /\ UNCHANGED loop
                                 /\ AllocNode(ev.node) \/ AllocNodeBg(ev.node)
                                 /\ CountPost(ev.cb)
    <3>1. PICK n \in Nodes :
            /\ AllocNode(n)
            /\ timer_queue' = InsertTimer(timer_queue,
                                NewEvent(n, cb, TRUE, d, FALSE, Dispatcher))
      BY <2>3 DEF PostEventWithDelay
    <3> DEFINE ev == NewEvent(n, cb, TRUE, d, FALSE, Dispatcher)
    <3>2. ev.node = n /\ ev.cb = cb /\ d \in Int
      BY EventQueueAssumption DEF NewEvent
    <3>3. ev \in Event
      <4>1. /\ cb \in AllCallbacks /\ Dispatcher \in Threads
            /\ TRUE \in BOOLEAN /\ FALSE \in BOOLEAN
        BY DEF AllCallbacks, Threads
      <4> QED
        BY <1>1, <3>2, <4>1, NewEventType
    <3>4. /\ timer_queue' = InsertTimer(timer_queue, ev) /\ event_queue' = event_queue
          /\ CountPost(cb) /\ UNCHANGED loop
      BY <2>3, <3>1 DEF PostEventWithDelay
    <3> HIDE DEF ev
    <3>5. Adds(ev)
      BY <1>1, <3>3, <3>4, InsertAdds
    <3> QED
      BY <3>1, <3>2, <3>3, <3>4, <3>5
  <2> QED
    BY <2>1, <2>2, <2>3
<1>3. current' = current /\ owed' = [owed EXCEPT ![ev.cb] = @ + 1]
  BY <1>2 DEF loop, CountPost
<1>4. NodesBalanced'
  BY <1>1, <1>2, <1>3, AllocBalanced
<1>5. EventsBalanced'
  BY <1>1, <1>2, <1>3, PostOwed
<1> QED
  BY <1>4, <1>5

\* exit_event_loop, whose node is its own.
LEMMA ExitKeepsLInv ==
  ASSUME LInv, ExitEventLoop
  PROVE  NodesBalanced' /\ EventsBalanced' /\ UNCHANGED loop
<1> DEFINE ev == [node |-> Heap, cb |-> ExitHandler, timed |-> FALSE, due |-> 0,
                  imm |-> FALSE, src |-> Dispatcher, serial |-> serial]
<1>1. TypeOK /\ NodesBalanced /\ EventsBalanced
  BY DEF LInv, IInv
<1>2. ev \in Event /\ ev.node = Heap /\ ev.cb = ExitHandler
  BY <1>1 DEF TypeOK, Event, Nodes, AllCallbacks, Threads
<1>3. /\ timer_queue' = <<ev>> \o timer_queue /\ event_queue' = event_queue
      /\ owed' = [owed EXCEPT ![ExitHandler] = @ + 1]
      /\ UNCHANGED loop /\ UNCHANGED <<pools, current>>
  BY DEF ExitEventLoop, loop
<1> HIDE DEF ev
<1>4. Adds(ev)
  BY <1>1, <1>2, <1>3, PrependAdds
<1>5. NodesBalanced'
  BY <1>1, <1>2, <1>3, <1>4, HeapBalanced
<1>6. EventsBalanced'
  BY <1>1, <1>2, <1>3, <1>4, PostOwed
<1> QED
  BY <1>3, <1>5, <1>6

\* cancel_event, when it finds the event in one of the queues.
LEMMA CancelsKeepLInv ==
  ASSUME LInv, TypeOK', NEW cb \in Callbacks, CancelQueued(cb) \/ CancelTimer(cb)
  PROVE  NodesBalanced' /\ EventsBalanced' /\ UNCHANGED loop
<1>1. TypeOK /\ NodesBalanced /\ EventsBalanced
  BY DEF LInv, IInv
<1>2. /\ event_queue \in Seq(Event) /\ timer_queue \in Seq(Event)
      /\ DOMAIN event_queue = 1 .. Len(event_queue) /\ Len(event_queue) \in Nat
      /\ DOMAIN timer_queue = 1 .. Len(timer_queue) /\ Len(timer_queue) \in Nat
  BY <1>1, LenProperties DEF TypeOK
<1>3. SUFFICES ASSUME NEW ev \in Event, Takes(ev), FreeNode(ev.node), ev.cb = cb
               PROVE  NodesBalanced' /\ EventsBalanced' /\ UNCHANGED loop
  <2>1. CASE CancelQueued(cb)
    <3> DEFINE S == Matches(event_queue, cb)
               k == Min(S)
    <3>1. S # {} /\ S \subseteq Nat /\ S \subseteq 1 .. Len(event_queue)
      BY <1>2, <2>1 DEF CancelQueued, Matches
    <3>2. k \in S
      <4> HIDE DEF S
      <4> QED
        BY <3>1, MinNat
    <3>3. k \in 1 .. Len(event_queue) /\ event_queue[k].cb = cb /\ event_queue[k] \in Event
      BY <1>2, <3>1, <3>2, ElementOfSeq DEF Matches
    <3>4. /\ event_queue' = RemoveAt(event_queue, k) /\ timer_queue' = timer_queue
          /\ FreeNode(event_queue[k].node)
      BY <2>1 DEF CancelQueued
    <3> HIDE DEF k
    <3>5. Takes(event_queue[k])
      BY <1>1, <3>3, <3>4, RemoveQueuedTakes
    <3> QED
      BY <1>3, <3>3, <3>4, <3>5
  <2>2. CASE CancelTimer(cb)
    <3> DEFINE S == Matches(timer_queue, cb)
               k == Min(S)
    <3>1. S # {} /\ S \subseteq Nat /\ S \subseteq 1 .. Len(timer_queue)
      BY <1>2, <2>2 DEF CancelTimer, Matches
    <3>2. k \in S
      <4> HIDE DEF S
      <4> QED
        BY <3>1, MinNat
    <3>3. k \in 1 .. Len(timer_queue) /\ timer_queue[k].cb = cb /\ timer_queue[k] \in Event
      BY <1>2, <3>1, <3>2, ElementOfSeq DEF Matches
    <3>4. /\ timer_queue' = RemoveAt(timer_queue, k) /\ event_queue' = event_queue
          /\ FreeNode(timer_queue[k].node)
      BY <2>2 DEF CancelTimer
    <3> HIDE DEF k
    <3>5. Takes(timer_queue[k])
      BY <1>1, <3>3, <3>4, RemoveTimerTakes
    <3> QED
      BY <1>3, <3>3, <3>4, <3>5
  <2> QED
    BY <2>1, <2>2
<1>4. UNCHANGED loop /\ current' = current /\ owed' = [owed EXCEPT ![ev.cb] = @ - 1]
  BY <1>3 DEF CancelQueued, CancelTimer, CountTaken, loop
<1>5. NodesBalanced'
  BY <1>1, <1>3, <1>4, CancelBalanced
<1>6. EventsBalanced'
  BY <1>1, <1>3, <1>4, TakeOwed
<1> QED
  BY <1>4, <1>5, <1>6

\* The next event is taken into the dispatch thread's hands.
LEMMA DispatchKeepsLInv ==
  ASSUME LInv, Dispatch
  PROVE  NodesBalanced' /\ EventsBalanced'
<1> DEFINE ev == Head(event_queue)
<1>1. TypeOK /\ NodesBalanced /\ EventsBalanced /\ current = None
  BY DEF LInv, IInv, NoneBetween, Dispatch
<1>2. event_queue \in Seq(Event) /\ event_queue # <<>>
  BY <1>1 DEF LInv, IInv, TypeOK, Dispatch, DispatchHasWork, MustCollect
<1>3. ev \in Event
  BY <1>2, HeadTailProperties
<1>4. /\ current' = ev /\ owed' = [owed EXCEPT ![ev.cb] = @ - 1] /\ UNCHANGED pools
      /\ event_queue' = Tail(event_queue) /\ timer_queue' = timer_queue
  BY DEF Dispatch, CountTaken
<1>5. Takes(ev)
  BY <1>1, <1>2, <1>4, TailTakes
<1> HIDE DEF ev
<1>6. NodesBalanced'
  BY <1>1, <1>3, <1>4, <1>5, DispatchBalanced
<1>7. EventsBalanced'
  BY <1>1, <1>3, <1>4, <1>5, TakeOwed
<1> QED
  BY <1>6, <1>7

\* The handler returns, exit_event_handler included.
LEMMA ReturnKeepsLInv ==
  ASSUME LInv, HandlerReturn \/ ExitEventHandlerStops \/ ExitEventHandlerReposts
  PROVE  NodesBalanced' /\ EventsBalanced' /\ current' = None
<1>1. TypeOK /\ NodesBalanced /\ EventsBalanced
  BY DEF LInv, IInv
<1>2. current \in Event /\ current' = None
  BY DEF LInv, IInv, HandlerHasEvent, HandlerReturn, ExitEventHandlerStops,
         ExitEventHandlerReposts
<1>3. CASE HandlerReturn \/ ExitEventHandlerStops
  <2>1. FreeNode(current.node) /\ UNCHANGED queues /\ owed' = owed
    BY <1>3 DEF HandlerReturn, ExitEventHandlerStops, ghosts
  <2>2. NodesBalanced'
    BY <1>1, <1>2, <2>1, ReturnBalanced
  <2>3. Moves
    BY <2>1 DEF Moves, Queued, queues
  <2> QED
    BY <1>1, <1>2, <2>1, <2>2, <2>3, MoveOwed
<1>4. CASE ExitEventHandlerReposts
  <2>1. PICK n \in Nodes :
          /\ n \in IF free_queue = {} THEN {Heap} ELSE free_queue
          /\ free_queue' = (free_queue \ {n}) \cup ({current.node} \ {Heap})
          /\ event_queue' = Append(event_queue,
               [node |-> n, cb |-> ExitHandler, timed |-> FALSE, due |-> 0,
                imm |-> FALSE, src |-> Dispatcher, serial |-> serial])
    BY <1>4 DEF ExitEventHandlerReposts
  <2> DEFINE ev == [node |-> n, cb |-> ExitHandler, timed |-> FALSE, due |-> 0,
                    imm |-> FALSE, src |-> Dispatcher, serial |-> serial]
  <2>2. ev \in Event /\ ev.node = n /\ ev.cb = ExitHandler
    BY <1>1 DEF TypeOK, Event, AllCallbacks, Threads
  <2>3. /\ event_queue' = Append(event_queue, ev) /\ timer_queue' = timer_queue
        /\ free_bg_queue' = free_bg_queue
        /\ owed' = [owed EXCEPT ![ExitHandler] = @ + 1]
    BY <1>4, <2>1 DEF ExitEventHandlerReposts
  <2> HIDE DEF ev
  <2>4. Adds(ev)
    BY <1>1, <2>2, <2>3, AppendAdds
  <2>5. NodesBalanced'
    BY <1>1, <1>2, <2>1, <2>2, <2>3, <2>4, RepostBalanced
  <2>6. EventsBalanced'
    BY <1>1, <2>2, <2>3, <2>4, PostOwed
  <2> QED
    BY <1>2, <2>5, <2>6
<1> QED
  BY <1>3, <1>4

\* Looking at timer_queue, and the clock.
LEMMA CollectKeepsLInv ==
  ASSUME LInv, IInv', Collect \/ WakeUp \/ Tick
  PROVE  NodesBalanced' /\ EventsBalanced' /\ current' = current
<1>1. TypeOK /\ NodesBalanced /\ EventsBalanced
  BY DEF LInv, IInv
<1>2. Moves
  BY LookMoves, TickMoves DEF Collect, WakeUp, LInv
<1>3. /\ RefillBgPool \/ UNCHANGED pools
      /\ current' = current /\ owed' = owed
  BY DEF Collect, WakeUp, Tick, ghosts, loop
<1>4. NodesBalanced'
  BY <1>1, <1>2, <1>3, RefillBalanced
<1>5. EventsBalanced'
  BY <1>1, <1>2, <1>3, MoveOwed
<1> QED
  BY <1>3, <1>4, <1>5

\* Nothing is queued or owed at the start.
LEMMA InitLInv == Init => LInv
<1> SUFFICES ASSUME Init PROVE LInv
  OBVIOUS
<1>1. IInv /\ NoneBetween
  BY InitIInv DEF Init, NoneBetween
<1>2. ASSUME NEW T PROVE Queued(T) = 0
  <2>1. Count(<<>>, T) = 0
    BY PlacesEmpty DEF Count
  <2>2. Queued(T) = Count(<<>>, T) + Count(<<>>, T)
    BY DEF Init, Queued
  <2> QED
    BY <2>1, <2>2
<1>3. ASSUME NEW n \in EventBuf PROVE Held(n) = 1
  BY DEF Init, Held, Holds, In
<1>4. NodesBalanced
  BY <1>2, <1>3 DEF NodesBalanced
<1>5. EventsBalanced
  BY <1>2 DEF EventsBalanced, Init
<1> QED
  BY <1>1, <1>4, <1>5 DEF LInv

\* Every step keeps nodes and events in their one place.
LEMMA NextLInv == LInv /\ [Next]_vars => LInv'
<1> SUFFICES ASSUME LInv, [Next]_vars PROVE LInv'
  OBVIOUS
<1>1. IInv /\ IInv' /\ TypeOK' /\ NoneBetween
  BY NextIInv DEF LInv, IInv
<1>2. SUFFICES NoneBetween' /\ NodesBalanced' /\ EventsBalanced'
  BY <1>1 DEF LInv
<1>3. CASE UNCHANGED loop /\ NodesBalanced' /\ EventsBalanced'
  BY <1>1, <1>3 DEF NoneBetween, loop
<1>4. ASSUME NEW b \in BgThreads, BgStep(b) \/ \E cb \in Callbacks : BgStart(b, cb)
      PROVE  NoneBetween' /\ NodesBalanced' /\ EventsBalanced'
  <2>1. CASE BgPost(b)
    BY <1>3, <2>1, PostsKeepLInv
  <2>2. CASE ~BgPost(b)
    <3>1. UNCHANGED <<queues, pools, current, owed>> /\ UNCHANGED loop
      BY <1>4, <2>2 DEF BgStep, BgPostCancelled, BgReadClock, BgStart, loop, ghosts
    <3> QED
      BY <1>3, <3>1, StillBalanced
  <2> QED
    BY <2>1, <2>2
<1>5. CASE ExitEventLoop
  BY <1>3, <1>5, ExitKeepsLInv
<1>6. CASE LoopStep
  <2>1. CASE Collect \/ WakeUp
    <3>1. current = None
      BY <1>1, <2>1 DEF NoneBetween, Collect, WakeUp
    <3> QED
      BY <1>1, <2>1, <3>1, CollectKeepsLInv DEF NoneBetween
  <2>2. CASE Dispatch
    <3>1. NoneBetween'
      BY <2>2 DEF Dispatch, NoneBetween
    <3> QED
      BY <2>2, <3>1, DispatchKeepsLInv
  <2>3. CASE HandlerReturn \/ ExitEventHandlerStops \/ ExitEventHandlerReposts
    BY <2>3, ReturnKeepsLInv DEF NoneBetween
  <2>4. CASE CancelDone
    <3>1. UNCHANGED <<queues, pools, current, owed>> /\ disp' = "handler"
      BY <2>4 DEF CancelDone, ghosts
    <3> QED
      BY <3>1, StillBalanced DEF NoneBetween
  <2> QED
    BY <1>6, <2>1, <2>2, <2>3, <2>4 DEF LoopStep
<1>7. CASE ClientCall
  <2>1. CASE \/ \E cb \in Callbacks : PostEvent(cb)
             \/ \E cb \in Callbacks, d \in Delays : PostEventWithDelay(cb, d)
    BY <1>3, <2>1, PostsKeepLInv
  <2>2. ASSUME NEW cb \in Callbacks, CancelQueued(cb) \/ CancelTimer(cb)
        PROVE  NoneBetween' /\ NodesBalanced' /\ EventsBalanced'
    BY <1>1, <1>3, <2>2, CancelsKeepLInv
  <2>3. ASSUME NEW cb \in Callbacks, CancelWait(cb)
        PROVE  NoneBetween' /\ NodesBalanced' /\ EventsBalanced'
    <3>1. UNCHANGED <<queues, pools, current, owed>> /\ disp' = "cancel"
      BY <2>3 DEF CancelWait, ghosts
    <3> QED
      BY <3>1, StillBalanced DEF NoneBetween
  <2>4. CASE CancelEventLoop
    <3>1. UNCHANGED <<queues, pools, current, owed>> /\ disp' = disp
      BY <2>4 DEF CancelEventLoop, ghosts
    <3> QED
      BY <1>1, <3>1, StillBalanced DEF NoneBetween
  <2> QED
    BY <1>7, <2>1, <2>2, <2>3, <2>4 DEF ClientCall
<1>8. CASE Tick
  <2>1. disp' = disp
    BY <1>8 DEF Tick, loop
  <2> QED
    BY <1>1, <1>8, <2>1, CollectKeepsLInv DEF NoneBetween
<1>9. CASE UNCHANGED vars
  <2>1. UNCHANGED <<queues, pools, current, owed>> /\ UNCHANGED loop
    BY <1>9 DEF vars, loop, ghosts
  <2> QED
    BY <1>3, <2>1, StillBalanced
<1> QED
  BY <1>4, <1>5, <1>6, <1>7, <1>8, <1>9 DEF Next

\* Each node of event_buf is on one free list, in one queued event or in the
\* dispatch thread's hands, and what is owed to a callback is what is queued
\* for it: no event is lost, doubled or overwritten by a node that was freed
\* twice, whichever threads post while the loop collects, cancels and exits.
THEOREM NothingIsLost == Spec => []NothingLost
<1>1. LInv => NothingLost
  <2> SUFFICES ASSUME LInv PROVE NothingLost
    OBVIOUS
  <2>1. /\ event_queue \in Seq(Event) /\ timer_queue \in Seq(Event)
        /\ NodesBalanced /\ EventsBalanced
    BY DEF LInv, IInv, TypeOK
  <2>2. ASSUME NEW q \in Seq(Event), NEW n
        PROVE  Count(q, NodeIs(n)) = Cardinality({k \in DOMAIN q : q[k].node = n})
    <3>1. \A k \in DOMAIN q : q[k] \in Event
      BY LenProperties, ElementOfSeq
    <3>2. Places(q, NodeIs(n)) = {k \in DOMAIN q : q[k].node = n}
      BY <3>1 DEF Places, NodeIs
    <3> QED
      BY <3>2 DEF Count
  <2>3. ASSUME NEW q \in Seq(Event), NEW cb
        PROVE  Count(q, CbIs(cb)) = Cardinality(Matches(q, cb))
    <3>1. \A k \in DOMAIN q : q[k] \in Event
      BY LenProperties, ElementOfSeq
    <3>2. Places(q, CbIs(cb)) = Matches(q, cb)
      BY <3>1 DEF Places, CbIs, Matches
    <3> QED
      BY <3>2 DEF Count
  <2>4. ASSUME NEW n \in EventBuf PROVE NodeUses(n) = 1
    <3>1. /\ Queued(NodeIs(n)) + Held(n) = 1
          /\ Count(event_queue, NodeIs(n)) \in Nat /\ Count(timer_queue, NodeIs(n)) \in Nat
      BY <2>1, CountNat DEF NodesBalanced
    <3>2. NodeUses(n) = Count(event_queue, NodeIs(n)) + Count(timer_queue, NodeIs(n))
                        + In(n, free_queue) + In(n, free_bg_queue) + Holds(n)
      BY <2>1, <2>2 DEF NodeUses, In, Holds
    <3>3. In(n, free_queue) \in Nat /\ In(n, free_bg_queue) \in Nat /\ Holds(n) \in Nat
      BY DEF In, Holds
    <3> QED
      BY <3>1, <3>2, <3>3 DEF Queued, Held
  <2>5. ASSUME NEW cb \in AllCallbacks
        PROVE  owed[cb] = Cardinality(Matches(event_queue, cb))
                          + Cardinality(Matches(timer_queue, cb))
    BY <2>1, <2>3 DEF EventsBalanced, Queued
  <2> QED
    BY <2>4, <2>5 DEF NothingLost, NodesInOnePlace, EventsConserved
<1>2. Spec => []LInv
  BY InitLInv, NextLInv, PTL DEF Spec
<1> QED
  BY <1>1, <1>2, PTL

-----------------------------------------------------------------------------
(* First in, first out.                                                    *)

\* e may stay in front of f: not two post_event calls of one thread in the
\* wrong order.
Before(e, f) == e.imm /\ f.imm /\ e.src = f.src => e.serial <= f.serial

Fifo(q)      == \A i, j \in 1 .. Len(q) : i < j => Before(q[i], q[j])
Across(p, q) == \A i \in 1 .. Len(p), j \in 1 .. Len(q) : Before(p[i], q[j])

\* Timers that were collected are in front of what the handlers posted.
TimedFirst(q) == \A i, j \in 1 .. Len(q) : i < j /\ q[j].timed => q[i].timed

Untimeds == {e \in Event : ~e.timed}

\* What may be in event_queue after s posts: a timed event of post_event is
\* one of a background thread, an untimed one is the dispatch thread's.
Queueable(s) ==
  {e \in Event : /\ e.serial <= s
                 /\ e.imm => IF e.timed THEN e.src \in BgThreads ELSE e.src = Dispatcher}

\* What may be in timer_queue while the threads are in the states g: an event
\* of post_event is due, and no later than the one its thread is posting.
Timers(s, g) ==
  {e \in Queueable(s) :
     /\ e.timed
     /\ e.imm => /\ e.due <= 0
                 /\ g[e.src].pc = "posting" /\ g[e.src].imm => e.due <= g[e.src].due}

\* A thread that posts at once read a clock that is not ahead of the time.
ClockRead(g) == \A b \in BgThreads : g[b].pc = "posting" /\ g[b].imm => g[b].due <= 0

\* While it sleeps the loop has nothing queued, and it counts untimed events
\* only when no collected timer is left.
Counted == /\ disp = "wait" => event_queue = <<>> /\ event_cnt = 0
           /\ event_cnt >= 1 => event_queue \in Seq(Untimeds)

Ordered == /\ event_queue \in Seq(Queueable(serial))
           /\ timer_queue \in Seq(Timers(serial, bg))
           /\ TimedFirst(event_queue)
           /\ Fifo(event_queue) /\ Fifo(timer_queue) /\ Across(event_queue, timer_queue)

FInv == exit_event => /\ Counted /\ Ordered /\ ClockRead(bg)
                      /\ MaxSerial = 0 => serial = 0

\* r is what is left of q when some events are taken out.
Picks(r, q) ==
  \E f \in [1 .. Len(r) -> 1 .. Len(q)] :
    /\ \A i, j \in 1 .. Len(r) : i < j => f[i] < f[j]
    /\ \A i \in 1 .. Len(r) : r[i] = q[f[i]]

\* A part of a list, in its order, keeps the order of posts.
LEMMA PicksKeep ==
  ASSUME NEW q \in Seq(Event), NEW r \in Seq(Event), Picks(r, q)
  PROVE  /\ Fifo(q) => Fifo(r)
         /\ TimedFirst(q) => TimedFirst(r)
         /\ \A p \in Seq(Event) : /\ Across(p, q) => Across(p, r)
                                  /\ Across(q, p) => Across(r, p)
         /\ \A S : q \in Seq(S) => r \in Seq(S)
<1>1. PICK f \in [1 .. Len(r) -> 1 .. Len(q)] :
        /\ \A i, j \in 1 .. Len(r) : i < j => f[i] < f[j]
        /\ \A i \in 1 .. Len(r) : r[i] = q[f[i]]
  BY DEF Picks
<1>2. Fifo(q) => Fifo(r)
  BY ZenonT(60), <1>1 DEF Fifo
<1>3. TimedFirst(q) => TimedFirst(r)
  BY <1>1 DEF TimedFirst
<1>4. ASSUME NEW p \in Seq(Event)
      PROVE  (Across(p, q) => Across(p, r)) /\ (Across(q, p) => Across(r, p))
  BY <1>1 DEF Across
<1>5. ASSUME NEW S, q \in Seq(S) PROVE r \in Seq(S)
  <2>1. \A k \in 1 .. Len(q) : q[k] \in S
    BY <1>5, ElementOfSeq
  <2>2. \A k \in 1 .. Len(r) : r[k] \in S
    BY <1>1, <2>1
  <2> QED
    BY <2>2, SeqWithin
<1> QED
  BY <1>2, <1>3, <1>4, <1>5

\* The tail is a part of the list.
LEMMA TailPicks ==
  ASSUME NEW q \in Seq(Event), q # <<>>
  PROVE  Tail(q) \in Seq(Event) /\ Picks(Tail(q), q)
<1> DEFINE r == Tail(q)
           f == [i \in 1 .. Len(r) |-> i + 1]
<1>1. /\ r \in Seq(Event) /\ Len(r) = Len(q) - 1 /\ Len(q) \in Nat
      /\ \A i \in 1 .. Len(r) : r[i] = q[i + 1]
  BY HeadTailProperties, LenProperties
<1> HIDE DEF r
<1>2. f \in [1 .. Len(r) -> 1 .. Len(q)]
  BY <1>1
<1>3. /\ \A i, j \in 1 .. Len(r) : i < j => f[i] < f[j]
      /\ \A i \in 1 .. Len(r) : r[i] = q[f[i]]
  BY <1>1
<1> HIDE DEF f
<1>4. Picks(r, q)
  BY <1>2, <1>3 DEF Picks
<1> QED
  BY <1>1, <1>4 DEF r

\* So is the list without one place.
LEMMA RemovePicks ==
  ASSUME NEW q \in Seq(Event), NEW k \in 1 .. Len(q)
  PROVE  RemoveAt(q, k) \in Seq(Event) /\ Picks(RemoveAt(q, k), q)
<1> DEFINE r == RemoveAt(q, k)
           f == [i \in 1 .. Len(r) |-> IF i < k THEN i ELSE i + 1]
<1>1. /\ r \in Seq(Event) /\ Len(r) = Len(q) - 1
      /\ \A i \in 1 .. Len(q) - 1 : r[i] = IF i < k THEN q[i] ELSE q[i + 1]
  BY RemoveAtFacts
<1>2. Len(q) \in Nat
  BY LenProperties
<1> HIDE DEF r
<1>3. f \in [1 .. Len(r) -> 1 .. Len(q)]
  BY <1>1, <1>2
<1>4. \A i, j \in 1 .. Len(r) : i < j => f[i] < f[j]
  BY <1>1, <1>2
<1>5. \A i \in 1 .. Len(r) : r[i] = q[f[i]]
  BY <1>1, <1>2
<1> HIDE DEF f
<1>6. Picks(r, q)
  BY <1>3, <1>4, <1>5 DEF Picks
<1> QED
  BY <1>1, <1>6 DEF r

\* An event at the end of the untimed queue.
LEMMA AppendOrdered ==
  ASSUME NEW p \in Seq(Event), NEW q \in Seq(Event), NEW ev \in Event, ~ev.timed,
         Fifo(p), TimedFirst(p), Across(p, q),
         \A k \in 1 .. Len(p) : Before(p[k], ev),
         \A k \in 1 .. Len(q) : Before(ev, q[k])
  PROVE  /\ Fifo(Append(p, ev)) /\ TimedFirst(Append(p, ev))
         /\ Across(Append(p, ev), q)
<1> DEFINE r == Append(p, ev)
<1>1. /\ Len(p) \in Nat /\ Len(r) = Len(p) + 1 /\ r[Len(p) + 1] = ev
      /\ \A k \in 1 .. Len(p) : r[k] = p[k]
  BY AppendProperties, LenProperties
<1> HIDE DEF r
<1>2. \A k \in 1 .. Len(r) : k \in 1 .. Len(p) \/ k = Len(p) + 1
  BY <1>1
<1>3. ASSUME NEW i \in 1 .. Len(r), NEW j \in 1 .. Len(r), i < j
      PROVE  Before(r[i], r[j]) /\ (r[j].timed => r[i].timed)
  <2>1. i \in 1 .. Len(p) /\ r[i] = p[i]
    BY <1>1, <1>3
  <2>2. CASE j \in 1 .. Len(p)
    BY <1>1, <1>3, <2>1, <2>2 DEF Fifo, TimedFirst
  <2>3. CASE j = Len(p) + 1
    BY <1>1, <2>1, <2>3
  <2> QED
    BY <1>2, <2>2, <2>3
<1>4. ASSUME NEW i \in 1 .. Len(r), NEW j \in 1 .. Len(q) PROVE Before(r[i], q[j])
  <2>1. CASE i \in 1 .. Len(p)
    BY <1>1, <2>1 DEF Across
  <2>2. CASE i = Len(p) + 1
    BY <1>1, <2>2
  <2> QED
    BY <1>2, <2>1, <2>2
<1> QED
  BY <1>3, <1>4 DEF Fifo, TimedFirst, Across, r

\* An event in the timer queue, behind those it must not overtake.
LEMMA InsertOrdered ==
  ASSUME NEW p \in Seq(Event), NEW q \in Seq(Event), NEW ev \in Event, Sorted(q),
         Fifo(q), Across(p, q),
         \A k \in 1 .. Len(p) : Before(p[k], ev),
         \A k \in 1 .. Len(q) : Before(q[k], ev),
         \A k \in 1 .. Len(q) : Earlier(ev, q[k]) => Before(ev, q[k])
  PROVE  Fifo(InsertTimer(q, ev)) /\ Across(p, InsertTimer(q, ev))
<1> DEFINE n == InsertPos(q, ev)
           r == InsertTimer(q, ev)
<1>1. Len(q) \in Nat /\ \A k \in 1 .. Len(q) : q[k] \in Event
  BY LenProperties, ElementOfSeq
<1>2. n \in 1 .. Len(q) + 1 /\ (n <= Len(q) => Earlier(ev, q[n]))
  BY InsertPosFacts
<1>3. /\ r \in Seq(Event) /\ Len(r) = Len(q) + 1
      /\ \A k \in 1 .. Len(q) + 1 :
           r[k] = IF k < n THEN q[k] ELSE IF k = n THEN ev ELSE q[k - 1]
  <2>1. r = InsertAt(q, n, ev)
    BY DEF InsertTimer
  <2> HIDE DEF n, r
  <2>2. /\ InsertAt(q, n, ev) \in Seq(Event)
        /\ Len(InsertAt(q, n, ev)) = Len(q) + 1
        /\ \A k \in 1 .. Len(q) + 1 :
             InsertAt(q, n, ev)[k] = IF k < n THEN q[k]
                                     ELSE IF k = n THEN ev ELSE q[k - 1]
    BY <1>2, InsertAtFacts
  <2> QED
    BY <2>1, <2>2, Zenon
<1> HIDE DEF n, r
<1>4. ASSUME NEW k \in 1 .. Len(q), k >= n PROVE Before(ev, q[k])
  <2>1. n \in 1 .. Len(q) /\ Earlier(ev, q[n])
    BY <1>1, <1>2, <1>4
  <2>2. q[k] \in Event /\ q[n] \in Event
    BY <1>1, <2>1
  <2>3. k = n \/ ~Earlier(q[k], q[n])
    BY <1>1, <1>4, <2>1 DEF Sorted
  <2>4. Earlier(ev, q[k])
    BY SMTT(40), <2>1, <2>2, <2>3 DEF Earlier, Event
  <2> QED
    BY <2>4
<1>5. ASSUME NEW k \in 1 .. Len(r)
      PROVE  \/ k < n /\ k \in 1 .. Len(q) /\ r[k] = q[k]
             \/ k = n /\ r[k] = ev
             \/ k > n /\ k - 1 \in 1 .. Len(q) /\ k - 1 >= n /\ r[k] = q[k - 1]
  BY <1>1, <1>2, <1>3
<1>6. ASSUME NEW i \in 1 .. Len(r), NEW j \in 1 .. Len(r), i < j
      PROVE  Before(r[i], r[j])
  <2>1. CASE i < n /\ i \in 1 .. Len(q) /\ r[i] = q[i]
    <3>1. CASE j < n /\ j \in 1 .. Len(q) /\ r[j] = q[j]
      BY <1>6, <2>1, <3>1 DEF Fifo
    <3>2. CASE j = n /\ r[j] = ev
      BY <2>1, <3>2
    <3>3. CASE j > n /\ j - 1 \in 1 .. Len(q) /\ r[j] = q[j - 1]
      <4>1. i < j - 1
        BY <1>2, <2>1, <3>3
      <4> QED
        BY <2>1, <3>3, <4>1 DEF Fifo
    <3> QED
      BY <1>5, <3>1, <3>2, <3>3
  <2>2. CASE i = n /\ r[i] = ev
    <3>1. j > n /\ j - 1 \in 1 .. Len(q) /\ j - 1 >= n /\ r[j] = q[j - 1]
      BY <1>2, <1>5, <1>6, <2>2
    <3> QED
      BY <1>4, <2>2, <3>1
  <2>3. CASE i > n /\ i - 1 \in 1 .. Len(q) /\ r[i] = q[i - 1]
    <3>1. j > n /\ j - 1 \in 1 .. Len(q) /\ r[j] = q[j - 1] /\ i - 1 < j - 1
      BY <1>2, <1>5, <1>6, <2>3
    <3> QED
      BY <2>3, <3>1 DEF Fifo
  <2> QED
    BY <1>5, <2>1, <2>2, <2>3
<1>7. ASSUME NEW i \in 1 .. Len(p), NEW j \in 1 .. Len(r) PROVE Before(p[i], r[j])
  <2>1. r[j] = ev \/ \E k \in 1 .. Len(q) : r[j] = q[k]
    BY <1>5
  <2> QED
    BY <2>1 DEF Across
<1> QED
  BY <1>6, <1>7 DEF Fifo, Across, r

\* r is the ready part of q, n events of it.
Readied(r, q, n) == /\ Len(r) = n
                    /\ \A k \in 1 .. n : r[k] = [q[k] EXCEPT !.due = 0]

\* The ready events move in front of the untimed queue.
LEMMA MoveOrdered ==
  ASSUME NEW s \in Nat, NEW g, NEW p \in Seq(Queueable(s)), p \in Seq(Untimeds),
         NEW q \in Seq(Timers(s, g)), NEW n \in 0 .. Len(q),
         Fifo(p), Fifo(q), Across(p, q),
         NEW r \in Seq(Event), Readied(r, q, n)
  PROVE  /\ r \o p \in Seq(Queueable(s)) /\ TimedFirst(r \o p) /\ Fifo(r \o p)
         /\ SubSeq(q, n + 1, Len(q)) \in Seq(Timers(s, g))
         /\ Fifo(SubSeq(q, n + 1, Len(q)))
         /\ Across(r \o p, SubSeq(q, n + 1, Len(q)))
<1> DEFINE u == r \o p
           v == SubSeq(q, n + 1, Len(q))
<1>0. Len(r) = n /\ \A k \in 1 .. n : r[k] = [q[k] EXCEPT !.due = 0]
  BY DEF Readied
<1>1. /\ Len(p) \in Nat /\ Len(q) \in Nat
      /\ \A k \in 1 .. Len(p) : p[k] \in Queueable(s) /\ p[k] \in Untimeds
      /\ \A k \in 1 .. Len(q) : q[k] \in Timers(s, g)
  BY LenProperties, ElementOfSeq
<1>2. /\ \A k \in 1 .. Len(p) : p[k] \in Event /\ ~p[k].timed
                                /\ (p[k].imm => p[k].src = Dispatcher)
      /\ \A k \in 1 .. Len(q) : q[k] \in Event /\ q[k].timed /\ q[k].serial <= s
                                /\ (q[k].imm => q[k].src \in BgThreads)
  BY <1>1 DEF Queueable, Untimeds, Timers
<1>3. /\ v \in Seq(Timers(s, g)) /\ Len(v) = Len(q) - n
      /\ \A k \in 1 .. Len(q) - n : v[k] = q[n + k]
  <2>1. \A k \in n + 1 .. Len(q) : q[k] \in Timers(s, g)
    BY <1>1
  <2> QED
    BY <1>1, <2>1, SubSeqProperties
<1>4. ASSUME NEW k \in 1 .. n
      PROVE  /\ k \in 1 .. Len(q) /\ r[k] \in Queueable(s)
             /\ r[k].imm = q[k].imm /\ r[k].src = q[k].src /\ r[k].serial = q[k].serial
             /\ r[k].timed /\ (r[k].imm => r[k].src \in BgThreads)
  <2>1. k \in 1 .. Len(q) /\ q[k] \in Event
    BY <1>1, <1>2
  <2>2. r[k] = [q[k] EXCEPT !.due = 0] /\ r[k] \in Event
    BY <1>0, ElementOfSeq
  <2>3. /\ r[k].imm = q[k].imm /\ r[k].src = q[k].src /\ r[k].serial = q[k].serial
        /\ r[k].timed = q[k].timed
    BY <2>1, <2>2 DEF Event
  <2>4. r[k].timed /\ (r[k].imm => r[k].src \in BgThreads) /\ r[k].serial <= s
    BY <1>2, <2>1, <2>3
  <2> QED
    BY <2>1, <2>2, <2>3, <2>4 DEF Queueable
<1>5. /\ p \in Seq(Event) /\ u \in Seq(Event) /\ Len(u) = n + Len(p)
      /\ \A k \in 1 .. n + Len(p) : u[k] = IF k <= n THEN r[k] ELSE p[k - n]
  <2>1. p \in Seq(Event)
    BY <1>2, SeqWithin
  <2>2. /\ r \o p \in Seq(Event) /\ Len(r \o p) = Len(r) + Len(p)
        /\ \A k \in 1 .. Len(r) + Len(p) :
             (r \o p)[k] = IF k <= Len(r) THEN r[k] ELSE p[k - Len(r)]
    <3>1. ASSUME NEW x \in Seq(Event), NEW y \in Seq(Event)
          PROVE  /\ x \o y \in Seq(Event) /\ Len(x \o y) = Len(x) + Len(y)
                 /\ \A k \in 1 .. Len(x) + Len(y) :
                      (x \o y)[k] = IF k <= Len(x) THEN x[k] ELSE y[k - Len(x)]
      BY ConcatProperties
    <3> QED
      BY <2>1, <3>1, Zenon
  <2> QED
    BY <1>0, <2>1, <2>2
<1> HIDE DEF u, v
<1>6. ASSUME NEW k \in 1 .. Len(u)
      PROVE  \/ k \in 1 .. n /\ u[k] = r[k]
             \/ k > n /\ k - n \in 1 .. Len(p) /\ u[k] = p[k - n]
  BY <1>1, <1>5
<1>7. u \in Seq(Queueable(s))
  <2>1. \A k \in 1 .. Len(u) : u[k] \in Queueable(s)
    BY <1>1, <1>4, <1>6
  <2> QED
    BY <1>5, <2>1, SeqWithin
<1>8. ASSUME NEW i \in 1 .. Len(u), NEW j \in 1 .. Len(u), i < j
      PROVE  Before(u[i], u[j]) /\ (u[j].timed => u[i].timed)
  <2>1. CASE i \in 1 .. n /\ u[i] = r[i] /\ j \in 1 .. n /\ u[j] = r[j]
    <3>1. Before(q[i], q[j])
      BY <1>4, <1>8, <2>1 DEF Fifo
    <3> QED
      BY <1>4, <2>1, <3>1 DEF Before
  <2>2. CASE i \in 1 .. n /\ u[i] = r[i] /\ j - n \in 1 .. Len(p) /\ u[j] = p[j - n]
    BY SMTT(40), <1>2, <1>4, <2>2, EventQueueAssumption DEF Before
  <2>3. CASE /\ i - n \in 1 .. Len(p) /\ u[i] = p[i - n]
             /\ j - n \in 1 .. Len(p) /\ u[j] = p[j - n]
    <3>1. i - n < j - n
      BY <1>1, <1>8
    <3> QED
      BY <1>2, <2>3, <3>1 DEF Fifo
  <2>4. ~(i > n /\ j \in 1 .. n)
    BY <1>1, <1>8
  <2> QED
    BY <1>6, <2>1, <2>2, <2>3, <2>4
<1>9. Fifo(v)
  <2> SUFFICES ASSUME NEW i \in 1 .. Len(v), NEW j \in 1 .. Len(v), i < j
               PROVE  Before(v[i], v[j])
    BY DEF Fifo
  <2>1. n + i \in 1 .. Len(q) /\ n + j \in 1 .. Len(q) /\ n + i < n + j
    BY <1>1, <1>3
  <2>2. v[i] = q[n + i] /\ v[j] = q[n + j]
    BY <1>3
  <2> QED
    BY <2>1, <2>2 DEF Fifo
<1>10. Across(u, v)
  <2> SUFFICES ASSUME NEW i \in 1 .. Len(u), NEW j \in 1 .. Len(v)
               PROVE  Before(u[i], v[j])
    BY DEF Across
  <2>1. n + j \in 1 .. Len(q) /\ v[j] = q[n + j]
    BY SMTT(40), <1>1, <1>3
  <2>2. CASE i \in 1 .. n /\ u[i] = r[i]
    <3>1. i < n + j /\ i \in 1 .. Len(q)
      BY SMTT(40), <1>1, <1>3, <2>2
    <3>2. Before(q[i], q[n + j])
      BY <2>1, <3>1 DEF Fifo
    <3> QED
      BY <1>4, <2>1, <2>2, <3>2 DEF Before
  <2>3. CASE i - n \in 1 .. Len(p) /\ u[i] = p[i - n]
    BY <2>1, <2>3 DEF Across
  <2> QED
    BY <1>6, <2>2, <2>3
<1> QED
  BY <1>3, <1>7, <1>8, <1>9, <1>10 DEF Fifo, TimedFirst, u, v

\* The threads in h read their clocks no earlier than those in g.
Later(g, h) ==
  \A b \in BgThreads :
    h[b].pc = "posting" /\ h[b].imm =>
      \/ h[b].due >= 0
      \/ g[b].pc = "posting" /\ g[b].imm /\ h[b].due >= g[b].due

\* More posts and later readings keep what is in the queues.
LEMMA QueueableGrows ==
  ASSUME NEW s \in Nat, NEW t \in Nat, s <= t
  PROVE  Queueable(s) \subseteq Queueable(t)
BY DEF Queueable, Event

\* The timers of later posts include those of earlier ones.
LEMMA TimersGrow ==
  ASSUME NEW s \in Nat, NEW t \in Nat, s <= t,
         NEW g \in [BgThreads -> BgState], NEW h \in [BgThreads -> BgState], Later(g, h)
  PROVE  Timers(s, g) \subseteq Timers(t, h)
<1> SUFFICES ASSUME NEW e \in Timers(s, g) PROVE e \in Timers(t, h)
  OBVIOUS
<1>1. e \in Queueable(t) /\ e.timed
  BY QueueableGrows DEF Timers
<1>2. ASSUME e.imm
      PROVE  e.due <= 0 /\ (h[e.src].pc = "posting" /\ h[e.src].imm => e.due <= h[e.src].due)
  <2>1. e.src \in BgThreads /\ e.due \in Int
    BY <1>1, <1>2 DEF Queueable, Event
  <2>2. g[e.src].due \in Int /\ h[e.src].due \in Int
    BY <2>1 DEF BgState
  <2>3. e.due <= 0 /\ (g[e.src].pc = "posting" /\ g[e.src].imm => e.due <= g[e.src].due)
    BY <1>2 DEF Timers
  <2> QED
    BY <2>1, <2>2, <2>3 DEF Later
<1> QED
  BY <1>1, <1>2 DEF Timers

\* A queue stays in order as posts are counted and clocks are read.
LEMMA QueuesGrow ==
  ASSUME NEW s \in Nat, NEW t \in Nat, s <= t,
         NEW g \in [BgThreads -> BgState], NEW h \in [BgThreads -> BgState], Later(g, h),
         NEW p \in Seq(Queueable(s)), NEW q \in Seq(Timers(s, g))
  PROVE  p \in Seq(Queueable(t)) /\ q \in Seq(Timers(t, h))
<1>1. Queueable(s) \subseteq Queueable(t) /\ Timers(s, g) \subseteq Timers(t, h)
  BY QueueableGrows, TimersGrow
<1>2. /\ \A k \in 1 .. Len(p) : p[k] \in Queueable(t)
      /\ \A k \in 1 .. Len(q) : q[k] \in Timers(t, h)
  BY <1>1, ElementOfSeq
<1> QED
  BY <1>2, SeqWithin

-----------------------------------------------------------------------------
(* One lemma per group of actions: the order.                              *)

\* The facts that each of the lemmas below starts from.
LEMMA FInvFacts ==
  ASSUME IInv, FInv, exit_event
  PROVE  /\ event_queue \in Seq(Event) /\ timer_queue \in Seq(Event)
         /\ Sorted(timer_queue) /\ TypeOK /\ serial \in Nat
         /\ bg \in [BgThreads -> BgState] /\ event_cnt \in Nat
         /\ serial <= NextSerial /\ NextSerial \in Nat
         /\ (MaxSerial = 0 => NextSerial = 0)
         /\ Counted /\ Ordered /\ ClockRead(bg)
  BY EventQueueAssumption DEF IInv, TypeOK, FInv, NextSerial

\* Every state of the threads is as late as itself.
LEMMA LaterSame ==
  ASSUME NEW g \in [BgThreads -> BgState]
  PROVE  Later(g, g)
BY DEF Later, BgState

\* A step of a background thread before its post.
LEMMA BgKeepsFInv ==
  ASSUME IInv, IInv', FInv, NEW b \in BgThreads,
         \/ BgPostCancelled(b)
         \/ \E cb \in Callbacks : BgStart(b, cb)
         \/ \E d \in Delays \cup {0} : BgReadClock(b, d)
  PROVE  FInv'
<1>1. exit_event' = exit_event
  BY DEF BgPostCancelled, BgStart, BgReadClock
<1>2. SUFFICES ASSUME exit_event PROVE FInv'
  BY <1>1 DEF FInv
<1>3. /\ event_queue \in Seq(Event) /\ timer_queue \in Seq(Event) /\ serial \in Nat
      /\ bg \in [BgThreads -> BgState] /\ bg' \in [BgThreads -> BgState]
      /\ Counted /\ Ordered /\ ClockRead(bg) /\ (MaxSerial = 0 => serial = 0)
  BY <1>2, FInvFacts DEF IInv, TypeOK, FInv
<1>4. /\ event_queue' = event_queue /\ timer_queue' = timer_queue /\ serial' = serial
      /\ disp' = disp /\ event_cnt' = event_cnt
  BY DEF BgPostCancelled, BgStart, BgReadClock, queues, loop, ghosts
<1>5. /\ \A c \in BgThreads : c # b => bg'[c] = bg[c]
      /\ bg'[b].pc = "posting" /\ bg'[b].imm => bg'[b].due = 0
  <2>1. CASE BgPostCancelled(b)
    BY <1>3, <2>1 DEF BgPostCancelled, IdleBg
  <2>2. ASSUME NEW cb \in Callbacks, BgStart(b, cb)
        PROVE  (\A c \in BgThreads : c # b => bg'[c] = bg[c]) /\ bg'[b].pc # "posting"
    BY <1>3, <2>2 DEF BgStart, BgState
  <2>3. ASSUME NEW d \in Delays \cup {0}, BgReadClock(b, d)
        PROVE  /\ \A c \in BgThreads : c # b => bg'[c] = bg[c]
               /\ bg'[b].imm => bg'[b].due = 0
    <3> DEFINE imm == (d = 0)
    <3>1. imm \in BOOLEAN /\ (imm => d = 0)
      OBVIOUS
    <3>2. bg' = [bg EXCEPT ![b] = [bg[b] EXCEPT !.pc = "posting", !.due = d, !.imm = imm]]
      BY <2>3 DEF BgReadClock
    <3> HIDE DEF imm
    <3>3. bg'[b].imm = imm /\ bg'[b].due = d
      BY <1>3, <3>2 DEF BgState
    <3> QED
      BY <1>3, <3>1, <3>2, <3>3
  <2> QED
    BY <2>1, <2>2, <2>3
<1>6. Later(bg, bg') /\ ClockRead(bg')
  <2>1. \A c \in BgThreads : bg[c].due \in Int
    BY <1>3 DEF BgState
  <2> QED
    BY <1>3, <1>5, <2>1 DEF Later, ClockRead
<1>7. timer_queue \in Seq(Timers(serial, bg'))
  <2> DEFINE h == bg'
  <2>1. h \in [BgThreads -> BgState] /\ Later(bg, h) /\ serial <= serial
    BY <1>3, <1>6
  <2> HIDE DEF h
  <2>2. timer_queue \in Seq(Timers(serial, h))
    BY <1>3, <2>1, QueuesGrow DEF Ordered
  <2> QED
    BY <2>2 DEF h
<1>8. Ordered' /\ Counted'
  BY <1>3, <1>4, <1>7 DEF Ordered, Counted
<1> QED
  BY <1>3, <1>4, <1>6, <1>8 DEF FInv

\* post_from_bg_thread under the lock.
LEMMA BgPostKeepsFInv ==
  ASSUME IInv, IInv', FInv, NEW b \in BgThreads, BgPost(b)
  PROVE  FInv'
<1>1. exit_event' = exit_event
  BY DEF BgPost
<1>2. SUFFICES ASSUME exit_event PROVE FInv'
  BY <1>1 DEF FInv
<1>3. /\ event_queue \in Seq(Event) /\ timer_queue \in Seq(Event) /\ Sorted(timer_queue)
      /\ TypeOK /\ serial \in Nat
      /\ bg \in [BgThreads -> BgState] /\ bg' \in [BgThreads -> BgState]
      /\ serial <= NextSerial /\ NextSerial \in Nat /\ (MaxSerial = 0 => NextSerial = 0)
      /\ Counted /\ Ordered /\ ClockRead(bg)
  BY <1>2, FInvFacts DEF IInv, TypeOK
<1>4. PICK n \in Nodes :
        timer_queue' = InsertTimer(timer_queue,
                         NewEvent(n, bg[b].cb, TRUE, bg[b].due, bg[b].imm, b))
  BY DEF BgPost
<1> DEFINE ev == NewEvent(n, bg[b].cb, TRUE, bg[b].due, bg[b].imm, b)
<1>5. /\ ev.timed /\ ev.due = bg[b].due /\ ev.imm = bg[b].imm /\ ev.src = b
      /\ ev.serial = NextSerial
  BY DEF NewEvent
<1>6. ev \in Event
  <2>1. bg[b].cb \in AllCallbacks /\ bg[b].due \in Int /\ bg[b].imm \in BOOLEAN
    BY <1>3 DEF BgState
  <2>2. b \in Threads /\ TRUE \in BOOLEAN
    BY DEF Threads
  <2> QED
    BY <1>3, <2>1, <2>2, NewEventType
<1>7. /\ timer_queue' = InsertTimer(timer_queue, ev) /\ event_queue' = event_queue
      /\ serial' = NextSerial /\ disp' = disp /\ event_cnt' = event_cnt
      /\ bg[b].pc = "posting" /\ bg' = [bg EXCEPT ![b] = IdleBg]
  BY <1>4 DEF BgPost, CountPost, loop
<1> HIDE DEF ev
<1>8. Later(bg, bg') /\ ClockRead(bg') /\ bg'[b].pc = "idle"
  <2>1. \A c \in BgThreads : bg[c].due \in Int
    BY <1>3 DEF BgState
  <2>2. \A c \in BgThreads : bg'[c] = IF c = b THEN IdleBg ELSE bg[c]
    BY <1>3, <1>7
  <2> QED
    BY <1>3, <2>1, <2>2 DEF Later, ClockRead, IdleBg
<1>9. /\ event_queue \in Seq(Queueable(NextSerial))
      /\ timer_queue \in Seq(Timers(NextSerial, bg'))
  <2> DEFINE h == bg'
             t == NextSerial
  <2>1. h \in [BgThreads -> BgState] /\ Later(bg, h) /\ t \in Nat /\ serial <= t
    BY <1>3, <1>8
  <2> HIDE DEF h, t
  <2>2. event_queue \in Seq(Queueable(t)) /\ timer_queue \in Seq(Timers(t, h))
    BY <1>3, <2>1, QueuesGrow DEF Ordered
  <2> QED
    BY <2>2 DEF h, t
<1>10. ev \in Timers(NextSerial, bg')
  <2>1. ev \in Queueable(NextSerial)
    BY <1>3, <1>5, <1>6 DEF Queueable
  <2>2. ev.imm => ev.due <= 0
    BY <1>3, <1>5, <1>7 DEF ClockRead
  <2> QED
    BY <1>5, <1>8, <2>1, <2>2 DEF Timers
<1>11. timer_queue' \in Seq(Timers(NextSerial, bg'))
  <2> DEFINE S == Timers(NextSerial, bg')
             k == InsertPos(timer_queue, ev)
  <2>1. k \in 1 .. Len(timer_queue) + 1 /\ timer_queue' = InsertAt(timer_queue, k, ev)
    BY <1>3, <1>6, <1>7, InsertPosFacts DEF InsertTimer
  <2>2. timer_queue \in Seq(S) /\ ev \in S
    BY <1>9, <1>10
  <2> HIDE DEF S, k
  <2>3. InsertAt(timer_queue, k, ev) \in Seq(S)
    BY <2>1, <2>2, InsertAtFacts
  <2> QED
    BY <2>1, <2>3 DEF S
<1>12. \A k \in 1 .. Len(event_queue) : Before(event_queue[k], ev)
  <2>1. \A k \in 1 .. Len(event_queue) : event_queue[k] \in Queueable(NextSerial)
    BY <1>9, ElementOfSeq
  <2> QED
    BY <1>5, <2>1 DEF Before, Queueable
<1>13. ASSUME NEW k \in 1 .. Len(timer_queue)
       PROVE  /\ Before(timer_queue[k], ev)
              /\ Earlier(ev, timer_queue[k]) => Before(ev, timer_queue[k])
  <2>1. timer_queue[k] \in Timers(serial, bg) /\ timer_queue[k] \in Timers(NextSerial, bg')
    BY <1>3, <1>9, ElementOfSeq DEF Ordered
  <2>2. Before(timer_queue[k], ev)
    BY <1>5, <2>1 DEF Before, Queueable, Timers
  <2>3. ASSUME timer_queue[k].imm, ev.imm, timer_queue[k].src = ev.src
        PROVE  ~Earlier(ev, timer_queue[k])
    <3>1. timer_queue[k].due <= bg[b].due /\ timer_queue[k] \in Event
      BY <1>5, <1>7, <2>1, <2>3 DEF Timers, Queueable
    <3>2. timer_queue[k].due \in Int /\ bg[b].due \in Int
      BY <1>3, <3>1 DEF Event, BgState
    <3> QED
      BY <1>5, <3>1, <3>2 DEF Earlier
  <2> QED
    BY <2>2, <2>3 DEF Before
<1>14. Fifo(timer_queue') /\ Across(event_queue, timer_queue')
  <2>1. Fifo(InsertTimer(timer_queue, ev)) /\ Across(event_queue, InsertTimer(timer_queue, ev))
    BY <1>3, <1>6, <1>12, <1>13, InsertOrdered DEF Ordered
  <2> QED
    BY <1>7, <2>1
<1>15. Ordered' /\ Counted'
  BY <1>3, <1>7, <1>9, <1>11, <1>14 DEF Ordered, Counted
<1> QED
  BY <1>3, <1>7, <1>8, <1>15 DEF FInv

\* post_event on the dispatch thread.
LEMMA PostEventKeepsFInv ==
  ASSUME IInv, FInv, NEW cb \in Callbacks, PostEvent(cb)
  PROVE  FInv'
<1>1. exit_event' = exit_event
  BY DEF PostEvent
<1>2. SUFFICES ASSUME exit_event PROVE FInv'
  BY <1>1 DEF FInv
<1>3. /\ event_queue \in Seq(Event) /\ timer_queue \in Seq(Event)
      /\ TypeOK /\ serial \in Nat /\ bg \in [BgThreads -> BgState]
      /\ serial <= NextSerial /\ NextSerial \in Nat /\ (MaxSerial = 0 => NextSerial = 0)
      /\ Counted /\ Ordered /\ ClockRead(bg)
  BY <1>2, FInvFacts
<1>4. PICK n \in Nodes :
        event_queue' = Append(event_queue, NewEvent(n, cb, FALSE, 0, TRUE, Dispatcher))
  BY DEF PostEvent
<1> DEFINE ev == NewEvent(n, cb, FALSE, 0, TRUE, Dispatcher)
<1>5. ~ev.timed /\ ev.imm /\ ev.src = Dispatcher /\ ev.serial = NextSerial
  BY DEF NewEvent
<1>6. ev \in Event
  <2>1. /\ cb \in AllCallbacks /\ Dispatcher \in Threads /\ 0 \in Int
        /\ TRUE \in BOOLEAN /\ FALSE \in BOOLEAN
    BY DEF AllCallbacks, Threads
  <2> QED
    BY <1>3, <2>1, NewEventType
<1>7. /\ event_queue' = Append(event_queue, ev) /\ timer_queue' = timer_queue
      /\ serial' = NextSerial /\ disp' = "handler" /\ event_cnt' = event_cnt /\ bg' = bg
  BY <1>4 DEF PostEvent, CountPost, InHandler, loop
<1> HIDE DEF ev
<1>8. /\ event_queue \in Seq(Queueable(NextSerial))
      /\ timer_queue \in Seq(Timers(NextSerial, bg))
  <2> DEFINE t == NextSerial
  <2>1. t \in Nat /\ serial <= t /\ Later(bg, bg)
    BY <1>3, LaterSame
  <2> HIDE DEF t
  <2>2. event_queue \in Seq(Queueable(t)) /\ timer_queue \in Seq(Timers(t, bg))
    BY <1>3, <2>1, QueuesGrow DEF Ordered
  <2> QED
    BY <2>2 DEF t
<1>9. ev \in Queueable(NextSerial) /\ ev \in Untimeds
  BY <1>3, <1>5, <1>6 DEF Queueable, Untimeds
<1>10. event_queue' \in Seq(Queueable(NextSerial))
  BY <1>7, <1>8, <1>9, AppendProperties
<1>11. event_queue \in Seq(Untimeds) => event_queue' \in Seq(Untimeds)
  BY <1>7, <1>9, AppendProperties
<1>12. \A k \in 1 .. Len(event_queue) : Before(event_queue[k], ev)
  <2>1. \A k \in 1 .. Len(event_queue) : event_queue[k] \in Queueable(NextSerial)
    BY <1>8, ElementOfSeq
  <2> QED
    BY <1>5, <2>1 DEF Before, Queueable
<1>13. \A k \in 1 .. Len(timer_queue) : Before(ev, timer_queue[k])
  <2>1. \A k \in 1 .. Len(timer_queue) : timer_queue[k] \in Timers(NextSerial, bg)
    BY <1>8, ElementOfSeq
  <2> QED
    BY <1>5, <2>1, EventQueueAssumption DEF Before, Timers, Queueable
<1>14. Fifo(event_queue') /\ TimedFirst(event_queue') /\ Across(event_queue', timer_queue)
  <2>1. /\ Fifo(Append(event_queue, ev)) /\ TimedFirst(Append(event_queue, ev))
        /\ Across(Append(event_queue, ev), timer_queue)
    BY <1>3, <1>5, <1>6, <1>12, <1>13, AppendOrdered DEF Ordered
  <2> QED
    BY <1>7, <2>1
<1>15. Ordered' /\ Counted'
  BY <1>3, <1>7, <1>8, <1>10, <1>11, <1>14 DEF Ordered, Counted
<1> QED
  BY <1>3, <1>7, <1>15 DEF FInv

\* post_event_with_delay on the dispatch thread.
LEMMA PostEventWithDelayKeepsFInv ==
  ASSUME IInv, FInv, NEW cb \in Callbacks, NEW d \in Delays, PostEventWithDelay(cb, d)
  PROVE  FInv'
<1>1. exit_event' = exit_event
  BY DEF PostEventWithDelay
<1>2. SUFFICES ASSUME exit_event PROVE FInv'
  BY <1>1 DEF FInv
<1>3. /\ event_queue \in Seq(Event) /\ timer_queue \in Seq(Event) /\ Sorted(timer_queue)
      /\ TypeOK /\ serial \in Nat /\ bg \in [BgThreads -> BgState]
      /\ serial <= NextSerial /\ NextSerial \in Nat /\ (MaxSerial = 0 => NextSerial = 0)
      /\ Counted /\ Ordered /\ ClockRead(bg)
  BY <1>2, FInvFacts
<1>4. PICK n \in Nodes :
        timer_queue' = InsertTimer(timer_queue, NewEvent(n, cb, TRUE, d, FALSE, Dispatcher))
  BY DEF PostEventWithDelay
<1> DEFINE ev == NewEvent(n, cb, TRUE, d, FALSE, Dispatcher)
<1>5. ev.timed /\ ~ev.imm /\ ev.serial = NextSerial
  BY DEF NewEvent
<1>6. ev \in Event
  <2>1. /\ cb \in AllCallbacks /\ Dispatcher \in Threads /\ d \in Int
        /\ TRUE \in BOOLEAN /\ FALSE \in BOOLEAN
    BY EventQueueAssumption DEF AllCallbacks, Threads
  <2> QED
    BY <1>3, <2>1, NewEventType
<1>7. /\ timer_queue' = InsertTimer(timer_queue, ev) /\ event_queue' = event_queue
      /\ serial' = NextSerial /\ disp' = disp /\ event_cnt' = event_cnt /\ bg' = bg
  BY <1>4 DEF PostEventWithDelay, CountPost, loop
<1> HIDE DEF ev
<1>8. /\ event_queue \in Seq(Queueable(NextSerial))
      /\ timer_queue \in Seq(Timers(NextSerial, bg))
  <2> DEFINE t == NextSerial
  <2>1. t \in Nat /\ serial <= t /\ Later(bg, bg)
    BY <1>3, LaterSame
  <2> HIDE DEF t
  <2>2. event_queue \in Seq(Queueable(t)) /\ timer_queue \in Seq(Timers(t, bg))
    BY <1>3, <2>1, QueuesGrow DEF Ordered
  <2> QED
    BY <2>2 DEF t
<1>9. ev \in Timers(NextSerial, bg)
  BY <1>3, <1>5, <1>6 DEF Queueable, Timers
<1>10. timer_queue' \in Seq(Timers(NextSerial, bg))
  <2> DEFINE S == Timers(NextSerial, bg)
             k == InsertPos(timer_queue, ev)
  <2>1. k \in 1 .. Len(timer_queue) + 1 /\ timer_queue' = InsertAt(timer_queue, k, ev)
    BY <1>3, <1>6, <1>7, InsertPosFacts DEF InsertTimer
  <2>2. timer_queue \in Seq(S) /\ ev \in S
    BY <1>8, <1>9
  <2> HIDE DEF S, k
  <2>3. InsertAt(timer_queue, k, ev) \in Seq(S)
    BY <2>1, <2>2, InsertAtFacts
  <2> QED
    BY <2>1, <2>3 DEF S
<1>11. /\ \A k \in 1 .. Len(event_queue) : Before(event_queue[k], ev)
       /\ \A k \in 1 .. Len(timer_queue) : Before(timer_queue[k], ev) /\ Before(ev, timer_queue[k])
  BY <1>5 DEF Before
<1>12. Fifo(timer_queue') /\ Across(event_queue, timer_queue')
  <2>1. Fifo(InsertTimer(timer_queue, ev)) /\ Across(event_queue, InsertTimer(timer_queue, ev))
    BY <1>3, <1>6, <1>11, InsertOrdered DEF Ordered
  <2> QED
    BY <1>7, <2>1
<1>13. Ordered' /\ Counted'
  BY <1>3, <1>7, <1>8, <1>10, <1>12 DEF Ordered, Counted
<1> QED
  BY <1>3, <1>7, <1>13 DEF FInv

\* An event leaves a queue: cancel_event, or its dispatch.
LEMMA TakenKeepsFInv ==
  ASSUME IInv, FInv, exit_event,
         event_queue' \in Seq(Event), timer_queue' \in Seq(Event),
         \/ Picks(event_queue', event_queue) /\ timer_queue' = timer_queue
         \/ Picks(timer_queue', timer_queue) /\ event_queue' = event_queue,
         serial' = serial, bg' = bg, disp' = "handler",
         event_cnt' >= 1 => event_queue' \in Seq(Untimeds)
  PROVE  FInv'
<1>1. /\ event_queue \in Seq(Event) /\ timer_queue \in Seq(Event)
      /\ Counted /\ Ordered /\ ClockRead(bg) /\ (MaxSerial = 0 => serial = 0)
  BY FInvFacts DEF FInv
<1> DEFINE p == event_queue'
           q == timer_queue'
<1>2. p \in Seq(Event) /\ q \in Seq(Event)
  OBVIOUS
<1>3. /\ p \in Seq(Queueable(serial)) /\ q \in Seq(Timers(serial, bg))
      /\ TimedFirst(p) /\ Fifo(p) /\ Fifo(q) /\ Across(p, q)
  <2>1. CASE Picks(p, event_queue) /\ q = timer_queue
    <3> HIDE DEF p, q
    <3>1. /\ Fifo(event_queue) => Fifo(p)
          /\ TimedFirst(event_queue) => TimedFirst(p)
          /\ Across(event_queue, timer_queue) => Across(p, timer_queue)
          /\ \A S : event_queue \in Seq(S) => p \in Seq(S)
      BY <1>1, <1>2, <2>1, PicksKeep
    <3> QED
      BY <1>1, <2>1, <3>1 DEF Ordered
  <2>2. CASE Picks(q, timer_queue) /\ p = event_queue
    <3> HIDE DEF p, q
    <3>1. /\ Fifo(timer_queue) => Fifo(q)
          /\ Across(event_queue, timer_queue) => Across(event_queue, q)
          /\ \A S : timer_queue \in Seq(S) => q \in Seq(S)
      BY <1>1, <1>2, <2>2, PicksKeep
    <3> QED
      BY <1>1, <2>2, <3>1 DEF Ordered
  <2> QED
    BY <2>1, <2>2
<1>4. Ordered' /\ Counted'
  BY <1>3 DEF Ordered, Counted
<1> QED
  BY <1>1, <1>4 DEF FInv

\* run_event_loop, the dispatch of an event.
LEMMA DispatchKeepsFInv ==
  ASSUME IInv, FInv, Dispatch
  PROVE  FInv'
<1>1. exit_event' = exit_event
  BY DEF Dispatch
<1>2. SUFFICES ASSUME exit_event PROVE FInv'
  BY <1>1 DEF FInv
<1>3. /\ event_queue \in Seq(Event) /\ timer_queue \in Seq(Event) /\ event_cnt \in Nat
      /\ Counted /\ Ordered
  BY <1>2, FInvFacts
<1>4. event_queue # <<>>
  BY DEF IInv, Dispatch, DispatchHasWork, MustCollect
<1>5. /\ event_queue' = Tail(event_queue) /\ timer_queue' = timer_queue
      /\ event_cnt' = CountUntimed(Head(event_queue)) /\ disp' = "handler"
      /\ serial' = serial /\ bg' = bg
  BY DEF Dispatch, CountTaken
<1>6. event_queue' \in Seq(Event) /\ Picks(event_queue', event_queue)
  BY <1>3, <1>4, <1>5, TailPicks
<1>7. event_cnt' >= 1 => event_queue' \in Seq(Untimeds)
  <2>1. CASE event_cnt >= 1
    <3>1. event_queue \in Seq(Untimeds)
      BY <1>3, <2>1 DEF Counted
    <3> QED
      BY <1>4, <1>5, <3>1, HeadTailProperties
  <2>2. CASE ~(event_cnt >= 1) /\ event_cnt' >= 1
    <3>1. ~Head(event_queue).timed
      BY <1>3, <1>5, <2>2 DEF CountUntimed
    <3>2. /\ Len(event_queue) \in Nat /\ Len(event_queue) > 0
          /\ Head(event_queue) = event_queue[1]
          /\ Len(event_queue') = Len(event_queue) - 1
          /\ \A k \in 1 .. Len(event_queue') : event_queue'[k] = event_queue[k + 1]
      BY <1>3, <1>4, <1>5, HeadTailProperties, LenProperties, EmptySeq
    <3>3. ASSUME NEW k \in 1 .. Len(event_queue') PROVE event_queue'[k] \in Untimeds
      <4>1. k + 1 \in 1 .. Len(event_queue) /\ 1 \in 1 .. Len(event_queue) /\ 1 < k + 1
        BY <3>2
      <4>2. ~event_queue[k + 1].timed
        BY <1>3, <3>1, <3>2, <4>1 DEF Ordered, TimedFirst
      <4>3. event_queue[k + 1] \in Event
        BY <1>3, <4>1, ElementOfSeq
      <4> QED
        BY <3>2, <4>2, <4>3 DEF Untimeds
    <3> DEFINE p == event_queue'
    <3>4. p \in Seq(Event) /\ \A k \in 1 .. Len(p) : p[k] \in Untimeds
      BY <1>6, <3>3
    <3> HIDE DEF p
    <3>5. p \in Seq(Untimeds)
      BY <3>4, SeqWithin
    <3> QED
      BY <3>5 DEF p
  <2> QED
    BY <2>1, <2>2
<1> QED
  BY <1>2, <1>3, <1>5, <1>6, <1>7, TakenKeepsFInv

\* cancel_event, when it finds the event in one of the queues.
LEMMA CancelsKeepFInv ==
  ASSUME IInv, FInv, NEW cb \in Callbacks, CancelQueued(cb) \/ CancelTimer(cb)
  PROVE  FInv'
<1>1. exit_event' = exit_event
  BY DEF CancelQueued, CancelTimer
<1>2. SUFFICES ASSUME exit_event PROVE FInv'
  BY <1>1 DEF FInv
<1>3. /\ event_queue \in Seq(Event) /\ timer_queue \in Seq(Event) /\ Counted
      /\ DOMAIN event_queue = 1 .. Len(event_queue) /\ Len(event_queue) \in Nat
      /\ DOMAIN timer_queue = 1 .. Len(timer_queue) /\ Len(timer_queue) \in Nat
  BY <1>2, FInvFacts, LenProperties
<1>4. disp' = "handler" /\ event_cnt' = event_cnt /\ serial' = serial /\ bg' = bg
  BY DEF CancelQueued, CancelTimer, InHandler, CountTaken, loop
<1>5. CASE CancelQueued(cb)
  <2> DEFINE S == Matches(event_queue, cb)
             k == Min(S)
  <2>1. S # {} /\ S \subseteq Nat /\ S \subseteq 1 .. Len(event_queue)
    BY <1>3, <1>5 DEF CancelQueued, Matches
  <2>2. k \in S
    <3> HIDE DEF S
    <3> QED
      BY <2>1, MinNat
  <2>3. /\ k \in 1 .. Len(event_queue)
        /\ event_queue' = RemoveAt(event_queue, k) /\ timer_queue' = timer_queue
    BY <1>5, <2>1, <2>2 DEF CancelQueued
  <2> HIDE DEF k, S
  <2>4. event_queue' \in Seq(Event) /\ Picks(event_queue', event_queue)
    BY <1>3, <2>3, RemovePicks
  <2>5. event_cnt' >= 1 => event_queue' \in Seq(Untimeds)
    BY <1>3, <1>4, <2>3, RemoveAtFacts DEF Counted
  <2> QED
    BY <1>2, <1>3, <1>4, <2>3, <2>4, <2>5, TakenKeepsFInv
<1>6. CASE CancelTimer(cb)
  <2> DEFINE S == Matches(timer_queue, cb)
             k == Min(S)
  <2>1. S # {} /\ S \subseteq Nat /\ S \subseteq 1 .. Len(timer_queue)
    BY <1>3, <1>6 DEF CancelTimer, Matches
  <2>2. k \in S
    <3> HIDE DEF S
    <3> QED
      BY <2>1, MinNat
  <2>3. /\ k \in 1 .. Len(timer_queue)
        /\ timer_queue' = RemoveAt(timer_queue, k) /\ event_queue' = event_queue
    BY <1>6, <2>1, <2>2 DEF CancelTimer
  <2> HIDE DEF k, S
  <2>4. timer_queue' \in Seq(Event) /\ Picks(timer_queue', timer_queue)
    BY <1>3, <2>3, RemovePicks
  <2>5. event_cnt' >= 1 => event_queue' \in Seq(Untimeds)
    BY <1>3, <1>4, <2>3 DEF Counted
  <2> QED
    BY <1>2, <1>3, <1>4, <2>3, <2>4, <2>5, TakenKeepsFInv
<1> QED
  BY <1>5, <1>6

\* A step that leaves the queues, the count and the threads alone, and does
\* not put the dispatch thread to sleep.
LEMMA StillFInv ==
  ASSUME IInv, FInv, UNCHANGED <<queues, event_cnt, serial, bg, exit_event>>,
         disp' = disp \/ disp' # "wait"
  PROVE  FInv'
<1>1. /\ event_queue' = event_queue /\ timer_queue' = timer_queue /\ event_cnt' = event_cnt
      /\ serial' = serial /\ bg' = bg /\ exit_event' = exit_event
  BY DEF queues
<1>2. Counted => Counted'
  BY <1>1 DEF Counted
<1>3. Ordered => Ordered'
  BY <1>1 DEF Ordered
<1> QED
  BY <1>1, <1>2, <1>3 DEF FInv

\* exit_event_handler goes round once more.
LEMMA RepostKeepsFInv ==
  ASSUME IInv, FInv, ExitEventHandlerReposts
  PROVE  FInv'
<1>1. exit_event' = exit_event
  BY DEF ExitEventHandlerReposts
<1>2. SUFFICES ASSUME exit_event PROVE FInv'
  BY <1>1 DEF FInv
<1>3. /\ event_queue \in Seq(Event) /\ timer_queue \in Seq(Event)
      /\ TypeOK /\ serial \in Nat /\ (MaxSerial = 0 => serial = 0)
      /\ Counted /\ Ordered /\ ClockRead(bg)
  BY <1>2, FInvFacts DEF FInv
<1>4. PICK n \in Nodes :
        event_queue' = Append(event_queue,
          [node |-> n, cb |-> ExitHandler, timed |-> FALSE, due |-> 0,
           imm |-> FALSE, src |-> Dispatcher, serial |-> serial])
  BY DEF ExitEventHandlerReposts
<1> DEFINE ev == [node |-> n, cb |-> ExitHandler, timed |-> FALSE, due |-> 0,
                  imm |-> FALSE, src |-> Dispatcher, serial |-> serial]
<1>5. ev \in Event /\ ~ev.timed /\ ~ev.imm /\ ev.serial = serial
  BY <1>3 DEF TypeOK, Event, AllCallbacks, Threads
<1>6. /\ event_queue' = Append(event_queue, ev) /\ timer_queue' = timer_queue
      /\ serial' = serial /\ disp' # "wait" /\ event_cnt' = event_cnt /\ bg' = bg
  BY <1>4 DEF ExitEventHandlerReposts
<1> HIDE DEF ev
<1>7. ev \in Queueable(serial) /\ ev \in Untimeds
  BY <1>3, <1>5 DEF Queueable, Untimeds
<1>8. event_queue' \in Seq(Queueable(serial))
  BY <1>3, <1>6, <1>7, AppendProperties DEF Ordered
<1>9. event_queue \in Seq(Untimeds) => event_queue' \in Seq(Untimeds)
  BY <1>6, <1>7, AppendProperties
<1>10. /\ \A k \in 1 .. Len(event_queue) : Before(event_queue[k], ev)
       /\ \A k \in 1 .. Len(timer_queue) : Before(ev, timer_queue[k])
  BY <1>5 DEF Before
<1>11. Fifo(event_queue') /\ TimedFirst(event_queue') /\ Across(event_queue', timer_queue)
  <2>1. /\ Fifo(Append(event_queue, ev)) /\ TimedFirst(Append(event_queue, ev))
        /\ Across(Append(event_queue, ev), timer_queue)
    BY <1>3, <1>5, <1>10, AppendOrdered DEF Ordered
  <2> QED
    BY <1>6, <2>1
<1>12. Ordered' /\ Counted'
  BY <1>3, <1>6, <1>8, <1>9, <1>11 DEF Ordered, Counted
<1> QED
  BY <1>3, <1>6, <1>12 DEF FInv

\* The loop looks at timer_queue: it finds no collected timer in event_queue.
LEMMA CollectKeepsFInv ==
  ASSUME IInv, FInv, Collect \/ WakeUp
  PROVE  FInv'
<1>1. exit_event' = exit_event
  BY DEF Collect, WakeUp
<1>2. SUFFICES ASSUME exit_event PROVE FInv'
  BY <1>1 DEF FInv
<1>3. /\ event_queue \in Seq(Event) /\ timer_queue \in Seq(Event) /\ serial \in Nat
      /\ event_cnt \in Nat /\ Len(timer_queue) \in Nat
      /\ Counted /\ Ordered /\ ClockRead(bg) /\ (MaxSerial = 0 => serial = 0)
  BY <1>2, FInvFacts, LenProperties DEF FInv
<1>4. LookAtTimers /\ serial' = serial /\ bg' = bg
  BY DEF Collect, WakeUp, ghosts
<1>5. event_cnt' = 0
  BY <1>3 DEF Collect, WakeUp, Counted
<1>6. event_queue \in Seq(Untimeds)
  <2>1. <<>> \in Seq(Untimeds)
    OBVIOUS
  <2>2. event_queue = <<>> \/ event_cnt >= 1
    BY <1>3, EventQueueAssumption DEF Collect, WakeUp, MustCollect, Counted
  <2> QED
    BY <1>3, <2>1, <2>2 DEF Counted
<1> DEFINE n == ReadyCount(timer_queue)
           ready == [k \in 1 .. n |-> [timer_queue[k] EXCEPT !.due = 0]]
<1>7. n \in 0 .. Len(timer_queue)
  BY <1>3, ReadyCountFacts
<1>8. CASE event_queue = <<>> /\ n = 0
  <2>1. UNCHANGED queues
    BY <1>4, <1>8 DEF LookAtTimers
  <2>2. event_queue' = <<>> /\ event_queue' = event_queue /\ timer_queue' = timer_queue
    BY <1>8, <2>1 DEF queues
  <2>3. Counted' /\ Ordered'
    BY <1>3, <1>4, <1>5, <2>2 DEF Counted, Ordered
  <2> QED
    BY <1>3, <1>4, <2>3 DEF FInv
<1>9. CASE ~(event_queue = <<>> /\ n = 0)
  <2>1. /\ disp' = "dispatch" /\ event_queue' = ready \o event_queue
        /\ timer_queue' = SubSeq(timer_queue, n + 1, Len(timer_queue))
    BY <1>4, <1>9 DEF LookAtTimers, MoveReady
  <2> HIDE DEF n
  <2>2. /\ ready \in Seq(Event) /\ Len(ready) = n
        /\ \A k \in 1 .. n : ready[k] = [timer_queue[k] EXCEPT !.due = 0]
    <3>1. ASSUME NEW k \in 1 .. n PROVE [timer_queue[k] EXCEPT !.due = 0] \in Event
      <4>1. k \in 1 .. Len(timer_queue)
        BY <1>3, <1>7
      <4>2. timer_queue[k] \in Event
        BY <1>3, <4>1, ElementOfSeq
      <4> QED
        BY <4>2 DEF Event
    <3>2. n \in Nat
      BY <1>3, <1>7
    <3>3. ready \in Seq(Event) /\ Len(ready) = n
      BY <3>1, <3>2, IsASeq
    <3> QED
      BY <3>3
  <2> DEFINE rest == SubSeq(timer_queue, n + 1, Len(timer_queue))
  <2> HIDE DEF ready
  <2>3. Readied(ready, timer_queue, n)
    BY <2>2 DEF Readied
  <2>4. /\ ready \o event_queue \in Seq(Queueable(serial))
        /\ TimedFirst(ready \o event_queue) /\ Fifo(ready \o event_queue)
        /\ rest \in Seq(Timers(serial, bg)) /\ Fifo(rest)
        /\ Across(ready \o event_queue, rest)
    <3>1. /\ event_queue \in Seq(Queueable(serial)) /\ timer_queue \in Seq(Timers(serial, bg))
          /\ Fifo(event_queue) /\ Fifo(timer_queue) /\ Across(event_queue, timer_queue)
      BY <1>3 DEF Ordered
    <3>2. serial \in Nat /\ ready \in Seq(Event)
      BY <1>3, <2>2
    <3> QED
      BY <1>6, <1>7, <2>3, <3>1, <3>2, MoveOrdered
  <2>5. Ordered'
    BY <1>4, <2>1, <2>4 DEF Ordered
  <2>6. Counted'
    BY <1>5, <2>1 DEF Counted
  <2> QED
    BY <1>3, <1>4, <2>5, <2>6 DEF FInv
<1> QED
  BY <1>8, <1>9

\* Time passes for an event and for the thread behind it alike.
LEMMA TickKeepsFInv ==
  ASSUME IInv, IInv', FInv, Tick
  PROVE  FInv'
<1>1. exit_event' = exit_event
  BY DEF Tick
<1>2. SUFFICES ASSUME exit_event PROVE FInv'
  BY <1>1 DEF FInv
<1>3. /\ event_queue \in Seq(Event) /\ timer_queue \in Seq(Event) /\ serial \in Nat
      /\ timer_queue' \in Seq(Event)
      /\ bg \in [BgThreads -> BgState] /\ bg' \in [BgThreads -> BgState]
      /\ Len(timer_queue) \in Nat /\ DOMAIN timer_queue = 1 .. Len(timer_queue)
      /\ Counted /\ Ordered /\ ClockRead(bg) /\ (MaxSerial = 0 => serial = 0)
  BY <1>2, FInvFacts, LenProperties DEF FInv, IInv, TypeOK
<1>4. /\ timer_queue' = [k \in 1 .. Len(timer_queue) |-> TickEvent(timer_queue[k])]
      /\ event_queue' = event_queue /\ serial' = serial /\ disp' = disp
      /\ event_cnt' = event_cnt
      /\ bg' = [b \in BgThreads |->
           IF bg[b].pc = "posting" THEN [bg[b] EXCEPT !.due = @ - 1] ELSE bg[b]]
  BY <1>3 DEF Tick, loop, ghosts
<1>5. Len(timer_queue') = Len(timer_queue)
  BY <1>3, <1>4, LenProperties
<1>6. ASSUME NEW b \in BgThreads
      PROVE  /\ bg'[b].pc = bg[b].pc /\ bg'[b].imm = bg[b].imm
             /\ bg[b].pc = "posting" => bg'[b].due = bg[b].due - 1
             /\ bg[b].due \in Int
  BY <1>3, <1>4 DEF BgState
<1>7. ClockRead(bg')
  BY <1>3, <1>6 DEF ClockRead
<1>8. ASSUME NEW k \in 1 .. Len(timer_queue)
      PROVE  /\ timer_queue'[k].imm = timer_queue[k].imm
             /\ timer_queue'[k].src = timer_queue[k].src
             /\ timer_queue'[k].serial = timer_queue[k].serial
             /\ timer_queue'[k] \in Timers(serial, bg')
  <2>1. timer_queue[k] \in Timers(serial, bg) /\ timer_queue[k] \in Event
    BY <1>3, ElementOfSeq DEF Ordered
  <2> DEFINE e == timer_queue[k]
             f == timer_queue'[k]
  <2>2. e.timed /\ f = [e EXCEPT !.due = @ - 1]
    BY <1>4, <2>1 DEF TickEvent, Timers
  <2>3. /\ f \in Event /\ f.imm = e.imm /\ f.src = e.src /\ f.serial = e.serial
        /\ f.timed = e.timed /\ f.due = e.due - 1 /\ e.due \in Int
    <3>1. e \in Event
      BY <2>1
    <3> HIDE DEF e, f
    <3>2. e.due \in Int /\ e.due - 1 \in Int
      BY <3>1 DEF Event
    <3> QED
      BY <2>2, <3>1, <3>2 DEF Event
  <2>4. e \in Queueable(serial)
    BY <2>1 DEF Timers
  <2> HIDE DEF e, f
  <2>5. f \in Queueable(serial)
    BY <2>3, <2>4 DEF Queueable
  <2>6. ASSUME f.imm
        PROVE  f.due <= 0 /\ (bg'[f.src].pc = "posting" /\ bg'[f.src].imm => f.due <= bg'[f.src].due)
    <3>1. e.src \in BgThreads
      BY <2>2, <2>3, <2>4, <2>6 DEF Queueable
    <3>2. e.due <= 0 /\ (bg[e.src].pc = "posting" /\ bg[e.src].imm => e.due <= bg[e.src].due)
      BY <2>1, <2>3, <2>6 DEF Timers, e
    <3> QED
      BY SMTT(40), <1>6, <2>3, <3>1, <3>2
  <2>7. f \in Timers(serial, bg')
    BY <2>2, <2>3, <2>5, <2>6 DEF Timers
  <2> QED
    BY <2>3, <2>7 DEF e, f
<1>9. timer_queue' \in Seq(Timers(serial, bg'))
  <2> DEFINE q == timer_queue'
             R == Timers(serial, bg')
  <2>1. q \in Seq(Event) /\ \A k \in 1 .. Len(q) : q[k] \in R
    BY <1>3, <1>5, <1>8
  <2> HIDE DEF q, R
  <2>2. q \in Seq(R)
    BY <2>1, SeqWithin
  <2> QED
    BY <2>2 DEF q, R
<1>10. Fifo(timer_queue') /\ Across(event_queue, timer_queue')
  BY ZenonT(60), <1>3, <1>5, <1>8 DEF Ordered, Fifo, Across, Before
<1>11. Ordered' /\ Counted'
  BY <1>3, <1>4, <1>9, <1>10 DEF Ordered, Counted
<1> QED
  BY <1>3, <1>4, <1>7, <1>11 DEF FInv

\* Empty lists are in order.
LEMMA InitFInv == Init => FInv
<1> SUFFICES ASSUME Init PROVE FInv
  OBVIOUS
<1>1. \A S : <<>> \in Seq(S)
  OBVIOUS
<1>2. Counted /\ ClockRead(bg)
  BY DEF Init, Counted, ClockRead, IdleBg
<1>3. Len(<<>>) = 0
  OBVIOUS
<1>4. event_queue = <<>> /\ timer_queue = <<>> /\ 1 .. 0 = {}
  BY DEF Init
<1>5. TimedFirst(<<>>) /\ Fifo(<<>>) /\ Across(<<>>, <<>>)
  BY <1>3, <1>4 DEF TimedFirst, Fifo, Across
<1>6. Ordered
  BY <1>1, <1>4, <1>5 DEF Ordered
<1> QED
  BY <1>2, <1>6 DEF Init, FInv

\* Every step keeps the order.
LEMMA NextFInv == IInv /\ IInv' /\ FInv /\ [Next]_vars => FInv'
<1> SUFFICES ASSUME IInv, IInv', FInv, [Next]_vars PROVE FInv'
  OBVIOUS
<1>1. ASSUME NEW b \in BgThreads, BgStep(b) \/ \E cb \in Callbacks : BgStart(b, cb)
      PROVE  FInv'
  BY <1>1, BgKeepsFInv, BgPostKeepsFInv DEF BgStep
<1>2. CASE ExitEventLoop
  BY <1>2 DEF ExitEventLoop, FInv
<1>3. CASE LoopStep
  <2>1. CASE HandlerReturn \/ ExitEventHandlerStops \/ CancelDone
    <3>1. UNCHANGED <<queues, event_cnt, serial, bg, exit_event>> /\ disp' # "wait"
      BY <2>1 DEF HandlerReturn, ExitEventHandlerStops, CancelDone, ghosts
    <3> QED
      BY <3>1, StillFInv
  <2> QED
    BY <1>3, <2>1, CollectKeepsFInv, DispatchKeepsFInv, RepostKeepsFInv DEF LoopStep
<1>4. CASE ClientCall
  <2>1. ASSUME \/ \E cb \in Callbacks : CancelWait(cb)
               \/ CancelEventLoop
        PROVE  FInv'
    <3>1. /\ UNCHANGED <<queues, event_cnt, serial, bg, exit_event>>
          /\ disp' = disp \/ disp' # "wait"
      BY <2>1 DEF CancelWait, CancelEventLoop, ghosts
    <3> QED
      BY <3>1, StillFInv
  <2> QED
    BY <1>4, <2>1, PostEventKeepsFInv, PostEventWithDelayKeepsFInv, CancelsKeepFInv
    DEF ClientCall
<1>5. CASE Tick
  BY <1>5, TickKeepsFInv
<1>6. CASE UNCHANGED vars
  <2>1. UNCHANGED <<queues, event_cnt, serial, bg, exit_event>> /\ disp' = disp
    BY <1>6 DEF vars, loop, ghosts
  <2> QED
    BY <2>1, StillFInv
<1> QED
  BY <1>1, <1>2, <1>3, <1>4, <1>5, <1>6 DEF Next

\* The post_event calls of one thread are dispatched in the order in which
\* they were made until exit_event_loop is called: a background thread's go
\* through the ordered timer_queue and are moved in front of event_queue, and
\* neither the clock it read before the lock nor a late look at the timers
\* lets a later one pass.
THEOREM PostsInOrder == Spec => []FifoPerThread
<1>1. IInv /\ FInv => FifoPerThread
  <2> SUFFICES ASSUME IInv, FInv, exit_event PROVE
        \A i, j \in DOMAIN pending : i < j => Before(pending[i], pending[j])
    BY DEF FifoPerThread, Before
  <2>1. event_queue \in Seq(Event) /\ timer_queue \in Seq(Event) /\ Ordered
    BY FInvFacts
  <2> DEFINE r == event_queue \o timer_queue
             m == Len(event_queue)
  <2>2. /\ Len(r) = m + Len(timer_queue) /\ DOMAIN r = 1 .. Len(r)
        /\ m \in Nat /\ Len(timer_queue) \in Nat
        /\ \A k \in 1 .. m + Len(timer_queue) :
             r[k] = IF k <= m THEN event_queue[k] ELSE timer_queue[k - m]
    BY <2>1, ConcatProperties, LenProperties
  <2>3. pending = r
    BY DEF pending
  <2> HIDE DEF r, m
  <2>4. ASSUME NEW k \in 1 .. Len(r)
        PROVE  \/ k \in 1 .. m /\ r[k] = event_queue[k]
               \/ k > m /\ k - m \in 1 .. Len(timer_queue) /\ r[k] = timer_queue[k - m]
    BY <2>2
  <2>5. ASSUME NEW i \in 1 .. Len(r), NEW j \in 1 .. Len(r), i < j
        PROVE  Before(r[i], r[j])
    <3>1. CASE i \in 1 .. m /\ r[i] = event_queue[i] /\ j \in 1 .. m /\ r[j] = event_queue[j]
      BY <2>1, <2>5, <3>1 DEF Ordered, Fifo, m
    <3>2. CASE /\ i \in 1 .. m /\ r[i] = event_queue[i]
               /\ j - m \in 1 .. Len(timer_queue) /\ r[j] = timer_queue[j - m]
      BY <2>1, <3>2 DEF Ordered, Across, m
    <3>3. CASE /\ i - m \in 1 .. Len(timer_queue) /\ r[i] = timer_queue[i - m]
               /\ j - m \in 1 .. Len(timer_queue) /\ r[j] = timer_queue[j - m]
      <4>1. i - m < j - m
        BY <2>2, <2>5
      <4> QED
        BY <2>1, <3>3, <4>1 DEF Ordered, Fifo
    <3>4. ~(i > m /\ j \in 1 .. m)
      BY <2>2, <2>5
    <3> QED
      BY <2>4, <3>1, <3>2, <3>3, <3>4
  <2> QED
    BY <2>2, <2>3, <2>5
<1>2. Spec => []FInv
  BY InitIInv, NextIInv, InitFInv, NextFInv, PTL DEF Spec
<1> QED
  BY <1>1, <1>2, IInvHolds, PTL

-----------------------------------------------------------------------------
(* Leaving the loop.                                                       *)

\* Events of clients; events whose post_event came after the s-th post, with
\* the others of the timer queue; events that are due if post_event made them.
Own     == {e \in Event : e.cb # ExitHandler}
New(s)  == {e \in Event : e.imm => e.serial > s}
DueIfImm == {e \in Event : e.imm => e.due <= 0}

ExitRuns == current # None /\ current.cb = ExitHandler

\* exit_event_handler has been collected, and all that was in timer_queue
\* before it went with it.
ExitSeen == event_queue \notin Seq(Own) \/ ExitRuns
OldGone  == timer_queue \in Seq(New(exit_serial))

\* Before exit_event_loop nobody has seen its event,
NotYet == exit_event => event_queue \in Seq(Own) /\ timer_queue \in Seq(Own) /\ ~ExitRuns

\* and when none is queued any more it runs, or it has stopped the loop.
LastOne == ~exit_event /\ owed[ExitHandler] = 0 =>
             OldGone /\ (ExitRuns \/ (disp = "stopped" /\ event_queue = <<>>))

DInv == /\ exit_serial <= serial /\ ClockRead(bg)
        /\ timer_queue \in Seq(DueIfImm)
        /\ \A b \in BgThreads : bg[b].pc # "idle" => bg[b].cb \in Callbacks
        /\ NotYet /\ (ExitSeen => OldGone) /\ LastOne

\* Every event that is due is ready: behind one that is not, none is.
LEMMA DueIsReady ==
  ASSUME NEW q \in Seq(Event), Sorted(q), NEW k \in 1 .. Len(q), Due(q[k])
  PROVE  k <= ReadyCount(q)
<1> DEFINE S == {m \in DOMAIN q : ~Due(q[m])}
           n == Len(q) + 1
           f == FirstOf(S, n)
<1>1. Len(q) \in Nat /\ DOMAIN q = 1 .. Len(q) /\ \A m \in 1 .. Len(q) : q[m] \in Event
  BY LenProperties, ElementOfSeq
<1>2. S \subseteq Nat /\ n \in Nat
  BY <1>1
<1>3. ReadyCount(q) = f - 1
  BY DEF ReadyCount
<1>4. f \in S \cup {n}
  <2> HIDE DEF S, n
  <2> QED
    BY <1>2, FirstOfFacts
<1>5. CASE f = n
  BY <1>1, <1>3, <1>5
<1>6. CASE f \in S
  <2>1. f \in 1 .. Len(q) /\ ~Due(q[f])
    BY <1>1, <1>6
  <2> HIDE DEF f, S, n
  <2>2. q[f] \in Event /\ q[k] \in Event /\ f # k
    BY <1>1, <2>1
  <2>3. Earlier(q[k], q[f])
    BY SMTT(40), <2>1, <2>2 DEF Due, Earlier, Event
  <2>4. ~(f < k)
    BY <2>1, <2>3 DEF Sorted
  <2> QED
    BY <1>1, <1>3, <2>1, <2>2, <2>4
<1> QED
  BY <1>4, <1>5, <1>6

\* A step that neither moves, dispatches nor ends an event keeps DInv, as long
\* as what it posts is a client's.
LEMMA DFrame ==
  ASSUME DInv, exit_event' = exit_event, exit_serial' = exit_serial, current' = current,
         exit_serial <= serial', ClockRead(bg'),
         \A b \in BgThreads : bg'[b].pc # "idle" => bg'[b].cb \in Callbacks,
         timer_queue' \in Seq(DueIfImm),
         timer_queue \in Seq(Own) => timer_queue' \in Seq(Own),
         timer_queue \in Seq(New(exit_serial)) => timer_queue' \in Seq(New(exit_serial)),
         event_queue \in Seq(Own) => event_queue' \in Seq(Own),
         owed'[ExitHandler] = owed[ExitHandler],
         disp # "stopped" \/ (disp' = disp /\ event_queue' = event_queue)
  PROVE  DInv'
<1>1. ExitRuns' = ExitRuns /\ (OldGone => OldGone')
  BY DEF ExitRuns, OldGone
<1>2. NotYet'
  BY <1>1 DEF DInv, NotYet
<1>3. ExitSeen' => OldGone'
  BY <1>1 DEF DInv, ExitSeen
<1>4. LastOne'
  BY <1>1 DEF DInv, LastOne
<1> QED
  BY <1>2, <1>3, <1>4 DEF DInv

\* Posts of clients count for the client.
LEMMA OwedExit ==
  ASSUME TypeOK, NEW cb \in Callbacks, CountPost(cb) \/ CountTaken(cb)
  PROVE  owed'[ExitHandler] = owed[ExitHandler] /\ exit_serial' = exit_serial
<1>1. cb # ExitHandler /\ owed \in [AllCallbacks -> Int] /\ ExitHandler \in AllCallbacks
  BY EventQueueAssumption DEF TypeOK, AllCallbacks
<1> QED
  BY <1>1 DEF CountPost, CountTaken

\* A step of a background thread before its post.
LEMMA BgKeepsDInv ==
  ASSUME IInv, DInv, NEW b \in BgThreads,
         \/ BgPostCancelled(b)
         \/ \E cb \in Callbacks : BgStart(b, cb)
         \/ \E d \in Delays \cup {0} : BgReadClock(b, d)
  PROVE  DInv'
<1>1. /\ UNCHANGED <<queues, loop, exit_event, ghosts>>
  BY DEF BgPostCancelled, BgStart, BgReadClock
<1>2. bg \in [BgThreads -> BgState] /\ ClockRead(bg)
      /\ \A c \in BgThreads : bg[c].pc # "idle" => bg[c].cb \in Callbacks
  BY DEF IInv, TypeOK, DInv
<1>3. /\ \A c \in BgThreads : c # b => bg'[c] = bg[c]
      /\ bg'[b].pc = "posting" /\ bg'[b].imm => bg'[b].due = 0
      /\ bg'[b].pc # "idle" => bg'[b].cb \in Callbacks
  <2>1. CASE BgPostCancelled(b)
    BY <1>2, <2>1 DEF BgPostCancelled, IdleBg
  <2>2. ASSUME NEW cb \in Callbacks, BgStart(b, cb)
        PROVE  /\ \A c \in BgThreads : c # b => bg'[c] = bg[c]
               /\ bg'[b].pc # "posting" /\ bg'[b].cb = cb
    BY <1>2, <2>2 DEF BgStart, BgState
  <2>3. ASSUME NEW d \in Delays \cup {0}, BgReadClock(b, d)
        PROVE  /\ \A c \in BgThreads : c # b => bg'[c] = bg[c]
               /\ bg'[b].imm => bg'[b].due = 0
               /\ bg'[b].cb \in Callbacks
    <3> DEFINE imm == (d = 0)
    <3>1. imm \in BOOLEAN /\ (imm => d = 0)
      OBVIOUS
    <3>2. /\ bg' = [bg EXCEPT ![b] = [bg[b] EXCEPT !.pc = "posting", !.due = d, !.imm = imm]]
          /\ bg[b].pc = "busy"
      BY <2>3 DEF BgReadClock
    <3> HIDE DEF imm
    <3>3. bg'[b].imm = imm /\ bg'[b].due = d /\ bg'[b].cb = bg[b].cb
      BY <1>2, <3>2 DEF BgState
    <3> QED
      BY <1>2, <3>1, <3>2, <3>3
  <2> QED
    BY <2>1, <2>2, <2>3
<1>4. ClockRead(bg') /\ \A c \in BgThreads : bg'[c].pc # "idle" => bg'[c].cb \in Callbacks
  BY <1>2, <1>3 DEF ClockRead
<1>5. /\ event_queue' = event_queue /\ timer_queue' = timer_queue /\ serial' = serial
      /\ exit_serial' = exit_serial /\ owed' = owed /\ disp' = disp /\ current' = current
      /\ exit_event' = exit_event
  BY <1>1 DEF queues, loop, ghosts
<1>6. exit_serial <= serial /\ timer_queue \in Seq(DueIfImm)
  BY DEF DInv
<1> QED
  BY <1>4, <1>5, <1>6, DFrame

\* The posting functions: the exit event is not theirs.
LEMMA PostsKeepDInv ==
  ASSUME MaxSerial > 0, IInv, DInv,
         \/ \E b \in BgThreads : BgPost(b)
         \/ \E cb \in Callbacks : PostEvent(cb)
         \/ \E cb \in Callbacks, d \in Delays : PostEventWithDelay(cb, d)
  PROVE  DInv'
<1>1. /\ TypeOK /\ event_queue \in Seq(Event) /\ timer_queue \in Seq(Event)
      /\ bg \in [BgThreads -> BgState] /\ serial \in Nat /\ exit_serial \in Nat
      /\ ClockRead(bg) /\ exit_serial <= serial /\ timer_queue \in Seq(DueIfImm)
      /\ \A b \in BgThreads : bg[b].pc # "idle" => bg[b].cb \in Callbacks
  BY DEF IInv, TypeOK, DInv
<1>2. NextSerial \in Nat /\ NextSerial > exit_serial /\ NextSerial >= exit_serial
  BY <1>1, EventQueueAssumption DEF NextSerial
<1>3. ASSUME NEW ev \in Event, ev \in DueIfImm, ev \in Own, ev \in New(exit_serial),
             timer_queue' = InsertTimer(timer_queue, ev)
      PROVE  /\ timer_queue' \in Seq(DueIfImm)
             /\ timer_queue \in Seq(Own) => timer_queue' \in Seq(Own)
             /\ timer_queue \in Seq(New(exit_serial)) => timer_queue' \in Seq(New(exit_serial))
  <2> DEFINE k == InsertPos(timer_queue, ev)
  <2>1. k \in 1 .. Len(timer_queue) + 1 /\ timer_queue' = InsertAt(timer_queue, k, ev)
    BY <1>1, <1>3, InsertPosFacts DEF InsertTimer
  <2> HIDE DEF k
  <2>2. ASSUME NEW S, timer_queue \in Seq(S), ev \in S
        PROVE  timer_queue' \in Seq(S)
    <3>1. InsertAt(timer_queue, k, ev) \in Seq(S)
      BY <2>1, <2>2, InsertAtFacts
    <3> QED
      BY <2>1, <3>1
  <2> QED
    BY <1>1, <1>3, <2>2
<1>4. ASSUME NEW b \in BgThreads, BgPost(b) PROVE DInv'
  <2>1. PICK n \in Nodes :
          timer_queue' = InsertTimer(timer_queue,
                           NewEvent(n, bg[b].cb, TRUE, bg[b].due, bg[b].imm, b))
    BY <1>4 DEF BgPost
  <2> DEFINE ev == NewEvent(n, bg[b].cb, TRUE, bg[b].due, bg[b].imm, b)
  <2>2. /\ ev.due = bg[b].due /\ ev.imm = bg[b].imm /\ ev.cb = bg[b].cb
        /\ ev.serial = NextSerial
    BY DEF NewEvent
  <2>3. ev \in Event
    <3>1. bg[b].cb \in AllCallbacks /\ bg[b].due \in Int /\ bg[b].imm \in BOOLEAN
      BY <1>1 DEF BgState
    <3>2. b \in Threads /\ TRUE \in BOOLEAN
      BY DEF Threads
    <3> QED
      BY <1>1, <3>1, <3>2, NewEventType
  <2>4. /\ timer_queue' = InsertTimer(timer_queue, ev) /\ event_queue' = event_queue
        /\ bg[b].pc = "posting" /\ bg' = [bg EXCEPT ![b] = IdleBg] /\ CountPost(bg[b].cb)
        /\ UNCHANGED loop /\ exit_event' = exit_event
    BY <1>4, <2>1 DEF BgPost
  <2> HIDE DEF ev
  <2>5. bg[b].cb \in Callbacks /\ (bg[b].imm => bg[b].due <= 0)
    BY <1>1, <2>4 DEF ClockRead
  <2>6. ev \in DueIfImm /\ ev \in Own /\ ev \in New(exit_serial)
    BY <1>2, <2>2, <2>3, <2>5, EventQueueAssumption DEF DueIfImm, Own, New
  <2>7. /\ timer_queue' \in Seq(DueIfImm)
        /\ timer_queue \in Seq(Own) => timer_queue' \in Seq(Own)
        /\ timer_queue \in Seq(New(exit_serial)) => timer_queue' \in Seq(New(exit_serial))
    BY <1>3, <2>3, <2>4, <2>6
  <2>8. owed'[ExitHandler] = owed[ExitHandler] /\ exit_serial' = exit_serial
    BY <1>1, <2>4, <2>5, OwedExit
  <2>9. /\ ClockRead(bg')
        /\ \A c \in BgThreads : bg'[c].pc # "idle" => bg'[c].cb \in Callbacks
    <3>1. \A c \in BgThreads : bg'[c] = IF c = b THEN IdleBg ELSE bg[c]
      BY <1>1, <2>4
    <3> QED
      BY <1>1, <3>1 DEF ClockRead, IdleBg
  <2>10. exit_serial <= serial' /\ current' = current /\ disp' = disp
    BY <1>1, <1>2, <2>4 DEF CountPost, loop
  <2> QED
    BY <2>4, <2>7, <2>8, <2>9, <2>10, DFrame
<1>5. ASSUME NEW cb \in Callbacks, PostEvent(cb) PROVE DInv'
  <2>1. PICK n \in Nodes :
          event_queue' = Append(event_queue, NewEvent(n, cb, FALSE, 0, TRUE, Dispatcher))
    BY <1>5 DEF PostEvent
  <2> DEFINE ev == NewEvent(n, cb, FALSE, 0, TRUE, Dispatcher)
  <2>2. ev.cb = cb
    BY DEF NewEvent
  <2>3. ev \in Event
    <3>1. /\ cb \in AllCallbacks /\ Dispatcher \in Threads /\ 0 \in Int
          /\ TRUE \in BOOLEAN /\ FALSE \in BOOLEAN
      BY DEF AllCallbacks, Threads
    <3> QED
      BY <1>1, <3>1, NewEventType
  <2>4. /\ event_queue' = Append(event_queue, ev) /\ timer_queue' = timer_queue
        /\ bg' = bg /\ CountPost(cb) /\ UNCHANGED loop /\ exit_event' = exit_event
        /\ disp = "handler"
    BY <1>5, <2>1 DEF PostEvent, InHandler
  <2> HIDE DEF ev
  <2>5. ev \in Own
    BY <2>2, <2>3, EventQueueAssumption DEF Own
  <2>6. event_queue \in Seq(Own) => event_queue' \in Seq(Own)
    BY <2>4, <2>5, AppendProperties
  <2>7. owed'[ExitHandler] = owed[ExitHandler] /\ exit_serial' = exit_serial
    BY <1>1, <2>4, OwedExit
  <2>8. exit_serial <= serial' /\ current' = current /\ disp # "stopped"
    BY <1>1, <1>2, <2>4 DEF CountPost, loop
  <2>9. /\ timer_queue' \in Seq(DueIfImm) /\ ClockRead(bg')
        /\ \A b \in BgThreads : bg'[b].pc # "idle" => bg'[b].cb \in Callbacks
    BY <1>1, <2>4
  <2> QED
    BY <2>4, <2>6, <2>7, <2>8, <2>9, DFrame
<1>6. ASSUME NEW cb \in Callbacks, NEW d \in Delays, PostEventWithDelay(cb, d) PROVE DInv'
  <2>1. PICK n \in Nodes :
          timer_queue' = InsertTimer(timer_queue, NewEvent(n, cb, TRUE, d, FALSE, Dispatcher))
    BY <1>6 DEF PostEventWithDelay
  <2> DEFINE ev == NewEvent(n, cb, TRUE, d, FALSE, Dispatcher)
  <2>2. ev.cb = cb /\ ~ev.imm
    BY DEF NewEvent
  <2>3. ev \in Event
    <3>1. /\ cb \in AllCallbacks /\ Dispatcher \in Threads /\ d \in Int
          /\ TRUE \in BOOLEAN /\ FALSE \in BOOLEAN
      BY EventQueueAssumption DEF AllCallbacks, Threads
    <3> QED
      BY <1>1, <3>1, NewEventType
  <2>4. /\ timer_queue' = InsertTimer(timer_queue, ev) /\ event_queue' = event_queue
        /\ bg' = bg /\ CountPost(cb) /\ UNCHANGED loop /\ exit_event' = exit_event
    BY <1>6, <2>1 DEF PostEventWithDelay
  <2> HIDE DEF ev
  <2>5. ev \in DueIfImm /\ ev \in Own /\ ev \in New(exit_serial)
    BY <2>2, <2>3, EventQueueAssumption DEF DueIfImm, Own, New
  <2>6. /\ timer_queue' \in Seq(DueIfImm)
        /\ timer_queue \in Seq(Own) => timer_queue' \in Seq(Own)
        /\ timer_queue \in Seq(New(exit_serial)) => timer_queue' \in Seq(New(exit_serial))
    BY <1>3, <2>3, <2>4, <2>5
  <2>7. owed'[ExitHandler] = owed[ExitHandler] /\ exit_serial' = exit_serial
    BY <1>1, <2>4, OwedExit
  <2>8. exit_serial <= serial' /\ current' = current /\ disp' = disp
    BY <1>1, <1>2, <2>4 DEF CountPost, loop
  <2>9. ClockRead(bg') /\ \A b \in BgThreads : bg'[b].pc # "idle" => bg'[b].cb \in Callbacks
    BY <1>1, <2>4
  <2> QED
    BY <2>4, <2>6, <2>7, <2>8, <2>9, DFrame
<1> QED
  BY <1>4, <1>5, <1>6

\* cancel_event takes a client's event away.
LEMMA CancelsKeepDInv ==
  ASSUME IInv, DInv, NEW cb \in Callbacks, CancelQueued(cb) \/ CancelTimer(cb)
  PROVE  DInv'
<1>1. /\ TypeOK /\ event_queue \in Seq(Event) /\ timer_queue \in Seq(Event)
      /\ DOMAIN event_queue = 1 .. Len(event_queue) /\ Len(event_queue) \in Nat
      /\ DOMAIN timer_queue = 1 .. Len(timer_queue) /\ Len(timer_queue) \in Nat
      /\ exit_serial <= serial /\ ClockRead(bg) /\ timer_queue \in Seq(DueIfImm)
      /\ \A b \in BgThreads : bg[b].pc # "idle" => bg[b].cb \in Callbacks
  BY LenProperties DEF IInv, TypeOK, DInv
<1>2. /\ disp = "handler" /\ current' = current /\ serial' = serial /\ bg' = bg
      /\ exit_event' = exit_event /\ CountTaken(cb)
  BY DEF CancelQueued, CancelTimer, InHandler, CountTaken, loop
<1>3. owed'[ExitHandler] = owed[ExitHandler] /\ exit_serial' = exit_serial
  BY <1>1, <1>2, OwedExit
<1>4. /\ timer_queue' = timer_queue \/ \A S : timer_queue \in Seq(S) => timer_queue' \in Seq(S)
      /\ event_queue' = event_queue \/ \A S : event_queue \in Seq(S) => event_queue' \in Seq(S)
  <2>1. CASE CancelQueued(cb)
    <3> DEFINE M == Matches(event_queue, cb)
               k == Min(M)
    <3>1. M # {} /\ M \subseteq Nat /\ M \subseteq 1 .. Len(event_queue)
      BY <1>1, <2>1 DEF CancelQueued, Matches
    <3>2. k \in M
      <4> HIDE DEF M
      <4> QED
        BY <3>1, MinNat
    <3>3. /\ k \in 1 .. Len(event_queue)
          /\ event_queue' = RemoveAt(event_queue, k) /\ timer_queue' = timer_queue
      BY <2>1, <3>1, <3>2 DEF CancelQueued
    <3> HIDE DEF k, M
    <3>4. ASSUME NEW S, event_queue \in Seq(S) PROVE RemoveAt(event_queue, k) \in Seq(S)
      BY <3>3, <3>4, RemoveAtFacts
    <3> QED
      BY <3>3, <3>4
  <2>2. CASE CancelTimer(cb)
    <3> DEFINE M == Matches(timer_queue, cb)
               k == Min(M)
    <3>1. M # {} /\ M \subseteq Nat /\ M \subseteq 1 .. Len(timer_queue)
      BY <1>1, <2>2 DEF CancelTimer, Matches
    <3>2. k \in M
      <4> HIDE DEF M
      <4> QED
        BY <3>1, MinNat
    <3>3. /\ k \in 1 .. Len(timer_queue)
          /\ timer_queue' = RemoveAt(timer_queue, k) /\ event_queue' = event_queue
      BY <2>2, <3>1, <3>2 DEF CancelTimer
    <3> HIDE DEF k, M
    <3>4. ASSUME NEW S, timer_queue \in Seq(S) PROVE RemoveAt(timer_queue, k) \in Seq(S)
      BY <3>3, <3>4, RemoveAtFacts
    <3> QED
      BY <3>3, <3>4
  <2> QED
    BY <2>1, <2>2
<1>5. /\ timer_queue' \in Seq(DueIfImm)
      /\ timer_queue \in Seq(Own) => timer_queue' \in Seq(Own)
      /\ timer_queue \in Seq(New(exit_serial)) => timer_queue' \in Seq(New(exit_serial))
      /\ event_queue \in Seq(Own) => event_queue' \in Seq(Own)
  BY <1>1, <1>4
<1>6. /\ exit_serial <= serial' /\ ClockRead(bg') /\ disp # "stopped"
      /\ \A b \in BgThreads : bg'[b].pc # "idle" => bg'[b].cb \in Callbacks
  BY <1>1, <1>2
<1> QED
  BY <1>2, <1>3, <1>5, <1>6, DFrame

\* Steps that leave the queues, the counts and the threads alone.
LEMMA StillDInv ==
  ASSUME DInv, UNCHANGED <<queues, current, bg, exit_event, ghosts>>,
         disp # "stopped" \/ disp' = disp
  PROVE  DInv'
<1>1. /\ event_queue' = event_queue /\ timer_queue' = timer_queue /\ current' = current
      /\ bg' = bg /\ exit_event' = exit_event /\ serial' = serial
      /\ exit_serial' = exit_serial /\ owed' = owed
  BY DEF queues, ghosts
<1>2. /\ exit_serial <= serial' /\ ClockRead(bg') /\ timer_queue' \in Seq(DueIfImm)
      /\ \A b \in BgThreads : bg'[b].pc # "idle" => bg'[b].cb \in Callbacks
  BY <1>1 DEF DInv
<1> QED
  BY <1>1, <1>2, DFrame

\* The clock makes nothing less due.
LEMMA TickKeepsDInv ==
  ASSUME IInv, IInv', DInv, Tick
  PROVE  DInv'
<1>1. /\ timer_queue \in Seq(Event) /\ timer_queue' \in Seq(Event)
      /\ bg \in [BgThreads -> BgState]
      /\ Len(timer_queue) \in Nat /\ DOMAIN timer_queue = 1 .. Len(timer_queue)
      /\ exit_serial <= serial /\ ClockRead(bg) /\ timer_queue \in Seq(DueIfImm)
      /\ \A b \in BgThreads : bg[b].pc # "idle" => bg[b].cb \in Callbacks
  BY LenProperties DEF IInv, TypeOK, DInv
<1>2. /\ timer_queue' = [k \in 1 .. Len(timer_queue) |-> TickEvent(timer_queue[k])]
      /\ event_queue' = event_queue /\ serial' = serial /\ disp' = disp
      /\ exit_serial' = exit_serial /\ owed' = owed /\ current' = current
      /\ exit_event' = exit_event
      /\ bg' = [b \in BgThreads |->
           IF bg[b].pc = "posting" THEN [bg[b] EXCEPT !.due = @ - 1] ELSE bg[b]]
  BY <1>1 DEF Tick, loop, ghosts
<1>3. Len(timer_queue') = Len(timer_queue)
  BY <1>1, <1>2, LenProperties
<1>4. ASSUME NEW b \in BgThreads
      PROVE  /\ bg'[b].pc = bg[b].pc /\ bg'[b].imm = bg[b].imm /\ bg'[b].cb = bg[b].cb
             /\ bg[b].pc = "posting" => bg'[b].due = bg[b].due - 1
             /\ bg[b].due \in Int
  BY <1>1, <1>2 DEF BgState
<1>5. ClockRead(bg') /\ \A b \in BgThreads : bg'[b].pc # "idle" => bg'[b].cb \in Callbacks
  BY <1>1, <1>4 DEF ClockRead
<1>6. ASSUME NEW k \in 1 .. Len(timer_queue)
      PROVE  /\ timer_queue[k] \in DueIfImm => timer_queue'[k] \in DueIfImm
             /\ timer_queue[k] \in Own => timer_queue'[k] \in Own
             /\ timer_queue[k] \in New(exit_serial) => timer_queue'[k] \in New(exit_serial)
  <2> DEFINE e == timer_queue[k]
             f == timer_queue'[k]
  <2>1. e \in Event /\ f = TickEvent(e)
    BY <1>1, <1>2, ElementOfSeq
  <2> HIDE DEF e, f
  <2>2. e.due \in Int /\ e.due - 1 \in Int
    BY <2>1 DEF Event
  <2>3. /\ f \in Event /\ f.imm = e.imm /\ f.cb = e.cb /\ f.serial = e.serial
        /\ f.due = e.due \/ f.due = e.due - 1
    BY <2>1, <2>2 DEF Event, TickEvent
  <2>4. /\ e \in DueIfImm => f \in DueIfImm
        /\ e \in Own => f \in Own
        /\ e \in New(exit_serial) => f \in New(exit_serial)
    BY <2>2, <2>3 DEF DueIfImm, Own, New
  <2> QED
    BY <2>4 DEF e, f
<1>7. ASSUME NEW S, timer_queue \in Seq(S),
             \A k \in 1 .. Len(timer_queue) : timer_queue[k] \in S => timer_queue'[k] \in S
      PROVE  timer_queue' \in Seq(S)
  <2> DEFINE q == timer_queue'
  <2>1. \A k \in 1 .. Len(timer_queue) : timer_queue[k] \in S
    BY <1>7, ElementOfSeq
  <2>2. q \in Seq(Event) /\ \A k \in 1 .. Len(q) : q[k] \in S
    BY <1>1, <1>3, <1>7, <2>1
  <2> HIDE DEF q
  <2>3. q \in Seq(S)
    BY <2>2, SeqWithin
  <2> QED
    BY <2>3 DEF q
<1>8. /\ timer_queue' \in Seq(DueIfImm)
      /\ timer_queue \in Seq(Own) => timer_queue' \in Seq(Own)
      /\ timer_queue \in Seq(New(exit_serial)) => timer_queue' \in Seq(New(exit_serial))
  BY <1>1, <1>6, <1>7
<1>9. exit_serial <= serial'
  BY <1>1, <1>2
<1> QED
  BY <1>2, <1>5, <1>8, <1>9, DFrame

\* exit_event_loop: its event is the first that is queued.
LEMMA ExitKeepsDInv ==
  ASSUME LInv, DInv, ExitEventLoop
  PROVE  DInv'
<1> DEFINE ev == [node |-> Heap, cb |-> ExitHandler, timed |-> FALSE, due |-> 0,
                  imm |-> FALSE, src |-> Dispatcher, serial |-> serial]
<1>1. /\ TypeOK /\ EventsBalanced /\ owed \in [AllCallbacks -> Int] /\ serial \in Nat
      /\ timer_queue \in Seq(DueIfImm) /\ ClockRead(bg)
      /\ \A b \in BgThreads : bg[b].pc # "idle" => bg[b].cb \in Callbacks
  BY DEF LInv, IInv, TypeOK, DInv
<1>2. ev \in DueIfImm
  BY <1>1 DEF TypeOK, Event, Nodes, AllCallbacks, Threads, DueIfImm
<1>3. /\ timer_queue' = <<ev>> \o timer_queue /\ event_queue' = event_queue
      /\ current' = current /\ serial' = serial /\ exit_serial' = serial /\ bg' = bg
      /\ exit_event /\ exit_event' = FALSE
      /\ owed' = [owed EXCEPT ![ExitHandler] = @ + 1]
  BY DEF ExitEventLoop, loop
<1> DEFINE p == <<ev>>
<1>4. p \in Seq(DueIfImm) /\ timer_queue' = p \o timer_queue
  BY <1>2, <1>3
<1> HIDE DEF ev, p
<1>5. timer_queue' \in Seq(DueIfImm)
  BY <1>1, <1>4, ConcatProperties
<1>6. ~ExitSeen'
  BY <1>3 DEF DInv, NotYet, ExitSeen, ExitRuns
<1>7. owed'[ExitHandler] # 0
  <2>1. Queued(CbIs(ExitHandler)) \in Nat /\ ExitHandler \in AllCallbacks
    BY <1>1, QueuedType DEF AllCallbacks
  <2>2. owed[ExitHandler] \in Nat
    BY <1>1, <2>1 DEF EventsBalanced
  <2> QED
    BY <1>1, <1>3, <2>1, <2>2
<1>8. exit_serial' <= serial' /\ NotYet' /\ LastOne'
  BY <1>1, <1>3, <1>7 DEF NotYet, LastOne
<1> QED
  BY <1>1, <1>3, <1>5, <1>6, <1>8 DEF DInv

\* The exit event that is dispatched was seen before.
LEMMA DispatchKeepsDInv ==
  ASSUME LInv, DInv, Dispatch
  PROVE  DInv'
<1> DEFINE ev == Head(event_queue)
<1>1. /\ TypeOK /\ event_queue \in Seq(Event) /\ event_queue # <<>>
      /\ owed \in [AllCallbacks -> Int] /\ current = None
      /\ timer_queue \in Seq(DueIfImm) /\ ClockRead(bg) /\ exit_serial <= serial
      /\ \A b \in BgThreads : bg[b].pc # "idle" => bg[b].cb \in Callbacks
  BY DEF LInv, IInv, TypeOK, DInv, NoneBetween, Dispatch, DispatchHasWork, MustCollect
<1>2. ev \in Event /\ ev # None
  BY <1>1, HeadTailProperties, NoneAssumption
<1>3. /\ current' = ev /\ event_queue' = Tail(event_queue) /\ timer_queue' = timer_queue
      /\ owed' = [owed EXCEPT ![ev.cb] = @ - 1] /\ serial' = serial
      /\ exit_serial' = exit_serial /\ exit_event' = exit_event /\ bg' = bg
      /\ disp # "stopped"
  BY DEF Dispatch, CountTaken
<1>4. event_queue \in Seq(Own) => event_queue' \in Seq(Own) /\ ev \in Own
  BY <1>1, <1>3, HeadTailProperties
<1> HIDE DEF ev
<1>5. ExitRuns' => event_queue \notin Seq(Own)
  BY <1>3, <1>4 DEF ExitRuns, Own
<1>6. ExitSeen' => ExitSeen
  BY <1>4, <1>5 DEF ExitSeen
<1>7. OldGone => OldGone'
  BY <1>3 DEF OldGone
<1>8. NotYet'
  BY <1>3, <1>4, <1>5 DEF DInv, NotYet
<1>9. LastOne'
  <2> SUFFICES ASSUME ~exit_event', owed'[ExitHandler] = 0
               PROVE  OldGone' /\ ExitRuns'
    BY DEF LastOne
  <2>1. CASE ev.cb = ExitHandler
    <3>1. ExitRuns'
      BY <1>2, <1>3, <2>1 DEF ExitRuns
    <3> QED
      BY <1>6, <1>7, <3>1 DEF DInv, ExitSeen
  <2>2. CASE ev.cb # ExitHandler
    <3>1. owed[ExitHandler] = 0
      BY <1>1, <1>2, <1>3, <2>2 DEF AllCallbacks
    <3>2. ExitRuns \/ disp = "stopped"
      BY <1>3, <3>1 DEF DInv, LastOne
    <3> QED
      BY <1>1, <1>3, <3>2 DEF ExitRuns
  <2> QED
    BY <2>1, <2>2
<1> QED
  BY <1>1, <1>3, <1>6, <1>7, <1>8, <1>9 DEF DInv

\* A client's handler returns: somebody else holds the exit event, if any.
LEMMA ReturnKeepsDInv ==
  ASSUME LInv, DInv, HandlerReturn
  PROVE  DInv'
<1>1. /\ event_queue' = event_queue /\ timer_queue' = timer_queue /\ current' = None
      /\ bg' = bg /\ exit_event' = exit_event /\ serial' = serial
      /\ exit_serial' = exit_serial /\ owed' = owed
      /\ disp = "handler" /\ current.cb # ExitHandler
  BY DEF HandlerReturn, queues, ghosts
<1>2. ~ExitRuns /\ ~ExitRuns' /\ (ExitSeen' => ExitSeen)
  BY <1>1 DEF ExitRuns, ExitSeen
<1>3. OldGone => OldGone'
  BY <1>1 DEF OldGone
<1>4. NotYet'
  BY <1>1, <1>2 DEF DInv, NotYet
<1>5. exit_event \/ owed[ExitHandler] # 0
  BY <1>1, <1>2 DEF DInv, LastOne
<1>6. LastOne'
  BY <1>1, <1>5 DEF LastOne
<1> QED
  BY <1>1, <1>2, <1>3, <1>4, <1>6 DEF DInv

\* exit_event_handler, when it stops the loop and when it goes round again.
LEMMA ExitHandlerKeepsDInv ==
  ASSUME LInv, DInv, ExitEventHandlerStops \/ ExitEventHandlerReposts
  PROVE  DInv'
<1>1. /\ timer_queue' = timer_queue /\ current' = None /\ bg' = bg
      /\ exit_event' = exit_event /\ serial' = serial /\ exit_serial' = exit_serial
      /\ disp = "handler" /\ current.cb = ExitHandler
  BY DEF ExitEventHandlerStops, ExitEventHandlerReposts, queues, ghosts
<1>2. ExitRuns /\ ~ExitRuns' /\ ~exit_event
  <2>1. current \in Event
    BY <1>1 DEF LInv, IInv, HandlerHasEvent
  <2>2. ExitRuns
    BY <1>1, <2>1, NoneAssumption DEF ExitRuns
  <2> QED
    BY <1>1, <2>2 DEF ExitRuns, DInv, NotYet
<1>3. OldGone /\ OldGone'
  BY <1>1, <1>2 DEF DInv, ExitSeen, OldGone
<1>4. NotYet'
  BY <1>1, <1>2 DEF NotYet
<1>5. LastOne'
  <2>1. CASE ExitEventHandlerStops
    <3>1. disp' = "stopped" /\ event_queue' = <<>>
      BY <2>1 DEF ExitEventHandlerStops, queues
    <3> QED
      BY <1>3, <3>1 DEF LastOne
  <2>2. CASE ExitEventHandlerReposts
    <3>1. TypeOK /\ EventsBalanced /\ owed \in [AllCallbacks -> Int]
      BY DEF LInv, IInv, TypeOK
    <3>2. Queued(CbIs(ExitHandler)) \in Nat /\ ExitHandler \in AllCallbacks
      BY <3>1, QueuedType DEF AllCallbacks
    <3>3. owed[ExitHandler] \in Nat
      BY <3>1, <3>2 DEF EventsBalanced
    <3>4. owed'[ExitHandler] = owed[ExitHandler] + 1
      BY <2>2, <3>1, <3>2 DEF ExitEventHandlerReposts
    <3>5. owed'[ExitHandler] # 0
      BY <3>3, <3>4
    <3> QED
      BY <3>5 DEF LastOne
  <2> QED
    BY <2>1, <2>2
<1> QED
  BY <1>1, <1>3, <1>4, <1>5 DEF DInv

\* The exit event is collected together with every event of post_event that
\* was in timer_queue, since those are due.
LEMMA CollectKeepsDInv ==
  ASSUME LInv, IInv', DInv, Collect \/ WakeUp
  PROVE  DInv'
<1>1. /\ event_queue \in Seq(Event) /\ timer_queue \in Seq(Event) /\ Sorted(timer_queue)
      /\ event_queue' \in Seq(Event) /\ timer_queue' \in Seq(Event)
      /\ Len(timer_queue) \in Nat
      /\ \A k \in 1 .. Len(timer_queue) : timer_queue[k] \in Event
      /\ timer_queue \in Seq(DueIfImm) /\ ClockRead(bg) /\ exit_serial <= serial
      /\ \A b \in BgThreads : bg[b].pc # "idle" => bg[b].cb \in Callbacks
  BY LenProperties, ElementOfSeq DEF LInv, IInv, TypeOK, DInv
<1>2. /\ LookAtTimers /\ serial' = serial /\ exit_serial' = exit_serial /\ owed' = owed
      /\ bg' = bg /\ exit_event' = exit_event /\ current' = current
      /\ disp # "stopped" /\ current = None
  BY DEF Collect, WakeUp, ghosts, LInv, NoneBetween
<1>3. ~ExitRuns /\ ~ExitRuns'
  BY <1>2 DEF ExitRuns
<1>4. LastOne'
  <2>1. exit_event \/ owed[ExitHandler] # 0
    BY <1>2, <1>3 DEF DInv, LastOne
  <2> QED
    BY <1>2, <2>1 DEF LastOne
<1> DEFINE n == ReadyCount(timer_queue)
           ready == [k \in 1 .. n |-> [timer_queue[k] EXCEPT !.due = 0]]
           rest == SubSeq(timer_queue, n + 1, Len(timer_queue))
<1>5. CASE UNCHANGED queues
  <2>1. event_queue' = event_queue /\ timer_queue' = timer_queue
    BY <1>5 DEF queues
  <2>2. (ExitSeen' => ExitSeen) /\ (OldGone => OldGone') /\ NotYet'
    BY <1>2, <1>3, <2>1 DEF ExitSeen, OldGone, DInv, NotYet
  <2> QED
    BY <1>1, <1>2, <1>4, <2>1, <2>2 DEF DInv
<1>6. CASE event_queue' = ready \o event_queue /\ timer_queue' = rest
  <2>1. n \in 0 .. Len(timer_queue)
    BY <1>1, ReadyCountFacts
  <2>2. \A k \in 1 .. Len(timer_queue) : Due(timer_queue[k]) => k <= n
    BY <1>1, DueIsReady
  <2> HIDE DEF n
  <2>3. /\ rest \in Seq(Event) /\ Len(rest) = Len(timer_queue) - n
        /\ \A k \in 1 .. Len(timer_queue) - n : rest[k] = timer_queue[n + k]
    <3>1. \A k \in n + 1 .. Len(timer_queue) : timer_queue[k] \in Event
      BY <1>1, <2>1
    <3> QED
      BY <1>1, <2>1, <3>1, SubSeqProperties
  <2> HIDE DEF rest
  <2>4. ASSUME NEW k \in 1 .. Len(rest) PROVE ~rest[k].imm /\ rest[k] \in Event
    <3>1. n + k \in 1 .. Len(timer_queue) /\ ~(n + k <= n) /\ rest[k] = timer_queue[n + k]
      BY <1>1, <2>1, <2>3
    <3>2. ~Due(timer_queue[n + k]) /\ timer_queue[n + k] \in DueIfImm
      BY <1>1, <2>2, <3>1, ElementOfSeq
    <3>3. timer_queue[n + k].due \in Int
      BY <3>2 DEF DueIfImm, Event
    <3> QED
      BY <3>1, <3>2, <3>3 DEF Due, DueIfImm
  <2>5. /\ \A k \in 1 .. Len(rest) : rest[k] \in DueIfImm
        /\ \A k \in 1 .. Len(rest) : rest[k] \in New(exit_serial)
    BY <2>4 DEF DueIfImm, New
  <2>6. rest \in Seq(DueIfImm) /\ rest \in Seq(New(exit_serial))
    BY <2>3, <2>5, SeqWithin
  <2>7. ASSUME timer_queue \in Seq(Own)
        PROVE  rest \in Seq(Own) /\ ready \in Seq(Own)
    <3>1. \A k \in 1 .. Len(timer_queue) : timer_queue[k] \in Own
      BY <2>7, ElementOfSeq
    <3>2. ASSUME NEW k \in 1 .. Len(rest) PROVE rest[k] \in Own
      <4>1. n + k \in 1 .. Len(timer_queue)
        BY <1>1, <2>1, <2>3
      <4>2. k \in 1 .. Len(timer_queue) - n
        BY <2>3
      <4>3. rest[k] = timer_queue[n + k]
        BY <2>3, <4>2
      <4> QED
        BY <3>1, <4>1, <4>3
    <3>3. rest \in Seq(Own)
      BY <2>3, <3>2, SeqWithin
    <3>4. ASSUME NEW k \in 1 .. n PROVE [timer_queue[k] EXCEPT !.due = 0] \in Own
      <4>1. k \in 1 .. Len(timer_queue)
        BY <1>1, <2>1
      <4>2. timer_queue[k] \in Event /\ timer_queue[k].cb # ExitHandler
        BY <3>1, <4>1 DEF Own
      <4> QED
        BY <4>2 DEF Own, Event
    <3>5. n \in Nat
      BY <1>1, <2>1
    <3>6. ready \in Seq(Own)
      BY <3>4, <3>5, IsASeq
    <3> QED
      BY <3>3, <3>6
  <2> HIDE DEF ready
  <2>8. NotYet'
    <3>1. ASSUME exit_event PROVE event_queue' \in Seq(Own) /\ timer_queue' \in Seq(Own)
      <4>1. event_queue \in Seq(Own) /\ timer_queue \in Seq(Own)
        BY <3>1 DEF DInv, NotYet
      <4>2. ready \in Seq(Own) /\ rest \in Seq(Own)
        BY <2>7, <4>1
      <4>3. ready \o event_queue \in Seq(Own)
        BY <4>1, <4>2, ConcatProperties
      <4> QED
        BY <1>6, <4>2, <4>3
    <3> QED
      BY <1>2, <1>3, <3>1 DEF NotYet
  <2>9. OldGone' /\ timer_queue' \in Seq(DueIfImm)
    BY <1>2, <1>6, <2>6 DEF OldGone
  <2> QED
    BY <1>1, <1>2, <1>4, <2>8, <2>9 DEF DInv
<1> QED
  BY <1>2, <1>5, <1>6 DEF LookAtTimers, MoveReady

\* Nothing is expected of the exit at the start.
LEMMA InitDInv == Init => DInv
<1> SUFFICES ASSUME Init PROVE DInv
  OBVIOUS
<1>1. \A S : <<>> \in Seq(S)
  OBVIOUS
<1>2. event_queue = <<>> /\ timer_queue = <<>> /\ ~ExitRuns /\ exit_event
  BY DEF Init, ExitRuns
<1>3. ClockRead(bg) /\ \A b \in BgThreads : bg[b].pc # "idle" => bg[b].cb \in Callbacks
  BY DEF Init, ClockRead, IdleBg
<1>4. NotYet /\ ~ExitSeen /\ LastOne
  BY <1>1, <1>2 DEF NotYet, ExitSeen, LastOne
<1> QED
  BY <1>1, <1>2, <1>3, <1>4 DEF Init, DInv

\* The invariant of the exit is inductive.
LEMMA NextDInv == MaxSerial > 0 /\ LInv /\ IInv' /\ DInv /\ [Next]_vars => DInv'
<1> SUFFICES ASSUME MaxSerial > 0, LInv, IInv', DInv, [Next]_vars PROVE DInv'
  OBVIOUS
<1> USE DEF LInv
<1>1. ASSUME NEW b \in BgThreads, BgStep(b) \/ \E cb \in Callbacks : BgStart(b, cb)
      PROVE  DInv'
  BY <1>1, BgKeepsDInv, PostsKeepDInv DEF BgStep
<1>2. CASE ExitEventLoop
  BY <1>2, ExitKeepsDInv
<1>3. CASE LoopStep
  <2>1. CASE CancelDone
    <3>1. UNCHANGED <<queues, current, bg, exit_event, ghosts>> /\ disp # "stopped"
      BY <2>1 DEF CancelDone
    <3> QED
      BY <3>1, StillDInv
  <2> QED
    BY <1>3, <2>1, CollectKeepsDInv, DispatchKeepsDInv, ReturnKeepsDInv,
       ExitHandlerKeepsDInv DEF LoopStep
<1>4. CASE ClientCall
  <2>1. ASSUME \/ \E cb \in Callbacks : CancelWait(cb)
               \/ CancelEventLoop
        PROVE  DInv'
    <3>1. UNCHANGED <<queues, current, bg, exit_event, ghosts>> /\ disp # "stopped"
      BY <2>1 DEF CancelWait, CancelEventLoop, InHandler
    <3> QED
      BY <3>1, StillDInv
  <2> QED
    BY <1>4, <2>1, PostsKeepDInv, CancelsKeepDInv DEF ClientCall
<1>5. CASE Tick
  BY <1>5, TickKeepsDInv
<1>6. CASE UNCHANGED vars
  <2>1. UNCHANGED <<queues, current, bg, exit_event, ghosts>> /\ disp' = disp
    BY <1>6 DEF vars, loop
  <2> QED
    BY <2>1, StillDInv
<1> QED
  BY <1>1, <1>2, <1>3, <1>4, <1>5, <1>6 DEF Next

\* exit_event_loop loses nothing: when the loop has stopped because of it, no
\* event of post_event that was queued before it is left, in event_queue or in
\* timer_queue.  exit_event_handler is collected together with all of them,
\* for they are due, and goes round until event_queue is empty.  (The theorem
\* is about runs in which posts are numbered.)
THEOREM ExitLosesNothing == MaxSerial > 0 => (Spec => []ExitDrainsImmediate)
<1>1. LInv /\ DInv => ExitDrainsImmediate
  <2> SUFFICES ASSUME LInv, DInv, disp = "stopped", owed[ExitHandler] = 0, ~exit_event,
                      NEW i \in DOMAIN pending, pending[i].imm
               PROVE  pending[i].serial > exit_serial
    BY DEF ExitDrainsImmediate
  <2>1. /\ timer_queue \in Seq(New(exit_serial)) /\ timer_queue \in Seq(Event)
        /\ ExitRuns \/ event_queue = <<>>
    BY DEF LInv, IInv, TypeOK, DInv, LastOne, OldGone
  <2>2. ~ExitRuns
    BY DEF LInv, NoneBetween, ExitRuns
  <2>3. pending = timer_queue
    BY <2>1, <2>2 DEF pending
  <2>4. i \in 1 .. Len(timer_queue)
    BY <2>1, <2>3, LenProperties
  <2>5. timer_queue[i] \in New(exit_serial)
    BY <2>1, <2>4, ElementOfSeq
  <2> QED
    BY <2>3, <2>5 DEF New
<1>2. ASSUME MaxSerial > 0 PROVE LInv /\ DInv /\ [Next]_vars => LInv' /\ DInv'
  BY <1>2, NextLInv, NextDInv DEF LInv
<1>3. ASSUME MaxSerial > 0 PROVE Spec => []ExitDrainsImmediate
  BY <1>1, <1>2, <1>3, InitLInv, InitDInv, PTL DEF Spec
<1> QED
  BY <1>3
=============================================================================
