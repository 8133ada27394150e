------------------------------- MODULE Cache -------------------------------
(***************************************************************************)
(* Asynchronous data caches (agent/tcf/framework/cache.c).                 *)
(*                                                                         *)
(* A cache client is a piece of code that is run from its start until it   *)
(* finds all the data it needs.  A miss throws it out, parks it on the     *)
(* wait list of the cache it missed, and cache_notify or                   *)
(* cache_notify_later runs it again.  Everything happens on the dispatch   *)
(* thread: what is concurrent is the order of the events, the caches that  *)
(* are filled meanwhile and the channels that close under a parked client. *)
(***************************************************************************)
EXTENDS Integers, Sequences, FiniteSets, FiniteSetsExt, SequencesExt

CONSTANTS
  Caches,      \* AbstractCache objects
  Channels,    \* channels on whose behalf clients run
  NoChannel,   \* the NULL channel of a client that serves the agent itself
  IdMod,       \* unsigned id_cnt wraps at IdMod (2^32)
  MaxEnter,    \* bound: calls of cache_enter
  MaxMiss      \* bound: misses a client may swallow in one run

ASSUME CacheAssumption ==
  /\ IdMod \in Nat /\ IdMod > 1
  /\ MaxEnter \in Nat /\ MaxMiss \in Nat
  /\ NoChannel \notin Channels

VARIABLES
  pc,              \* what runs: "idle", a client ("run"), or its code after
                   \* cache_exit ("tail")
  current_client,  \* the client of the open transaction, or NoClient
  current_cache,   \* the caches the running client missed last, at most one
  cache_miss_cnt,  \* misses of this run
  args_copy,       \* tickets whose copied arguments the run must free
  id_cnt,          \* next transaction id
  wait_list,       \* cache -> clients parked on it
  cache_list,      \* caches linked into the list of caches with waiters
  batch,           \* clients that cache_notify or cache_notify_event still
                   \* has to run; the first one is the one being run
  events,          \* posted calls of cache_notify_event, with their buffers
  timer_posted,    \* cache_timer_posted
  lock_cnt,        \* channel -> locks taken by this module
  closed,          \* channels whose owner has let go of them
  tickets,         \* history: number of cache_enter calls
  live_copies,     \* history: argument copies that are allocated
  commits          \* history: ticket -> CTLE_COMMIT events of its transaction

run    == <<pc, current_client, current_cache, cache_miss_cnt, args_copy>>
lists  == <<wait_list, cache_list, batch, events>>
chans  == <<lock_cnt, closed>>
vars   == <<run, id_cnt, lists, timer_posted, chans, tickets, live_copies, commits>>

Tickets == 1..MaxEnter

\* struct WaitingCacheClient.  has_args: args is not NULL; ticket tells two
\* transactions apart when their ids coincide.
Client == [ticket : Tickets, id : 0..IdMod - 1, channel : Channels \cup {NoChannel},
           has_args : BOOLEAN, args_copy : BOOLEAN]

NoClient == [ticket |-> 0, id |-> 0, channel |-> NoChannel, has_args |-> FALSE,
             args_copy |-> FALSE]

Init ==
  /\ pc = "idle" /\ current_client = NoClient /\ current_cache = {}
  /\ cache_miss_cnt = 0 /\ args_copy = {}
  /\ id_cnt = 0
  /\ wait_list = [k \in Caches |-> <<>>] /\ cache_list = {}
  /\ batch = <<>> /\ events = <<>>
  /\ timer_posted = FALSE
  /\ lock_cnt = [h \in Channels |-> 0] /\ closed = {}
  /\ tickets = 0 /\ live_copies = {} /\ commits = [t \in Tickets |-> 0]

-----------------------------------------------------------------------------
(* run_cache_client.                                                       *)

\* The part before the client is called.
StartRun(client) ==
  /\ pc' = "run"
  /\ current_client' = client
  /\ current_cache' = {} /\ cache_miss_cnt' = 0
  /\ args_copy' = IF client.args_copy THEN {client.ticket} ELSE {}

\* memset(&current_client, 0, ...) and the assignments that go with it.
ClearCurrent ==
  /\ current_client' = NoClient /\ current_cache' = {} /\ cache_miss_cnt' = 0

\* Fault: the lock of the retried client is not given back.
UnlockRetried_Forgotten(locks) == locks

\* channel_unlock_with_msg, which cache_notify and cache_notify_event call
\* after each client they have run again.
UnlockRetried(locks) ==
  IF batch # <<>> /\ Head(batch).channel # NoChannel
  THEN [locks EXCEPT ![Head(batch).channel] = @ - 1]
  ELSE locks

\* Fault: args_copy is not reset for a client that is parked again.
EndRun_FreesKept(locks, kept) ==
  /\ pc' = "idle"
  /\ live_copies' = (live_copies \cup kept) \ args_copy
  /\ args_copy' = {}
  /\ lock_cnt' = UnlockRetried(locks)
  /\ batch' = IF batch = <<>> THEN batch ELSE Tail(batch)

\* The run is over: free the copy, and drop the client from the batch.
EndRun(locks, kept) ==
  /\ pc' = "idle"
  /\ live_copies' = (live_copies \ (args_copy \ kept)) \cup kept
  /\ args_copy' = {}
  /\ lock_cnt' = UnlockRetried(locks)
  /\ batch' = IF batch = <<>> THEN batch ELSE Tail(batch)

\* channel_lock_with_msg for a client that is parked.
LockFor(client) ==
  IF client.channel = NoChannel THEN lock_cnt
  ELSE [lock_cnt EXCEPT ![client.channel] = @ + 1]

\* The id of the next transaction, skipping 0.
NewId == IF id_cnt = 0 THEN 1 ELSE id_cnt

\* id_cnt++
IdAfter(id) == (id + 1) % IdMod

\* cache_enter, with the first run of the client up to its code.
CacheEnter(h, has_args) ==
  /\ pc = "idle" /\ batch = <<>>
  /\ tickets < MaxEnter
  /\ h \notin closed
  /\ id_cnt' = IdAfter(NewId)
  /\ StartRun([ticket |-> tickets + 1, id |-> NewId, channel |-> h,
               has_args |-> has_args, args_copy |-> FALSE])
  /\ tickets' = tickets + 1
  /\ UNCHANGED <<lists, timer_posted, chans, live_copies, commits>>

\* cache_wait up to its exception.  The client's code may catch it and go on,
\* and then miss another cache.
CacheWait(k) ==
  /\ pc = "run" /\ cache_miss_cnt < MaxMiss
  /\ current_cache' = {k}
  /\ cache_miss_cnt' = cache_miss_cnt + 1
  /\ timer_posted' = TRUE
  /\ UNCHANGED <<pc, current_client, args_copy, id_cnt, lists, chans, tickets,
                 live_copies, commits>>

Commit == commits' = [commits EXCEPT ![current_client.ticket] = @ + 1]

\* Fault: the listeners are told CTLE_COMMIT.
Suspend_Commits ==
  /\ pc = "run" /\ cache_miss_cnt > 0 /\ current_cache # {}
  /\ LET k == CHOOSE k \in Caches : k \in current_cache
         client == [current_client EXCEPT !.args_copy = @ \/ current_client.has_args]
     IN  /\ wait_list' = [wait_list EXCEPT ![k] = Append(@, client)]
         /\ cache_list' = IF wait_list[k] = <<>> THEN cache_list \cup {k} ELSE cache_list
         /\ EndRun(LockFor(client), IF client.args_copy THEN {client.ticket} ELSE {})
  /\ Commit
  /\ ClearCurrent
  /\ UNCHANGED <<id_cnt, events, timer_posted, closed, tickets>>

\* The client is left by ERR_CACHE_MISS, thrown by cache_wait or again by
\* cache_exit: copy its arguments, park it, lock its channel (CTLE_ABORT).
Suspend ==
  /\ pc = "run" /\ cache_miss_cnt > 0 /\ current_cache # {}
  /\ LET k == CHOOSE k \in Caches : k \in current_cache
         client == [current_client EXCEPT !.args_copy = @ \/ current_client.has_args]
     IN  /\ wait_list' = [wait_list EXCEPT ![k] = Append(@, client)]
         /\ cache_list' = IF wait_list[k] = <<>> THEN cache_list \cup {k} ELSE cache_list
         /\ EndRun(LockFor(client), IF client.args_copy THEN {client.ticket} ELSE {})
  /\ ClearCurrent
  /\ UNCHANGED <<id_cnt, events, timer_posted, closed, tickets, commits>>

\* The client is left by another exception before cache_exit: it is dropped.
ClientFails ==
  /\ pc = "run"
  /\ Commit
  /\ ClearCurrent
  /\ EndRun(lock_cnt, {})
  /\ UNCHANGED <<id_cnt, wait_list, cache_list, events, timer_posted, closed, tickets>>

\* cache_exit with all data valid.
CacheExit ==
  /\ pc = "run" /\ cache_miss_cnt = 0
  /\ pc' = "tail"
  /\ Commit
  /\ ClearCurrent
  /\ UNCHANGED <<args_copy, id_cnt, lists, timer_posted, chans, tickets, live_copies>>

\* The client returns, or is left by an exception after cache_exit.
ClientReturns ==
  /\ pc = "tail"
  /\ EndRun(lock_cnt, {})
  /\ UNCHANGED <<current_client, current_cache, cache_miss_cnt, id_cnt, wait_list,
                 cache_list, events, timer_posted, closed, tickets, commits>>

-----------------------------------------------------------------------------
(* The side that fills the caches.                                         *)

\* Both notify functions return at once if nobody waits; else the cache is
\* unlinked and its list emptied before any client runs.
TakeWaiters(k) ==
  /\ wait_list[k] # <<>>
  /\ wait_list' = [wait_list EXCEPT ![k] = <<>>]
  /\ cache_list' = cache_list \ {k}

\* cache_notify.  Its only caller is an event handler (runctrl.c), so it does
\* not nest, which its static buffer would not survive.
CacheNotify(k) ==
  /\ pc = "idle" /\ batch = <<>>
  /\ TakeWaiters(k)
  /\ batch' = wait_list[k]
  /\ UNCHANGED <<run, id_cnt, events, timer_posted, chans, tickets, live_copies, commits>>

\* cache_notify_later, from any code, a client's too.
CacheNotifyLater(k) ==
  /\ TakeWaiters(k)
  /\ events' = Append(events, wait_list[k])
  /\ UNCHANGED <<run, id_cnt, batch, timer_posted, chans, tickets, live_copies, commits>>

\* Fault: the event is never posted.
CacheNotifyEvent_Lost == FALSE /\ UNCHANGED vars

\* The event queue calls cache_notify_event.
CacheNotifyEvent ==
  /\ pc = "idle" /\ batch = <<>> /\ events # <<>>
  /\ batch' = Head(events)
  /\ events' = Tail(events)
  /\ UNCHANGED <<run, id_cnt, wait_list, cache_list, timer_posted, chans, tickets,
                 live_copies, commits>>

\* The loop of either function calls run_cache_client(1).
Retry ==
  /\ pc = "idle" /\ batch # <<>>
  /\ StartRun(Head(batch))
  /\ UNCHANGED <<id_cnt, lists, timer_posted, chans, tickets, live_copies, commits>>

\* cache_timer, which reports stalled clients and keeps running while there
\* are any.
CacheTimer ==
  /\ pc = "idle" /\ batch = <<>> /\ timer_posted
  /\ timer_posted' = (cache_list # {})
  /\ UNCHANGED <<run, id_cnt, lists, chans, tickets, live_copies, commits>>

\* A channel closes: its owner gives up its own lock.  The channel lives on
\* until lock_cnt is 0.
ChannelClose(h) ==
  /\ pc = "idle" /\ batch = <<>>
  /\ h \notin closed
  /\ closed' = closed \cup {h}
  /\ UNCHANGED <<run, id_cnt, lists, timer_posted, lock_cnt, tickets, live_copies, commits>>

-----------------------------------------------------------------------------
ClientStep == Suspend \/ ClientFails \/ CacheExit \/ ClientReturns

Next ==
  \/ \E h \in Channels \cup {NoChannel}, a \in BOOLEAN : CacheEnter(h, a)
  \/ \E k \in Caches : CacheWait(k) \/ CacheNotify(k) \/ CacheNotifyLater(k)
  \/ ClientStep
  \/ Retry \/ CacheNotifyEvent
  \/ CacheTimer
  \/ \E h \in Channels : ChannelClose(h)

Spec == Init /\ [][Next]_vars

\* Clients end, the requests that fill the caches are answered, and the event
\* queue, which is first in first out, delivers what is posted whatever other
\* events come.
Fairness ==
  /\ WF_vars(ClientStep)
  /\ WF_vars(Retry)
  /\ SF_vars(CacheNotifyEvent)
  /\ \A k \in Caches : WF_vars(CacheNotifyLater(k))

FairSpec == Spec /\ Fairness

-----------------------------------------------------------------------------
(* Properties.                                                             *)

\* The clients on the batch b, on the wait lists w and on the posted lists e.
ClientsOn(b, w, e) == ToSet(b) \cup (UNION {ToSet(w[k]) : k \in Caches})
                      \cup (UNION {ToSet(e[i]) : i \in DOMAIN e})

\* The clients that wait, with those that a notification is about to run and
\* the one it is running.
Parked == ClientsOn(batch, wait_list, events)

NoRepeat(q) == \A i, j \in DOMAIN q : q[i].ticket = q[j].ticket => i = j
Apart(p, q) == \A i \in DOMAIN p, j \in DOMAIN q : p[i].ticket # q[j].ticket

\* No transaction is on two of the lists, or twice on one.
OnOneList(b, w, e) ==
  /\ NoRepeat(b)
  /\ \A k \in Caches : NoRepeat(w[k]) /\ Apart(b, w[k])
  /\ \A k, l \in Caches : k # l => Apart(w[k], w[l])
  /\ \A i \in DOMAIN e : NoRepeat(e[i]) /\ Apart(b, e[i])
  /\ \A i, j \in DOMAIN e : i # j => Apart(e[i], e[j])
  /\ \A k \in Caches, i \in DOMAIN e : Apart(w[k], e[i])

\* A client is parked once, however its caches are filled: it is never run
\* again by two notifications.
ParkedOnce == OnOneList(batch, wait_list, events)

\* cache.h: "The channel will be locked during periods of time when the
\* client waits for the cached data."  Every channel carries one lock per
\* parked client, whichever way the client came back or left.
LocksMatchWaiters ==
  \A h \in Channels : lock_cnt[h] = Cardinality({c \in Parked : c.channel = h})

\* The copied arguments of a client exist as long as it is parked or being
\* retried, and are freed when it ends: no leak, no early free.
ArgsOwned ==
  live_copies = {c.ticket : c \in {d \in Parked : d.args_copy}}

\* The listeners see CTLE_COMMIT at most once per transaction, and never for
\* one that still waits or runs: a retry is always a retry of an aborted run.
\* A transaction is open exactly while its client runs, with an id that is not
\* the 0 of "no transaction" (asserted by run_cache_client), also after id_cnt
\* has wrapped.
CommitOnce ==
  /\ (pc = "run") = (current_client.id # 0)
  /\ \A t \in Tickets : commits[t] <= 1
  /\ \A k \in Caches : \A i \in DOMAIN wait_list[k] : commits[wait_list[k][i].ticket] = 0
  /\ pc = "run" => commits[current_client.ticket] = 0

\* What a parked client holds, a lock on its channel and a copy of its arguments,
\* it holds exactly while it is parked, and it is parked in one place.
ClientsBalanced == ParkedOnce /\ LocksMatchWaiters /\ ArgsOwned

\* Every parked client is run again once its cache is filled, however often
\* other clients are parked on the same cache meanwhile.
WaitersRetried ==
  \A t \in Tickets :
    (\E k \in Caches : \E i \in DOMAIN wait_list[k] : wait_list[k][i].ticket = t)
      ~> (pc = "run" /\ current_client.ticket = t)
=============================================================================
