--------------------------- MODULE RunCtrlProofs ---------------------------
(***************************************************************************)
(* Proofs about run control and breakpoints: the counters that different   *)
(* services keep together are right, safe events run only when the threads *)
(* of their group stand still, and no breakpoint is missed or taken out    *)
(* under a thread that has hit it.                                         *)
(***************************************************************************)
EXTENDS RunCtrl, ProofLemmas

-----------------------------------------------------------------------------
(* Types, as far as the proofs need them.                                  *)

Event == [ev : {"safe", "sync", "replant"}, gen : Nat]

\* A safe event: about a group, and maybe for a thread of it.
Item == [grp : Procs, done : {"none"}]
        \cup {i \in [grp : Procs, done : {"terminate", "skip", "restore"}, arg : Threads] :
                i.grp = ProcOf[i.arg]}

ClientT == [client : {"replant", "memory"}, grp : Procs]

InstructionT == [exists : BOOLEAN, planted : BOOLEAN, valid : BOOLEAN,
                 ref : {"none", "stale", "live"}, loc : BOOLEAN, stepping : Int]

\* The fields of a thread and of the state that the invariant is about.
ThreadFields == {"linked", "stopped", "exited", "exiting", "cannot_stop", "safe_single_step",
                 "k", "pending_safe_event", "stop_group_mark", "stepping_over"}
StateFields == {"ctx", "list", "active", "lock", "pids", "queue", "waiting", "missed", "run",
                "pc", "sync", "cache_lock", "bi", "gen_posted", "gen_active", "gen_done",
                "enter_cnt", "evals_posted", "evals_active"}
SyncFields == {"todo", "flagged", "others", "err"}

ThreadShape(r) ==
  /\ "ctx" \in DOMAIN r /\ DOMAIN r.ctx = Threads
  /\ \A t \in Threads : ThreadFields \subseteq DOMAIN r.ctx[t]

Shape(r) ==
  /\ StateFields \subseteq DOMAIN r /\ ThreadShape(r)
  /\ r.list \in Seq(Item) /\ r.queue \in Seq(Event)
  /\ r.lock \in Int /\ r.pids \in Int
  /\ r.waiting \in Seq(ClientT) /\ r.missed \in Seq(ClientT) /\ r.run \in Seq(ClientT)
  /\ SyncFields \subseteq DOMAIN r.sync
  /\ r.sync.todo \in Seq(Threads) /\ r.sync.others \in Seq(Threads)
  /\ r.bi \in [Procs -> InstructionT]
  /\ r.gen_posted \in Nat /\ r.gen_active \in Nat /\ r.gen_done \in Nat
  /\ r.enter_cnt \in Int
  /\ r.evals_posted \in Seq(Procs) /\ r.evals_active \in Seq(Procs)

-----------------------------------------------------------------------------
(* The inductive invariant, on a state r.                                  *)

Waits(r) == {t \in Threads : r.ctx[t].pending_safe_event}

\* safe_event_pid_count, and who is waited for.
PendingOK(r) ==
  /\ r.pids = Cardinality(Waits(r))
  /\ \A t \in Waits(r) : r.ctx[t].linked /\ ~r.ctx[t].stopped /\ ~r.ctx[t].exited

\* A thread that runs although its group has to stop.
Moves(c) == c.stop_group_mark /\ ~c.stopped /\ ~c.exited /\ ~c.exiting /\ ~c.cannot_stop

\* While safe events run, groups are marked as a whole and their threads that
\* move are waited for.
LoopOK(r) ==
  /\ \A t \in Threads : r.ctx[t].stop_group_mark => r.ctx[t].linked
  /\ r.pc = "loop" =>
       /\ \A t \in Threads : Moves(r.ctx[t]) => t \in Waits(r)
       /\ \A t, u \in Threads :
            ProcOf[t] = ProcOf[u] /\ r.ctx[u].linked /\ r.ctx[t].stop_group_mark
              => r.ctx[u].stop_group_mark

\* sync_run_state meets every thread once, and stops it only once.
Once(q) == \A i, j \in DOMAIN q : q[i] = q[j] => i = j
SyncOK(r) ==
  /\ r.pc = "flag" => Waits(r) = {}
  /\ r.pc = "move" => /\ Once(r.sync.todo)
                      /\ \A i \in DOMAIN r.sync.todo :
                           r.ctx[r.sync.todo[i]].linked /\ r.sync.todo[i] \notin Waits(r)

Mem == {c \in ClientT : c.client = "memory"}
Replants == {c \in ClientT : c.client = "replant"}
Clients(r, T) == Cardinality(Places(r.run, T)) + Cardinality(Places(r.waiting, T))
                 + Cardinality(Places(r.missed, T))
One(b) == IF b THEN 1 ELSE 0

\* run_ctrl_lock_cnt, when the handler that runs holds n of it besides.
LockOK(r, n) == r.lock = Len(r.list) + One(r.cache_lock) + One(r.gen_posted # r.gen_done)
                         + Clients(r, Mem) + n

\* The events for rounds of replanting that are queued: in order, for requests
\* later than a and up to b.
QueueOK(q, a, b) ==
  /\ \A i \in DOMAIN q : q[i].ev = "replant" => a < q[i].gen /\ q[i].gen <= b
  /\ \A i, j \in DOMAIN q : i < j /\ q[i].ev = "replant" /\ q[j].ev = "replant"
                            => q[i].gen < q[j].gen

\* The numbers of the rounds of replanting.
GenBase(r) ==
  /\ r.gen_done <= r.gen_active /\ r.gen_active <= r.gen_posted
  /\ r.evals_posted = <<>> => r.gen_active = r.gen_posted
  /\ QueueOK(r.queue, r.gen_active, r.gen_posted)

\* The round of replanting, when n of its clients are in the hands of the handler.
GenOK(r, n) ==
  /\ GenBase(r)
  /\ r.enter_cnt = Clients(r, Replants) + n
  /\ r.enter_cnt > 0 => r.gen_done < r.gen_active

\* The clients of the round are for its requests.
Theirs(r) ==
  \A c \in Range(r.run) \cup Range(r.waiting) \cup Range(r.missed) :
    c.client = "replant" => c.grp \in Range(r.evals_active)

\* The safe events that go on with a thread on its way over a breakpoint.
Goes(t) == {i \in Item : i.done \in {"skip", "restore"} /\ i.arg = t}
Over(r, p) == {t \in ThreadsOf(p) : r.ctx[t].stepping_over}

\* X: the threads whose safe events are in the hands of the handler.
SteppingOK(r, X) ==
  /\ \A p \in Procs : r.bi[p].stepping = Cardinality(Over(r, p))
  /\ \A t \in Threads :
       Cardinality(Places(r.list, Goes(t))) + One(t \in X) = One(r.ctx[t].stepping_over)

\* A thread that may run into the breakpoint, and nobody stops it.
Loose(c) == /\ c.linked /\ ~c.stopped /\ ~c.exited /\ ~c.exiting /\ c.k = "run"
            /\ ~c.safe_single_step /\ ~c.cannot_stop

Trapped(c) == c.k = "trap" /\ ~c.cannot_stop

InstructionOK(r, p) ==
  LET b == r.bi[p]
  IN /\ b.planted => b.exists
     /\ b.stepping > 0 => b.exists
     /\ b.valid /\ b.ref = "live" => b.planted \/ b.stepping > 0 \/ ProcExited(r, p)
     /\ ~b.valid => r.gen_posted # r.gen_done
     /\ \A t \in ThreadsOf(p) : Loose(r.ctx[t]) => b.valid /\ (b.ref = "live" => b.planted)
     /\ \A t \in ThreadsOf(p) : Trapped(r.ctx[t]) => b.exists /\ b.planted

TrapOK(c) == c.k = "trap" => c.linked /\ ~c.stopped /\ ~c.exited /\ ~c.exiting

BreakOK(r) == /\ \A p \in Procs : InstructionOK(r, p)
              /\ \A t \in Threads : TrapOK(r.ctx[t])

\* Between the steps of the model.
RestOK(r) == ~r.active /\ (r.pc # "idle" => r.run = <<>>)

\* The handler that runs holds l of the lock, m clients of the round, and the
\* safe events of the threads in X.
Holding(r, l, m, X) ==
  /\ Shape(r) /\ PendingOK(r) /\ LoopOK(r) /\ SyncOK(r) /\ LockOK(r, l)
  /\ GenOK(r, m) /\ Theirs(r) /\ SteppingOK(r, X) /\ BreakOK(r)

Good(r) == Holding(r, 0, 0, {}) /\ RestOK(r)

RInv == Good(rc)

-----------------------------------------------------------------------------
(* What most primitives leave alone.                                       *)

\* The same thread, but for stopping and being waited for.  It may have died, or
\* have been found out to be exiting.
Kept(c, d) ==
  /\ (d.linked <=> c.linked) /\ (d.exited <=> c.exited)
  /\ (d.cannot_stop <=> c.cannot_stop) /\ (d.safe_single_step <=> c.safe_single_step)
  /\ (d.stop_group_mark <=> c.stop_group_mark) /\ (d.stepping_over <=> c.stepping_over)
  /\ d.k = c.k \/ d.k \in {"zombie", "gone"}
  /\ c.exiting => d.exiting
  /\ d.exiting => c.exiting \/ d.k # "trap"

Alike(c, d) == /\ Kept(c, d) /\ (d.stopped <=> c.stopped)
               /\ (d.pending_safe_event <=> c.pending_safe_event)

AllAlike(r, q) == \A t \in Threads : Alike(r.ctx[t], q.ctx[t])
ButFor(r, q, t) == \A x \in Threads \ {t} : Alike(r.ctx[x], q.ctx[x])

QueueKept(a, b) == b \in Seq(Event) /\ \A m, n \in Nat : QueueOK(a, m, n) => QueueOK(b, m, n)

SameClients(r, q) == q.run = r.run /\ q.waiting = r.waiting /\ q.missed = r.missed
SameCtl(r, q) == q.pc = r.pc /\ q.sync = r.sync /\ q.active = r.active
SameRound(r, q) ==
  /\ q.gen_active = r.gen_active /\ q.gen_done = r.gen_done
  /\ q.enter_cnt = r.enter_cnt /\ q.evals_active = r.evals_active

\* All but the threads, the lock and the requests for evaluation.
Same(r, q) ==
  /\ q.list = r.list /\ q.cache_lock = r.cache_lock /\ q.bi = r.bi
  /\ SameClients(r, q) /\ SameCtl(r, q) /\ SameRound(r, q)

\* All but the threads.
Around(r, q) ==
  /\ Shape(q) /\ Same(r, q) /\ QueueKept(r.queue, q.queue)
  /\ q.lock = r.lock /\ q.gen_posted = r.gen_posted /\ q.evals_posted = r.evals_posted

\* All but the threads, and evaluations may have been asked for.
Asks(r, q) ==
  /\ Shape(q) /\ Same(r, q) /\ GenBase(q)
  /\ q.lock - One(q.gen_posted # q.gen_done) = r.lock - One(r.gen_posted # r.gen_done)
  /\ r.gen_posted # r.gen_done => q.gen_posted # q.gen_done

Quiet(r, q) == Around(r, q) /\ q.pids = r.pids /\ AllAlike(r, q)
Mild(r, q) == Asks(r, q) /\ q.pids = r.pids /\ AllAlike(r, q)

-----------------------------------------------------------------------------
(* The queue of events.                                                    *)

\* The queue as it was.
LEMMA QueueSame == ASSUME NEW q \in Seq(Event) PROVE QueueKept(q, q)
BY DEF QueueKept

\* Two changes of the queue.
LEMMA QueueTwice ==
  ASSUME NEW a, NEW b, NEW c, QueueKept(a, b), QueueKept(b, c)
  PROVE  QueueKept(a, c)
BY DEF QueueKept

\* An event that does not start a round is posted.
LEMMA QueueAppend ==
  ASSUME NEW q \in Seq(Event), NEW e \in Event, e.ev # "replant"
  PROVE  QueueKept(q, Append(q, e))
<1>1. Append(q, e) \in Seq(Event)
  BY AppendProperties
<1>2. ASSUME NEW m \in Nat, NEW n \in Nat, QueueOK(q, m, n)
      PROVE  QueueOK(Append(q, e), m, n)
  <2> DEFINE r == Append(q, e)
  <2>1. /\ Len(q) \in Nat /\ DOMAIN q = 1 .. Len(q) /\ DOMAIN r = 1 .. Len(q) + 1
        /\ \A i \in DOMAIN q : r[i] = q[i]
        /\ r[Len(q) + 1] = e
    BY AppendPlaces
  <2> HIDE DEF r
  <2>2. \A i \in DOMAIN r : r[i].ev = "replant" => i \in DOMAIN q /\ r[i] = q[i]
    BY <2>1
  <2> QED
    BY <1>2, <2>2 DEF QueueOK, r
<1> QED
  BY <1>1, <1>2 DEF QueueKept

\* The first event is taken.
LEMMA QueueTail ==
  ASSUME NEW q \in Seq(Event), q # <<>>
  PROVE  QueueKept(q, Tail(q))
<1>1. Tail(q) \in Seq(Event)
  BY HeadTailProperties
<1>2. ASSUME NEW m \in Nat, NEW n \in Nat, QueueOK(q, m, n)
      PROVE  QueueOK(Tail(q), m, n)
  <2> DEFINE r == Tail(q)
  <2>1. /\ Len(q) \in Nat \ {0} /\ DOMAIN q = 1 .. Len(q) /\ DOMAIN r = 1 .. Len(q) - 1
        /\ \A i \in DOMAIN r : r[i] = q[i + 1]
    BY TailPlaces
  <2> HIDE DEF r
  <2>2. \A i \in DOMAIN r : i + 1 \in DOMAIN q /\ r[i] = q[i + 1]
    BY <2>1
  <2>3. \A i, j \in DOMAIN r : i < j => i + 1 < j + 1
    BY <2>1
  <2> QED
    BY <1>2, <2>2, <2>3 DEF QueueOK, r
<1> QED
  BY <1>1, <1>2 DEF QueueKept

-----------------------------------------------------------------------------
(* Relations between states.                                               *)

\* A state is like itself.
LEMMA QuietSame == ASSUME NEW r, Shape(r) PROVE Quiet(r, r)
BY QueueSame DEF Quiet, Around, Same, SameClients, SameCtl, SameRound, AllAlike, Alike, Kept,
                 Shape

\* Two changes of a thread.
LEMMA KeptTwice ==
  ASSUME NEW c, NEW d, NEW e, Kept(c, d), Kept(d, e)
  PROVE  Kept(c, e)
BY DEF Kept

\* Two changes of a thread.
LEMMA AlikeTwice ==
  ASSUME NEW c, NEW d, NEW e, Alike(c, d), Alike(d, e)
  PROVE  Alike(c, e)
BY KeptTwice DEF Alike

\* Two changes around the threads.
LEMMA SameTwice ==
  ASSUME NEW r, NEW s, NEW q, Same(r, s), Same(s, q)
  PROVE  Same(r, q)
BY DEF Same, SameClients, SameCtl, SameRound

\* Two changes around the threads.
LEMMA AroundTwice ==
  ASSUME NEW r, NEW s, NEW q, Around(r, s), Around(s, q)
  PROVE  Around(r, q)
BY SameTwice, QueueTwice DEF Around

\* Two quiet changes.
LEMMA QuietTwice ==
  ASSUME NEW r, NEW s, NEW q, Quiet(r, s), Quiet(s, q)
  PROVE  Quiet(r, q)
BY AroundTwice, AlikeTwice DEF Quiet, AllAlike

\* Two changes with requests.
LEMMA AsksTwice ==
  ASSUME NEW r, Shape(r), NEW s, NEW q, Asks(r, s), Asks(s, q)
  PROVE  Asks(r, q)
<1>1. Same(r, q)
  BY SameTwice DEF Asks
<1>2. r.lock \in Int /\ s.lock \in Int /\ q.lock \in Int
  BY DEF Asks, Shape
<1> QED
  BY <1>1, <1>2 DEF Asks, One

\* A quiet change is mild.
LEMMA AroundAsks ==
  ASSUME NEW r, Shape(r), GenBase(r), NEW q, Around(r, q)
  PROVE  Asks(r, q)
<1>1. q.gen_posted = r.gen_posted /\ q.gen_active = r.gen_active /\ q.gen_done = r.gen_done
      /\ q.evals_posted = r.evals_posted /\ q.lock = r.lock
  BY DEF Around, Same, SameRound
<1>2. r.gen_active \in Nat /\ r.gen_posted \in Nat
  BY DEF Shape
<1>3. GenBase(q)
  BY <1>1, <1>2 DEF GenBase, Around, QueueKept
<1> QED
  BY <1>1, <1>3 DEF Asks, Around

\* A quiet change is mild.
LEMMA QuietMild ==
  ASSUME NEW r, Shape(r), GenBase(r), NEW q, Quiet(r, q)
  PROVE  Mild(r, q)
BY AroundAsks DEF Quiet, Mild

\* Two mild changes.
LEMMA MildTwice ==
  ASSUME NEW r, Shape(r), NEW s, NEW q, Mild(r, s), Mild(s, q)
  PROVE  Mild(r, q)
BY AsksTwice, AlikeTwice DEF Mild, AllAlike

-----------------------------------------------------------------------------
(* Primitives.                                                             *)

\* A field that is not looked at changes.
LEMMA Aside ==
  ASSUME NEW r, Shape(r), NEW f, f \notin StateFields, NEW v
  PROVE  Quiet(r, [r EXCEPT ![f] = v])
<1> DEFINE q == [r EXCEPT ![f] = v]
<1>1. DOMAIN q = DOMAIN r /\ \A g \in StateFields : q[g] = r[g]
  BY DEF Shape
<1> HIDE DEF q
<1>2. StateFields \subseteq DOMAIN q /\ QueueKept(r.queue, q.queue)
  BY <1>1, QueueSame DEF Shape, StateFields
<1>3. Quiet(r, q)
  BY <1>1, <1>2 DEF StateFields, Quiet, Around, Shape, ThreadShape, Same, SameClients,
                    SameCtl, SameRound, AllAlike, Alike, Kept
<1> QED
  BY <1>3 DEF q

\* The threads change.
LEMMA NewThreads ==
  ASSUME NEW r, Shape(r), NEW C, DOMAIN C = Threads,
         \A t \in Threads : ThreadFields \subseteq DOMAIN C[t]
  PROVE  LET q == [r EXCEPT !.ctx = C]
         IN  Around(r, q) /\ q.pids = r.pids /\ q.ctx = C
<1> DEFINE q == [r EXCEPT !.ctx = C]
<1>1. DOMAIN q = DOMAIN r /\ q.ctx = C /\ \A g \in StateFields \ {"ctx"} : q[g] = r[g]
  BY DEF Shape, StateFields
<1> HIDE DEF q
<1>2. QueueKept(r.queue, q.queue)
  BY <1>1, QueueSame DEF Shape, StateFields
<1>3. Shape(q)
  BY <1>1 DEF StateFields, Shape, ThreadShape
<1>4. Around(r, q) /\ q.pids = r.pids
  BY <1>1, <1>2, <1>3 DEF StateFields, Around, Same, SameClients, SameCtl, SameRound
<1> QED
  BY <1>1, <1>4 DEF q

\* safe_event_pid_count changes.
LEMMA NewPids ==
  ASSUME NEW r, Shape(r), NEW n \in Int
  PROVE  LET q == [r EXCEPT !.pids = n]
         IN  Around(r, q) /\ q.pids = n /\ q.ctx = r.ctx
<1> DEFINE q == [r EXCEPT !.pids = n]
<1>1. DOMAIN q = DOMAIN r /\ q.pids = n /\ \A g \in StateFields \ {"pids"} : q[g] = r[g]
  BY DEF Shape, StateFields
<1> HIDE DEF q
<1>2. QueueKept(r.queue, q.queue)
  BY <1>1, QueueSame DEF Shape, StateFields
<1>3. Around(r, q) /\ q.ctx = r.ctx
  BY <1>1, <1>2 DEF StateFields, Around, Shape, ThreadShape, Same, SameClients, SameCtl,
                    SameRound
<1> QED
  BY <1>1, <1>3 DEF q

\* A thread gets another record.
LEMMA NewThreadRecord ==
  ASSUME NEW r, Shape(r), NEW t \in Threads, NEW d, ThreadFields \subseteq DOMAIN d
  PROVE  LET q == [r EXCEPT !.ctx[t] = d]
         IN  /\ Around(r, q) /\ q.pids = r.pids /\ q.ctx[t] = d /\ ButFor(r, q, t)
             /\ \A x \in Threads \ {t} : q.ctx[x] = r.ctx[x]
<1> DEFINE C == [r.ctx EXCEPT ![t] = d]
           q == [r EXCEPT !.ctx = C]
<1>1. /\ DOMAIN C = Threads /\ C[t] = d /\ \A x \in Threads \ {t} : C[x] = r.ctx[x]
      /\ \A x \in Threads : ThreadFields \subseteq DOMAIN C[x]
  BY DEF Shape, ThreadShape
<1> HIDE DEF C
<1>2. Around(r, q) /\ q.pids = r.pids /\ q.ctx = C
  BY <1>1, NewThreads
<1> HIDE DEF q
<1>3. ButFor(r, q, t)
  BY <1>1, <1>2 DEF ButFor, Alike, Kept
<1> QED
  BY <1>1, <1>2, <1>3 DEF q, C

\* An event of run control is posted.
LEMMA PostQuiet ==
  ASSUME NEW r, Shape(r), NEW e \in {"safe", "sync"}, NEW g \in Nat
  PROVE  Quiet(r, Post(r, e, g))
<1> DEFINE x == [ev |-> e, gen |-> g]
           u == Append(r.queue, x)
           q == [r EXCEPT !.queue = u]
<1>1. x \in Event /\ x.ev # "replant"
  BY DEF Event
<1> HIDE DEF x
<1>2. QueueKept(r.queue, u) /\ u \in Seq(Event)
  BY <1>1, QueueAppend DEF Shape, QueueKept
<1> HIDE DEF u
<1>3. Quiet(r, q)
  BY <1>2 DEF Quiet, Shape, ThreadShape, Around, Same, SameRound, SameClients, SameCtl,
              StateFields, AllAlike, Alike, Kept
<1> QED
  BY <1>3 DEF Post, q, u, x

\* A field of a thread that is not looked at changes.
LEMMA ThreadAside ==
  ASSUME NEW r, Shape(r), NEW t \in Threads, NEW f, f \notin ThreadFields, NEW v
  PROVE  Quiet(r, [r EXCEPT !.ctx[t][f] = v])
<1> DEFINE d == [r.ctx[t] EXCEPT ![f] = v]
           q == [r EXCEPT !.ctx[t] = d]
<1>1. DOMAIN d = DOMAIN r.ctx[t] /\ \A g \in ThreadFields : d[g] = r.ctx[t][g]
  BY DEF Shape, ThreadShape
<1>2. ThreadFields \subseteq DOMAIN d
  BY <1>1 DEF Shape, ThreadShape
<1> HIDE DEF d
<1>3. Around(r, q) /\ q.pids = r.pids /\ q.ctx[t] = d /\ ButFor(r, q, t)
  BY <1>2, NewThreadRecord
<1> HIDE DEF q
<1>4. Alike(r.ctx[t], d)
  BY <1>1 DEF Alike, Kept, ThreadFields
<1>5. Quiet(r, q)
  BY <1>3, <1>4 DEF Quiet, AllAlike, ButFor
<1>6. q = [r EXCEPT !.ctx[t][f] = v]
  BY DEF q, d
<1> QED
  BY <1>5, <1>6

\* context_stop
LEMMA ContextStop ==
  ASSUME NEW r, Shape(r), NEW t \in Threads
  PROVE  Quiet(r, context_stop(r, t))
<1> DEFINE c == r.ctx[t]
           d == [c EXCEPT !.exiting = TRUE]
           slow == c.stop_cnt >= StopTries
           n == (IF slow THEN 0 ELSE c.stop_cnt) + 1
           a == [r EXCEPT !.ctx[t] = d]
           s == [r EXCEPT !.ctx[t].sigstop_posted = TRUE]
           b == [s EXCEPT !.ctx[t].stop_cnt = n]
<1>1. context_stop(r, t) = a \/ context_stop(r, t) = b
  BY DEF context_stop
<1>2. CASE context_stop(r, t) = b
  <2>1. "sigstop_posted" \notin ThreadFields /\ "stop_cnt" \notin ThreadFields
    BY DEF ThreadFields
  <2>2. Quiet(r, s)
    BY <2>1, ThreadAside
  <2> HIDE DEF s
  <2>3. Quiet(s, b)
    <3>1. Shape(s)
      BY <2>2 DEF Quiet, Around
    <3> HIDE DEF n
    <3> QED
      BY <2>1, <3>1, ThreadAside
  <2> HIDE DEF b
  <2> QED
    BY <1>2, <2>2, <2>3, QuietTwice
<1>3. CASE c.k \in {"zombie", "gone"} /\ context_stop(r, t) = a
  <2>1. /\ ThreadFields \subseteq DOMAIN d /\ d.exiting /\ d.k = c.k
        /\ \A g \in ThreadFields \ {"exiting"} : d[g] = c[g]
    BY DEF Shape, ThreadShape, ThreadFields
  <2> HIDE DEF d
  <2>2. Around(r, a) /\ a.pids = r.pids /\ a.ctx[t] = d /\ ButFor(r, a, t)
    BY <2>1, NewThreadRecord
  <2> HIDE DEF a
  <2>3. Alike(c, d)
    BY <1>3, <2>1 DEF Alike, Kept, ThreadFields
  <2> QED
    BY <1>3, <2>2, <2>3 DEF Quiet, AllAlike, ButFor
<1> QED
  BY <1>1, <1>2, <1>3 DEF context_stop

\* An event that runs safe events is posted.
LEMMA PostSafeQuiet == ASSUME NEW r, Shape(r) PROVE Quiet(r, PostSafe(r))
<1> DEFINE s == Post(r, "safe", 0)
<1>1. Quiet(r, s)
  BY PostQuiet
<1>2. Shape(s)
  BY <1>1 DEF Quiet, Around
<1> HIDE DEF s
<1>3. "posted" \notin StateFields
  BY DEF StateFields
<1>4. Quiet(s, [s EXCEPT !.posted = @ + 1])
  BY <1>2, <1>3, Aside
<1>5. PostSafe(r) = [s EXCEPT !.posted = @ + 1]
  BY DEF PostSafe, s
<1> QED
  BY <1>1, <1>4, <1>5, QuietTwice

\* The same, when there are not many of them.
LEMMA PostLazilyQuiet == ASSUME NEW r, Shape(r) PROVE Quiet(r, PostSafeLazily(r))
BY PostSafeQuiet, QuietSame DEF PostSafeLazily

\* resume_context_tree
LEMMA ResumeTree ==
  ASSUME NEW r, Shape(r), NEW t \in Threads
  PROVE  Quiet(r, resume_context_tree(r, t))
<1> DEFINE C == [x \in Threads |-> IF x \in InterceptGroup(t)
                                   THEN [r.ctx[x] EXCEPT !.intercepted = FALSE] ELSE r.ctx[x]]
           q == [r EXCEPT !.ctx = C]
<1>1. ASSUME NEW x \in Threads
      PROVE  ThreadFields \subseteq DOMAIN C[x] /\ Alike(r.ctx[x], C[x])
  <2>1. \A g \in ThreadFields : C[x][g] = r.ctx[x][g]
    BY DEF Shape, ThreadShape, ThreadFields
  <2>2. ThreadFields \subseteq DOMAIN C[x]
    BY DEF Shape, ThreadShape
  <2> QED
    BY <2>1, <2>2 DEF Alike, Kept, ThreadFields
<1>2. DOMAIN C = Threads
  OBVIOUS
<1> HIDE DEF C
<1>3. Around(r, q) /\ q.pids = r.pids /\ q.ctx = C
  BY <1>1, <1>2, NewThreads
<1>4. resume_context_tree(r, t) = r \/ resume_context_tree(r, t) = PostSafeLazily(q)
  BY DEF resume_context_tree, C
<1> HIDE DEF q
<1>5. Quiet(r, q) /\ Shape(q)
  BY <1>1, <1>3 DEF Quiet, AllAlike, Around
<1>6. Quiet(r, PostSafeLazily(q))
  BY <1>5, PostLazilyQuiet, QuietTwice
<1> QED
  BY <1>4, <1>6, QuietSame

\* suspend_debug_context
LEMMA SuspendQuiet ==
  ASSUME NEW r, Shape(r), NEW t \in Threads
  PROVE  Quiet(r, suspend_debug_context(r, t))
<1> DEFINE q == [r EXCEPT !.ctx[t].pending_intercept = TRUE]
<1>1. "pending_intercept" \notin ThreadFields
  BY DEF ThreadFields
<1>2. Quiet(r, q)
  BY <1>1, ThreadAside
<1>3. suspend_debug_context(r, t) \in {r, q, PostSafeLazily(q), context_stop(q, t)}
  BY DEF suspend_debug_context
<1> HIDE DEF q
<1>4. Shape(q)
  BY <1>2 DEF Quiet, Around
<1>5. Quiet(r, PostSafeLazily(q)) /\ Quiet(r, context_stop(q, t))
  BY <1>2, <1>4, PostLazilyQuiet, ContextStop, QuietTwice
<1> QED
  BY <1>2, <1>3, <1>5, QuietSame

\* check_safe_events
LEMMA CheckSafeEvents ==
  ASSUME NEW r, Shape(r), NEW t \in Threads
  PROVE  LET q == check_safe_events(r, t)
             c == r.ctx[t]
             d == q.ctx[t]
         IN  /\ Around(r, q) /\ ButFor(r, q, t) /\ Kept(c, d) /\ (d.stopped <=> c.stopped)
             /\ ~d.pending_safe_event /\ q.pids = r.pids - One(c.pending_safe_event)
<1> DEFINE c == r.ctx[t]
           d == [c EXCEPT !.pending_safe_event = FALSE]
           s == [r EXCEPT !.ctx[t] = d]
           n == r.pids - 1
           u == [s EXCEPT !.pids = n]
           q == check_safe_events(r, t)
<1>1. CASE ~c.pending_safe_event
  <2>1. q = r
    BY <1>1 DEF check_safe_events
  <2>2. r.pids = r.pids - 0 /\ One(c.pending_safe_event) = 0
    BY <1>1 DEF Shape, One
  <2> QED
    BY <1>1, <2>1, <2>2, QuietSame DEF Quiet, AllAlike, ButFor, Alike
<1>2. CASE c.pending_safe_event
  <2>1. q = u \/ q = PostSafe(u)
    BY <1>2 DEF check_safe_events
  <2>2. /\ ThreadFields \subseteq DOMAIN d /\ ~d.pending_safe_event
        /\ \A g \in ThreadFields \ {"pending_safe_event"} : d[g] = c[g]
    BY DEF Shape, ThreadShape, ThreadFields
  <2> HIDE DEF d
  <2>3. Around(r, s) /\ s.pids = r.pids /\ s.ctx[t] = d /\ ButFor(r, s, t)
    BY <2>2, NewThreadRecord
  <2>4. n \in Int
    BY DEF Shape
  <2> HIDE DEF s, n
  <2>5. Around(s, u) /\ u.pids = n /\ u.ctx = s.ctx
    BY <2>3, <2>4, NewPids DEF Around
  <2> HIDE DEF u
  <2>6. Around(r, u) /\ ButFor(r, u, t) /\ u.ctx[t] = d /\ Shape(u)
    BY <2>3, <2>5, AroundTwice DEF ButFor, Around
  <2>7. Quiet(u, q)
    BY <2>1, <2>6, QuietSame, PostSafeQuiet
  <2>8. Around(r, q) /\ ButFor(r, q, t) /\ Alike(d, q.ctx[t]) /\ q.pids = n
    BY <2>5, <2>6, <2>7, AroundTwice, AlikeTwice DEF Quiet, AllAlike, ButFor
  <2>9. Kept(c, d) /\ (d.stopped <=> c.stopped)
    BY <2>2 DEF Kept, ThreadFields
  <2>10. n = r.pids - One(c.pending_safe_event)
    BY <1>2 DEF One, n
  <2> QED
    BY <2>2, <2>8, <2>9, <2>10, KeptTwice DEF Alike
<1> QED
  BY <1>1, <1>2

\* A thread was started; while safe events run it is waited for if its group
\* has to stop.
Released(r, q, t) ==
  LET c == r.ctx[t]
      d == q.ctx[t]
  IN /\ Around(r, q) /\ ButFor(r, q, t) /\ Kept(c, d) /\ ~d.stopped
     /\ c.pending_safe_event => d.pending_safe_event
     /\ ~r.active => (d.pending_safe_event => c.pending_safe_event)
     /\ d.pending_safe_event => c.pending_safe_event \/ c.stop_group_mark
     /\ r.active /\ c.stop_group_mark => d.exiting \/ d.pending_safe_event
     /\ q.pids = r.pids + One(d.pending_safe_event /\ ~c.pending_safe_event)

\* stop_if_safe_events, for a thread that is not stopped any more.
LEMMA StopIfSafe ==
  ASSUME NEW r, Shape(r), NEW t \in Threads, ~r.ctx[t].stopped
  PROVE  Released(r, stop_if_safe_events(r, t), t)
<1> DEFINE c == r.ctx[t]
           v == stop_if_safe_events(r, t)
           q == IF c.safe_single_step THEN r ELSE context_stop(r, t)
           d == [q.ctx[t] EXCEPT !.pending_safe_event = TRUE]
           n == q.pids + 1
           s == [q EXCEPT !.ctx[t] = d]
           u == [s EXCEPT !.pids = n]
<1>1. r.pids \in Int /\ r.pids + 0 = r.pids
  BY DEF Shape
<1>2. CASE ~r.active \/ ~c.stop_group_mark \/ c.exiting
  <2>1. v = r
    BY <1>2 DEF stop_if_safe_events
  <2>2. Around(r, r) /\ ButFor(r, r, t) /\ Kept(c, c)
    BY QuietSame DEF Quiet, AllAlike, ButFor, Alike
  <2> QED
    BY <1>1, <1>2, <2>1, <2>2 DEF Released, One
<1>3. CASE ~(~r.active \/ ~c.stop_group_mark \/ c.exiting)
  <2>1. Quiet(r, q)
    BY ContextStop, QuietSame
  <2>2. v = IF c.pending_safe_event THEN q ELSE u
    BY <1>3 DEF stop_if_safe_events
  <2> HIDE DEF q
  <2>3. Shape(q) /\ q.pids = r.pids /\ Alike(c, q.ctx[t]) /\ ButFor(r, q, t) /\ Around(r, q)
    BY <2>1 DEF Quiet, Around, AllAlike, ButFor
  <2>4. CASE c.pending_safe_event
    <3>1. v = q
      BY <2>2, <2>4
    <3> QED
      BY <1>1, <2>3, <2>4, <3>1 DEF Released, One, Alike
  <2>5. CASE ~c.pending_safe_event
    <3>1. /\ ThreadFields \subseteq DOMAIN d /\ d.pending_safe_event
          /\ \A g \in ThreadFields \ {"pending_safe_event"} : d[g] = q.ctx[t][g]
      BY <2>3 DEF Shape, ThreadShape, ThreadFields
    <3> HIDE DEF d
    <3>2. Around(q, s) /\ s.pids = q.pids /\ s.ctx[t] = d /\ ButFor(q, s, t)
      BY <2>3, <3>1, NewThreadRecord
    <3>3. n \in Int /\ n = r.pids + 1
      BY <1>1, <2>3
    <3> HIDE DEF s, n
    <3>4. Around(s, u) /\ u.pids = n /\ u.ctx = s.ctx
      BY <3>2, <3>3, NewPids DEF Around
    <3> HIDE DEF u
    <3>5. Around(r, u) /\ ButFor(r, u, t) /\ u.ctx[t] = d
      BY <2>3, <3>2, <3>4, AroundTwice, AlikeTwice DEF ButFor
    <3>6. Kept(q.ctx[t], d) /\ ~d.stopped
      BY <2>3, <3>1 DEF Kept, Alike, ThreadFields
    <3>7. Kept(c, d)
      BY <2>3, <3>6, KeptTwice DEF Alike
    <3>8. v = u
      BY <2>2, <2>5
    <3> QED
      BY <1>3, <2>5, <3>1, <3>3, <3>4, <3>5, <3>6, <3>7, <3>8 DEF Released, One
  <2> QED
    BY <2>4, <2>5
<1> QED
  BY <1>2, <1>3

\* A quiet change, then a thread is started.
LEMMA QuietReleased ==
  ASSUME NEW r, Shape(r), NEW s, NEW q, NEW t \in Threads, Quiet(r, s), Released(s, q, t)
  PROVE  Released(r, q, t)
<1>1. Around(r, q) /\ ButFor(r, q, t) /\ Kept(r.ctx[t], q.ctx[t])
  BY AroundTwice, AlikeTwice, KeptTwice DEF Quiet, AllAlike, ButFor, Released, Alike
<1>2. s.active = r.active /\ s.pids = r.pids /\ Alike(r.ctx[t], s.ctx[t])
  BY DEF Quiet, Around, Same, SameCtl, AllAlike
<1> QED
  BY <1>1, <1>2 DEF Released, Alike, Kept, One

\* send_context_started_event
LEMMA ContextStarted ==
  ASSUME NEW r, Shape(r), NEW t \in Threads
  PROVE  Released(r, send_context_started_event(r, t), t)
<1> DEFINE c == r.ctx[t]
           d == [c EXCEPT !.stopped = FALSE]
           s == [r EXCEPT !.ctx[t] = d]
           u == [s EXCEPT !.ctx[t].stopped_by_bp = FALSE]
           w == [u EXCEPT !.ctx[t].stopped_by_exception = FALSE]
           x == resume_context_tree(w, t)
           q == stop_if_safe_events(x, t)
<1>1. send_context_started_event(r, t) = q
  BY Zenon DEF send_context_started_event, Strict
<1>2. /\ ThreadFields \subseteq DOMAIN d /\ ~d.stopped
      /\ \A g \in ThreadFields \ {"stopped"} : d[g] = c[g]
  BY DEF Shape, ThreadShape, ThreadFields
<1> HIDE DEF d
<1>3. Around(r, s) /\ s.pids = r.pids /\ s.ctx[t] = d /\ ButFor(r, s, t)
  BY <1>2, NewThreadRecord
<1> HIDE DEF s
<1>4. "stopped_by_bp" \notin ThreadFields /\ "stopped_by_exception" \notin ThreadFields
  BY DEF ThreadFields
<1>5. Shape(s)
  BY <1>3 DEF Around
<1>6. Quiet(s, u)
  BY <1>4, <1>5, ThreadAside
<1> HIDE DEF u
<1>7. Quiet(u, w)
  BY <1>4, <1>6, ThreadAside DEF Quiet, Around
<1> HIDE DEF w
<1>8. Quiet(w, x)
  BY <1>7, ResumeTree DEF Quiet, Around
<1> HIDE DEF x
<1>9. Quiet(s, x) /\ Shape(x)
  BY <1>6, <1>7, <1>8, QuietTwice DEF Quiet, Around
<1>10. Released(x, q, t)
  <2>1. ~x.ctx[t].stopped
    BY <1>2, <1>3, <1>9 DEF Quiet, AllAlike, Alike
  <2> QED
    BY <1>9, <2>1, StopIfSafe
<1> HIDE DEF q
<1>11. Released(s, q, t)
  BY <1>5, <1>9, <1>10, QuietReleased
<1>12. Kept(c, d) /\ (d.pending_safe_event <=> c.pending_safe_event)
  BY <1>2 DEF Kept, ThreadFields
<1>13. Around(r, q) /\ ButFor(r, q, t) /\ Kept(c, q.ctx[t])
  BY <1>3, <1>11, <1>12, AroundTwice, AlikeTwice, KeptTwice DEF Released, ButFor
<1>14. s.active = r.active
  BY <1>3 DEF Around, Same, SameCtl
<1>15. Released(r, q, t)
  BY <1>3, <1>11, <1>12, <1>13, <1>14 DEF Released, Kept
<1> QED
  BY <1>1, <1>15

\* PTRACE_SINGLESTEP and PTRACE_CONT
LEMMA PtraceReleases ==
  ASSUME NEW r, Shape(r), NEW t \in Threads, NEW step
  PROVE  Released(r, Ptrace(r, t, step), t)
<1> DEFINE c == r.ctx[t]
           d == [c EXCEPT !.exiting = TRUE]
           a == [r EXCEPT !.ctx[t] = d]
           b == [r EXCEPT !.ctx[t].pending_step = step]
           s == IF c.k \in {"zombie", "gone"} THEN a ELSE b
<1>1. Ptrace(r, t, step) = send_context_started_event(s, t)
  BY DEF Ptrace
<1>2. Quiet(r, b)
  <2>1. "pending_step" \notin ThreadFields
    BY DEF ThreadFields
  <2> QED
    BY <2>1, ThreadAside
<1> HIDE DEF b
<1>3. ASSUME c.k \in {"zombie", "gone"} PROVE Quiet(r, a)
  <2>1. /\ ThreadFields \subseteq DOMAIN d /\ d.exiting
        /\ \A g \in ThreadFields \ {"exiting"} : d[g] = c[g]
    BY DEF Shape, ThreadShape, ThreadFields
  <2> HIDE DEF d
  <2>2. Around(r, a) /\ a.pids = r.pids /\ a.ctx[t] = d /\ ButFor(r, a, t)
    BY <2>1, NewThreadRecord
  <2> HIDE DEF a
  <2>3. Alike(c, d)
    BY <1>3, <2>1 DEF Alike, Kept, ThreadFields
  <2> QED
    BY <2>2, <2>3 DEF Quiet, AllAlike, ButFor
<1> HIDE DEF a
<1>4. Quiet(r, s)
  BY <1>2, <1>3
<1> HIDE DEF s
<1>5. Released(s, send_context_started_event(s, t), t)
  BY <1>4, ContextStarted DEF Quiet, Around
<1> QED
  BY <1>1, <1>4, <1>5, QuietReleased

\* PTRACE_CONT with SIGKILL
LEMMA KillReleases ==
  ASSUME NEW r, Shape(r), NEW t \in Threads, TrapOK(r.ctx[t])
  PROVE  Released(r, PtraceKill(r, t), t)
<1> DEFINE C == [x \in Threads |->
                   IF ProcOf[x] = ProcOf[t] /\ Alive(r.ctx[x])
                   THEN [r.ctx[x] EXCEPT !.k = "zombie"] ELSE r.ctx[x]]
           a == [r EXCEPT !.ctx = C]
           s == IF r.ctx[t].k \in {"zombie", "gone"} THEN r ELSE a
           d == [s.ctx[t] EXCEPT !.exiting = TRUE]
           u == [s EXCEPT !.ctx[t] = d]
<1>1. PtraceKill(r, t) = send_context_started_event(u, t)
  <2> DEFINE v == [s EXCEPT !.ctx[t].exiting = TRUE]
  <2>1. PtraceKill(r, t) = send_context_started_event(v, t)
    <3>1. ASSUME NEW w
          PROVE  Strict(LAMBDA q : send_context_started_event(
                                     [q EXCEPT !.ctx[t].exiting = TRUE], t), w)
                   = send_context_started_event([w EXCEPT !.ctx[t].exiting = TRUE], t)
      BY Zenon DEF Strict
    <3> QED
      BY <3>1, Zenon DEF PtraceKill
  <2> HIDE DEF s
  <2>2. v = u
    OBVIOUS
  <2> QED
    BY <2>1, <2>2
<1>2. ASSUME NEW x \in Threads
      PROVE  ThreadFields \subseteq DOMAIN C[x] /\ Alike(r.ctx[x], C[x])
  <2>1. \A g \in ThreadFields \ {"k"} : C[x][g] = r.ctx[x][g]
    BY DEF Shape, ThreadShape, ThreadFields
  <2>2. ThreadFields \subseteq DOMAIN C[x] /\ C[x].k \in {r.ctx[x].k, "zombie"}
    BY DEF Shape, ThreadShape, ThreadFields
  <2> HIDE DEF C
  <2> QED
    BY <2>1, <2>2 DEF Alike, Kept, ThreadFields
<1>3. DOMAIN C = Threads
  OBVIOUS
<1>4. r.ctx[t].k = "trap" => C[t].k = "zombie"
  BY DEF Alive, TrapOK, Shape, ThreadShape, ThreadFields
<1> HIDE DEF C
<1>5. Around(r, a) /\ a.pids = r.pids /\ a.ctx = C
  BY <1>2, <1>3, NewThreads
<1> HIDE DEF a
<1>6. Quiet(r, s) /\ s.ctx[t].k # "trap"
  <2>1. Quiet(r, a) /\ Alike(r.ctx[t], a.ctx[t])
    BY <1>2, <1>5 DEF Quiet, AllAlike
  <2>2. a.ctx[t].k # "trap"
    BY <1>4, <1>5, <2>1 DEF Alike, Kept
  <2> QED
    BY <2>1, <2>2, QuietSame
<1> HIDE DEF s
<1>7. Shape(s)
  BY <1>6 DEF Quiet, Around
<1>8. Quiet(s, u)
  <2>1. /\ ThreadFields \subseteq DOMAIN d /\ d.exiting
        /\ \A g \in ThreadFields \ {"exiting"} : d[g] = s.ctx[t][g]
    BY <1>7 DEF Shape, ThreadShape, ThreadFields
  <2> HIDE DEF d
  <2>2. Around(s, u) /\ u.pids = s.pids /\ u.ctx[t] = d /\ ButFor(s, u, t)
    BY <1>7, <2>1, NewThreadRecord
  <2> HIDE DEF u
  <2>3. Alike(s.ctx[t], d)
    BY <1>6, <2>1 DEF Alike, Kept, ThreadFields
  <2> QED
    BY <2>2, <2>3 DEF Quiet, AllAlike, ButFor
<1> HIDE DEF u
<1>9. Quiet(r, u) /\ Shape(u)
  BY <1>6, <1>8, QuietTwice DEF Quiet, Around
<1>10. Released(u, send_context_started_event(u, t), t)
  BY <1>9, ContextStarted
<1> QED
  BY <1>1, <1>9, <1>10, QuietReleased

-----------------------------------------------------------------------------
(* Changes that keep the invariant.                                        *)

\* A thread does not get nearer to the breakpoint.
Tamer(c, d) ==
  /\ Loose(d) => Loose(c)
  /\ Trapped(d) => Trapped(c)
  /\ TrapOK(c) => TrapOK(d)
  /\ (d.linked <=> c.linked) /\ (c.exited => d.exited)
  /\ (d.stepping_over <=> c.stepping_over)

\* The threads and the processes.
LEMMA ThreadsFinite ==
  /\ IsFiniteSet(Threads) /\ \A t \in Threads : ProcOf[t] \in Procs /\ t \in ThreadsOf(ProcOf[t])
  /\ \A p \in Procs : ThreadsOf(p) \subseteq Threads /\ IsFiniteSet(ThreadsOf(p))
  /\ \A S \in SUBSET Threads : IsFiniteSet(S) /\ Cardinality(S) \in Nat
<1>1. ThreadSeq \in Seq(Threads)
  BY SafeEventsAssumption
<1>2. DOMAIN ThreadSeq = 1 .. Len(ThreadSeq) /\ Len(ThreadSeq) \in Nat
  BY <1>1, LenProperties
<1>3. IsFiniteSet(DOMAIN ThreadSeq)
  BY <1>2, FS_Interval
<1>4. ThreadSeq \in [DOMAIN ThreadSeq -> Threads]
  BY <1>1, <1>2, ElementOfSeq
<1>5. \A t \in Threads : \E i \in DOMAIN ThreadSeq : ThreadSeq[i] = t
  BY DEF Threads, Range
<1>6. IsFiniteSet(Threads)
  BY <1>3, <1>4, <1>5, FS_Surjection DEF ExistsSurjection, Surjection
<1>7. \A S \in SUBSET Threads : IsFiniteSet(S) /\ Cardinality(S) \in Nat
  BY <1>6, FS_Subset, FS_CardinalityType
<1> QED
  BY <1>6, <1>7 DEF Procs, ThreadsOf

\* A thread that is alike is as far from the breakpoint.
LEMMA KeptTamer ==
  ASSUME NEW c, NEW d, Kept(c, d), c.stopped => d.stopped, TrapOK(c) => (d.stopped => c.stopped)
  PROVE  Tamer(c, d)
BY DEF Kept, Tamer, Loose, Trapped, TrapOK

\* The same.
LEMMA AlikeTamer == ASSUME NEW c, NEW d, Alike(c, d) PROVE Tamer(c, d)
BY KeptTamer DEF Alike

\* The places of clients.
LEMMA ClientsNat ==
  ASSUME NEW r, Shape(r), NEW T
  PROVE  /\ Clients(r, T) \in Nat
         /\ Cardinality(Places(r.run, T)) \in Nat /\ Cardinality(Places(r.waiting, T)) \in Nat
         /\ Cardinality(Places(r.missed, T)) \in Nat
<1>1. r.run \in Seq(ClientT) /\ r.waiting \in Seq(ClientT) /\ r.missed \in Seq(ClientT)
  BY DEF Shape
<1>2. /\ Cardinality(Places(r.run, T)) \in Nat /\ Cardinality(Places(r.waiting, T)) \in Nat
      /\ Cardinality(Places(r.missed, T)) \in Nat
  BY <1>1, PlacesFinite
<1> QED
  BY <1>2 DEF Clients

\* Who steps over the breakpoint.
LEMMA SteppingKept ==
  ASSUME NEW r, NEW q, q.list = r.list, q.bi = r.bi, NEW X,
         \A t \in Threads : (q.ctx[t].stepping_over <=> r.ctx[t].stepping_over),
         SteppingOK(r, X)
  PROVE  SteppingOK(q, X)
<1>1. \A p \in Procs : Over(q, p) = Over(r, p)
  BY DEF Over, ThreadsOf
<1> QED
  BY <1>1 DEF SteppingOK, One

\* The breakpoint, when threads only get tamer.
LEMMA BreakKept ==
  ASSUME NEW r, NEW q, q.bi = r.bi, BreakOK(r),
         \A t \in Threads : Tamer(r.ctx[t], q.ctx[t]),
         r.gen_posted # r.gen_done => q.gen_posted # q.gen_done
  PROVE  BreakOK(q)
<1>1. \A t \in Threads : TrapOK(q.ctx[t])
  BY DEF BreakOK, Tamer
<1>2. ASSUME NEW p \in Procs PROVE InstructionOK(q, p)
  <2>1. InstructionOK(r, p)
    BY DEF BreakOK
  <2>2. ProcExited(r, p) => ProcExited(q, p)
    BY DEF ProcExited, IsLinked, ThreadsOf, Tamer
  <2>3. \A t \in ThreadsOf(p) : /\ Loose(q.ctx[t]) => Loose(r.ctx[t])
                                /\ Trapped(q.ctx[t]) => Trapped(r.ctx[t])
    BY DEF ThreadsOf, Tamer
  <2> QED
    BY <2>1, <2>2, <2>3 DEF InstructionOK
<1> QED
  BY <1>1, <1>2 DEF BreakOK

\* The books, when evaluations may have been asked for.
LEMMA BooksKept ==
  ASSUME NEW r, Shape(r), NEW q, Asks(r, q), NEW l \in Nat, NEW m \in Nat
  PROVE  /\ LockOK(r, l) => LockOK(q, l)
         /\ GenOK(r, m) => GenOK(q, m)
         /\ Theirs(r) => Theirs(q)
<1>1. \A T : Clients(q, T) = Clients(r, T)
  BY DEF Clients, Asks, Same, SameClients
<1>2. LockOK(r, l) => LockOK(q, l)
  <2>1. r.lock \in Int /\ q.lock \in Int /\ Len(r.list) \in Nat
    BY LenProperties DEF Asks, Shape
  <2>2. Clients(r, Mem) \in Nat
    BY ClientsNat
  <2>3. /\ q.list = r.list /\ q.cache_lock = r.cache_lock
        /\ q.lock - One(q.gen_posted # q.gen_done) = r.lock - One(r.gen_posted # r.gen_done)
    BY DEF Asks, Same
  <2> DEFINE a == One(r.cache_lock)
             b == One(r.gen_posted # r.gen_done)
             c == One(q.gen_posted # q.gen_done)
  <2>4. a \in Nat /\ b \in Nat /\ c \in Nat
    BY DEF One
  <2>5. LockOK(r, l) <=> r.lock = Len(r.list) + a + b + Clients(r, Mem) + l
    BY Zenon DEF LockOK
  <2>6. LockOK(q, l) <=> q.lock = Len(r.list) + a + c + Clients(r, Mem) + l
    <3>1. LockOK(q, l) <=> q.lock = Len(q.list) + One(q.cache_lock) + c + Clients(q, Mem) + l
      BY Zenon DEF LockOK
    <3>2. q.list = r.list /\ One(q.cache_lock) = a /\ Clients(q, Mem) = Clients(r, Mem)
      BY <1>1, <2>3, Zenon
    <3> QED
      BY <3>1, <3>2, Zenon
  <2>7. q.lock - c = r.lock - b
    BY <2>3, Zenon
  <2> HIDE DEF a, b, c
  <2>8. \A u, v \in Int, n, k \in Nat :
          v - c = u - b /\ u = n + a + b + k + l => v = n + a + c + k + l
    BY <2>4
  <2> QED
    BY <2>1, <2>2, <2>5, <2>6, <2>7, <2>8, Zenon
<1>3. GenOK(r, m) => GenOK(q, m)
  BY <1>1 DEF GenOK, Asks, Same, SameRound
<1>4. Theirs(r) => Theirs(q)
  BY DEF Theirs, Asks, Same, SameClients, SameRound
<1> QED
  BY <1>2, <1>3, <1>4

\* Who is waited for.
LEMMA WaitsKept ==
  ASSUME NEW r, NEW q, AllAlike(r, q), q.pids = r.pids, SameCtl(r, q)
  PROVE  /\ Waits(q) = Waits(r)
         /\ PendingOK(r) => PendingOK(q)
         /\ LoopOK(r) => LoopOK(q)
         /\ SyncOK(r) /\ r.sync.todo \in Seq(Threads) => SyncOK(q)
<1>1. Waits(q) = Waits(r)
  BY DEF Waits, AllAlike, Alike
<1>2. PendingOK(r) => PendingOK(q)
  BY <1>1 DEF PendingOK, AllAlike, Alike, Kept, Waits
<1>3. LoopOK(r) => LoopOK(q)
  <2>1. \A t \in Threads : /\ Moves(q.ctx[t]) => Moves(r.ctx[t])
                           /\ (q.ctx[t].stop_group_mark <=> r.ctx[t].stop_group_mark)
                           /\ (q.ctx[t].linked <=> r.ctx[t].linked)
    BY DEF Moves, AllAlike, Alike, Kept
  <2> QED
    BY <1>1, <2>1 DEF LoopOK, SameCtl
<1>4. SyncOK(r) /\ r.sync.todo \in Seq(Threads) => SyncOK(q)
  <2>1. r.sync.todo \in Seq(Threads) => \A i \in DOMAIN r.sync.todo : r.sync.todo[i] \in Threads
    BY LenProperties, ElementOfSeq
  <2> QED
    BY <1>1, <2>1 DEF SyncOK, SameCtl, AllAlike, Alike, Kept
<1> QED
  BY <1>1, <1>2, <1>3, <1>4

\* A mild change keeps the invariant.
LEMMA MildHolds ==
  ASSUME NEW r, NEW q, NEW l \in Nat, NEW m \in Nat, NEW X, Holding(r, l, m, X), Mild(r, q)
  PROVE  Holding(q, l, m, X)
<1>1. Shape(r) /\ Shape(q) /\ Asks(r, q) /\ Same(r, q)
  BY DEF Holding, Mild, Asks
<1>2. LockOK(q, l) /\ GenOK(q, m) /\ Theirs(q)
  BY <1>1, BooksKept DEF Holding
<1>3. q.list = r.list /\ q.bi = r.bi /\ SameCtl(r, q)
  BY <1>1 DEF Same
<1>4. r.gen_posted # r.gen_done => q.gen_posted # q.gen_done
  BY <1>1 DEF Asks
<1>5. BreakOK(q)
  BY <1>3, <1>4, AlikeTamer, BreakKept DEF Holding, Mild, AllAlike
<1>6. SteppingOK(q, X)
  BY <1>3, SteppingKept DEF Holding, Mild, AllAlike, Alike, Kept
<1>7. r.sync.todo \in Seq(Threads)
  BY <1>1 DEF Shape
<1>8. PendingOK(q) /\ LoopOK(q) /\ SyncOK(q)
  BY <1>3, <1>7, WaitsKept DEF Holding, Mild
<1> QED
  BY <1>1, <1>2, <1>5, <1>6, <1>8 DEF Holding

\* A mild change of a state between steps.
LEMMA MildGood == ASSUME NEW r, NEW q, Good(r), Mild(r, q) PROVE Good(q)
<1>1. Holding(q, 0, 0, {})
  BY MildHolds DEF Good
<1> QED
  BY <1>1 DEF Good, RestOK, Mild, Asks, Same, SameCtl, SameClients

\* The same for a quiet one.
LEMMA QuietGood == ASSUME NEW r, NEW q, Good(r), Quiet(r, q) PROVE Good(q)
<1>1. Shape(r) /\ GenBase(r)
  BY DEF Good, Holding, GenOK
<1> QED
  BY <1>1, QuietMild, MildGood

-----------------------------------------------------------------------------
(* Lists of threads and of processes.                                      *)

\* SetToSeq lists all elements of a finite set.
LEMMA SetToSeqFacts ==
  ASSUME NEW S, IsFiniteSet(S)
  PROVE  SetToSeq(S) \in Seq(S) /\ \A x \in S : \E i \in 1 .. Len(SetToSeq(S)) : SetToSeq(S)[i] = x
<1> DEFINE n == Cardinality(S)
           q == SetToSeq(S)
<1>1. n \in Nat /\ ExistsBijection(1 .. n, S)
  BY FS_CardinalityType
<1>2. \E f \in [1 .. n -> S] : IsInjective(f)
  BY <1>1 DEF ExistsBijection, Bijection, Injection
<1>3. q \in [1 .. n -> S] /\ IsInjective(q)
  BY <1>2, Zenon DEF SetToSeq
<1> HIDE DEF q
<1>4. q \in Seq(S) /\ Len(q) = n
  BY <1>1, <1>3, SeqDef
<1>5. q \in Surjection(1 .. n, S)
  <2>1. IsFiniteSet(1 .. n) /\ Cardinality(1 .. n) = n
    BY <1>1, FS_Interval
  <2>2. q \in Injection(1 .. n, S)
    BY <1>3 DEF Injection
  <2> QED
    BY <2>1, <2>2, FS_Injection
<1>6. \A x \in S : \E i \in 1 .. n : q[i] = x
  BY <1>5 DEF Surjection
<1> QED
  BY <1>4, <1>6 DEF q

\* The processes are finitely many.
LEMMA ProcsFinite == IsFiniteSet(Procs) /\ \A S \in SUBSET Procs : IsFiniteSet(S)
<1> DEFINE f == [t \in Threads |-> ProcOf[t]]
<1>1. f \in Surjection(Threads, Procs)
  BY DEF Surjection, Procs
<1>2. IsFiniteSet(Procs)
  BY <1>1, ThreadsFinite, FS_Surjection
<1> QED
  BY <1>2, FS_Subset

\* One thread of the walk of InOrder.
PickOne(A, q, t) == IF t \in A THEN Append(q, t) ELSE q

\* What InOrder has collected from the first i threads.
Picked(A, i, b, q) ==
  /\ q \in Seq(Threads) /\ Once(q)
  /\ \A j \in DOMAIN q : q[j] \in A /\ \E m \in 1 .. i : q[j] = ThreadSeq[m]

Picking == INSTANCE ProofLemmas WITH Op <- PickOne, Rel <- Picked

\* One more thread.
LEMMA PickedMore ==
  ASSUME NEW A, NEW i \in 1 .. Len(ThreadSeq), NEW b, NEW q, Picked(A, i - 1, b, q)
  PROVE  Picked(A, i, b, PickOne(A, q, ThreadSeq[i]))
<1> DEFINE t == ThreadSeq[i]
           v == Append(q, t)
<1>1. /\ ThreadSeq \in Seq(Threads) /\ Len(ThreadSeq) \in Nat
      /\ DOMAIN ThreadSeq = 1 .. Len(ThreadSeq)
  BY SafeEventsAssumption, LenProperties
<1>2. t \in Threads /\ i \in DOMAIN ThreadSeq
  BY <1>1, ElementOfSeq
<1>3. \A m \in 1 .. i - 1 : m \in 1 .. i /\ m # i /\ m \in DOMAIN ThreadSeq
  BY <1>1
<1>4. q \in Seq(Threads) /\ Once(q)
      /\ \A j \in DOMAIN q : q[j] \in A /\ \E m \in 1 .. i - 1 : q[j] = ThreadSeq[m]
  BY DEF Picked
<1>5. CASE t \notin A
  BY <1>3, <1>4, <1>5 DEF Picked, PickOne
<1>6. CASE t \in A
  <2>1. PickOne(A, q, t) = v
    BY <1>6 DEF PickOne
  <2>2. \A j \in DOMAIN q : q[j] # t
    BY <1>2, <1>3, <1>4, SafeEventsAssumption DEF IsInjective
  <2>3. i \in 1 .. i
    BY <1>1
  <2> DEFINE n == Len(q)
  <2>4. /\ n \in Nat /\ DOMAIN q = 1 .. n /\ DOMAIN v = 1 .. n + 1
        /\ \A j \in DOMAIN q : v[j] = q[j]
        /\ v[n + 1] = t /\ v \in Seq(Threads)
    BY <1>2, <1>4, AppendPlaces
  <2>5. t = ThreadSeq[i]
    OBVIOUS
  <2> HIDE DEF v, n, t
  <2>6. \A j \in DOMAIN v : j \in DOMAIN q \/ j = n + 1
    BY <2>4
  <2>7. Once(v)
    BY <1>4, <2>2, <2>4, <2>6 DEF Once
  <2>8. \A j \in DOMAIN v : v[j] \in A /\ \E m \in 1 .. i : v[j] = ThreadSeq[m]
    BY <1>3, <1>4, <1>6, <2>3, <2>4, <2>5, <2>6
  <2>9. Picked(A, i, b, v)
    BY <2>4, <2>7, <2>8 DEF Picked
  <2> QED
    BY <2>1, <2>5, <2>9
<1> QED
  BY <1>5, <1>6

\* InOrder
LEMMA InOrderFacts ==
  ASSUME NEW A
  PROVE  InOrder(A) \in Seq(Threads) /\ Once(InOrder(A)) /\ \A j \in DOMAIN InOrder(A) : InOrder(A)[j] \in A
<1> DEFINE q == Picking!Fold(A, <<>>, ThreadSeq)
<1>1. InOrder(A) = q
  BY Zenon DEF InOrder, PickOne, Picking!Fold, FoldLeft, Picking!FoldLeft, MapThenFoldSet,
               Picking!MapThenFoldSet, Max, Picking!Max
<1>2. Picked(A, 0, <<>>, <<>>)
  BY EmptySeq DEF Picked, Once
<1>3. \A i \in 1 .. Len(ThreadSeq) : \A x :
        Picked(A, i - 1, <<>>, x) => Picked(A, i, <<>>, PickOne(A, x, ThreadSeq[i]))
  BY PickedMore
<1>4. ThreadSeq \in Seq(Threads)
  BY SafeEventsAssumption
<1>5. Picked(A, Len(ThreadSeq), <<>>, q)
  BY <1>2, <1>3, <1>4, Picking!FoldKeeps
<1> QED
  BY <1>1, <1>5 DEF Picked

-----------------------------------------------------------------------------
(* Requests for evaluation.                                                *)

\* The event for a new request is posted.
LEMMA QueueReplant ==
  ASSUME NEW q \in Seq(Event), NEW a \in Nat, NEW b \in Nat, a <= b, QueueOK(q, a, b)
  PROVE  LET e == [ev |-> "replant", gen |-> b + 1]
         IN  Append(q, e) \in Seq(Event) /\ QueueOK(Append(q, e), a, b + 1)
<1> DEFINE e == [ev |-> "replant", gen |-> b + 1]
           r == Append(q, e)
<1>1. e \in Event /\ e.gen = b + 1 /\ \A i \in DOMAIN q : q[i].gen \in Nat
  <2>1. \A i \in DOMAIN q : q[i] \in Event
    BY LenProperties, ElementOfSeq
  <2>2. \A x \in Event : x.gen \in Nat
    BY DEF Event
  <2>3. e \in Event /\ e.gen = b + 1
    BY DEF Event
  <2> QED
    BY <2>1, <2>2, <2>3
<1> HIDE DEF e
<1>2. /\ Len(q) \in Nat /\ DOMAIN q = 1 .. Len(q) /\ DOMAIN r = 1 .. Len(q) + 1
      /\ \A i \in DOMAIN q : r[i] = q[i]
      /\ r[Len(q) + 1] = e /\ r \in Seq(Event)
  BY <1>1, AppendPlaces
<1> DEFINE n == Len(q) + 1
<1>3. \A i \in DOMAIN r : i \in DOMAIN q \/ i = n
  BY <1>2
<1>4. n \notin DOMAIN q /\ \A i \in DOMAIN r : i <= n
  BY <1>2
<1>5. r[n] = e
  BY <1>2
<1> HIDE DEF r, n
<1>6. ASSUME NEW i \in DOMAIN r, r[i].ev = "replant" PROVE a < r[i].gen /\ r[i].gen <= b + 1
  BY <1>1, <1>2, <1>3, <1>5, <1>6 DEF QueueOK
<1>7. ASSUME NEW i \in DOMAIN r, NEW j \in DOMAIN r, i < j, r[i].ev = "replant",
             r[j].ev = "replant"
      PROVE  r[i].gen < r[j].gen
  <2>1. i \in DOMAIN q
    BY <1>2, <1>3, <1>4, <1>7 DEF n
  <2>2. CASE j \in DOMAIN q
    BY <1>2, <1>7, <2>1, <2>2 DEF QueueOK
  <2>3. CASE j = n
    <3>1. r[i] = q[i] /\ r[i].gen \in Nat /\ r[i].gen <= b
      BY <1>1, <1>2, <1>7, <2>1 DEF QueueOK
    <3>2. r[j].gen = b + 1
      BY <1>1, <1>5, <2>3
    <3> QED
      BY <3>1, <3>2
  <2> QED
    BY <1>3, <2>2, <2>3
<1>8. QueueOK(r, a, b + 1)
  BY <1>6, <1>7 DEF QueueOK
<1> QED
  BY <1>2, <1>8 DEF r, e

\* post_evaluation_request: the first request takes the lock.
LEMMA EvaluationRequest ==
  ASSUME NEW r, Shape(r), GenBase(r), NEW p \in Procs
  PROVE  Mild(r, post_evaluation_request(r, p))
<1> DEFINE n == r.gen_posted + 1
           s == Append(r.evals_posted, p)
           e == [ev |-> "replant", gen |-> n]
           u == Append(r.queue, e)
           first == r.gen_posted = r.gen_done
           v == post_evaluation_request(r, p)
<1>1. CASE p \in Range(r.evals_posted)
  <2>1. v = r
    BY <1>1 DEF post_evaluation_request
  <2> QED
    BY <2>1, QuietSame, QuietMild
<1>2. CASE p \notin Range(r.evals_posted)
  <2>1. /\ r.gen_posted \in Nat /\ r.gen_active \in Nat /\ r.gen_done \in Nat
        /\ r.gen_done <= r.gen_active /\ r.gen_active <= r.gen_posted
        /\ r.evals_posted \in Seq(Procs) /\ r.queue \in Seq(Event) /\ r.lock \in Int
    BY DEF Shape, GenBase
  <2>2. u \in Seq(Event) /\ QueueOK(u, r.gen_active, n)
    BY <2>1, QueueReplant DEF GenBase
  <2>3. s \in Seq(Procs) /\ s # <<>>
    <3>1. s \in Seq(Procs) /\ Len(s) = Len(r.evals_posted) + 1 /\ Len(r.evals_posted) \in Nat
      BY <2>1, AppendProperties, LenProperties
    <3> QED
      BY <3>1, EmptySeq
  <2>4. n \in Nat /\ n # r.gen_done /\ r.gen_active <= n
    BY <2>1
  <2>5. /\ DOMAIN v = DOMAIN r
        /\ v.queue = u /\ v.evals_posted = s /\ v.gen_posted = n
        /\ v.lock = IF first THEN r.lock + 1 ELSE r.lock
        /\ \A g \in StateFields \ {"queue", "evals_posted", "gen_posted", "lock"} : v[g] = r[g]
    BY <1>2 DEF post_evaluation_request, Post, run_ctrl_lock, Shape, StateFields
  <2> HIDE DEF v, u, s, n
  <2>6. Shape(v)
    <3>1. v.lock \in Int
      BY <2>1, <2>5
    <3>2. /\ StateFields \subseteq DOMAIN v /\ v.queue \in Seq(Event) /\ v.gen_posted \in Nat
          /\ v.evals_posted \in Seq(Procs)
      BY <2>2, <2>3, <2>4, <2>5 DEF Shape
    <3> QED
      BY <2>5, <3>1, <3>2 DEF Shape, ThreadShape, StateFields
  <2>7. Same(r, v) /\ v.pids = r.pids /\ AllAlike(r, v)
    BY <2>5 DEF Same, SameClients, SameCtl, SameRound, StateFields, AllAlike, Alike, Kept
  <2>8. v.gen_active = r.gen_active /\ v.gen_done = r.gen_done
    BY <2>5 DEF StateFields
  <2>9. GenBase(v)
    BY <2>1, <2>2, <2>3, <2>4, <2>5, <2>8 DEF GenBase
  <2>10. v.gen_posted # v.gen_done
    BY <2>4, <2>5, <2>8
  <2>11. v.lock - One(v.gen_posted # v.gen_done) = r.lock - One(r.gen_posted # r.gen_done)
    BY <2>1, <2>5, <2>10 DEF One
  <2> QED
    <3>1. Asks(r, v)
      BY <2>6, <2>7, <2>9, <2>10, <2>11, Zenon DEF Asks
    <3> QED
      BY <2>7, <3>1 DEF Mild, v
<1> QED
  BY <1>1, <1>2

\* post_location_evaluation_request
LEMMA LocationRequest ==
  ASSUME NEW r, Shape(r), GenBase(r), NEW p \in Procs, NEW all
  PROVE  Mild(r, post_location_evaluation_request(r, p, all))
<1> DEFINE s == [r EXCEPT !.loc_posted[p] = TRUE]
<1>1. \/ post_location_evaluation_request(r, p, all) = r
      \/ post_location_evaluation_request(r, p, all) = post_evaluation_request(s, p)
  BY DEF post_location_evaluation_request
<1>2. "loc_posted" \notin StateFields
  BY DEF StateFields
<1>3. Quiet(r, s)
  BY <1>2, Aside
<1> HIDE DEF s
<1>4. Mild(r, s)
  BY <1>3, QuietMild
<1>5. Mild(s, post_evaluation_request(s, p))
  BY <1>4, EvaluationRequest DEF Mild, Asks
<1> QED
  BY <1>1, <1>4, <1>5, MildTwice, QuietSame, QuietMild

\* One process of the walk of PostForAll, and what it may change.
PostOne(x, r, p) == PostLocation(r, p)
PostedTo(x, i, r, q) == Shape(r) /\ GenBase(r) => Mild(r, q)

Posting == INSTANCE ProofLemmas WITH Op <- PostOne, Rel <- PostedTo

\* replant_breakpoint
LEMMA ReplantRequest ==
  ASSUME NEW r, Shape(r), GenBase(r)
  PROVE  Mild(r, replant_breakpoint(r))
<1>1. ASSUME NEW S \in SUBSET Procs PROVE Mild(r, PostForAll(r, S))
  <2> DEFINE q == SetToSeq(S)
             v == Posting!Fold(0, r, q)
  <2>1. PostForAll(r, S) = v
    BY Zenon DEF PostForAll, PostOne, Posting!Fold, FoldLeft, Posting!FoldLeft,
                 MapThenFoldSet, Posting!MapThenFoldSet, Max, Posting!Max
  <2>2. q \in Seq(S) /\ \A i \in 1 .. Len(q) : q[i] \in Procs
    BY SetToSeqFacts, ProcsFinite, ElementOfSeq
  <2> HIDE DEF q
  <2>3. PostedTo(0, 0, r, r)
    BY QuietSame, QuietMild DEF PostedTo
  <2>4. ASSUME NEW i \in 1 .. Len(q), NEW x, PostedTo(0, i - 1, r, x)
        PROVE  PostedTo(0, i, r, PostOne(0, x, q[i]))
    <3>1. Mild(r, x) /\ Shape(x) /\ GenBase(x) /\ q[i] \in Procs
      BY <2>2, <2>4 DEF PostedTo, Mild, Asks
    <3>2. Mild(x, PostOne(0, x, q[i]))
      BY <3>1, LocationRequest DEF PostOne, PostLocation
    <3> QED
      BY <3>1, <3>2, MildTwice DEF PostedTo
  <2>5. PostedTo(0, Len(q), r, v)
    BY <2>2, <2>3, <2>4, Posting!FoldKeeps
  <2> QED
    BY <2>1, <2>5 DEF PostedTo
<1> QED
  BY <1>1 DEF replant_breakpoint

\* evaluate_breakpoint
LEMMA EvaluateBreakpoint ==
  ASSUME NEW r, Shape(r), GenBase(r), NEW t \in Threads
  PROVE  Mild(r, evaluate_breakpoint(r, t))
<1> DEFINE p == ProcOf[t]
           s == [r EXCEPT !.conds[p] = @ \cup {t}]
           v == evaluate_breakpoint(r, t)
<1>1. v \in {r, s, post_evaluation_request(r, p), post_evaluation_request(s, p),
             suspend_debug_context(r, t)}
  BY DEF evaluate_breakpoint
<1>2. "conds" \notin StateFields /\ p \in Procs
  BY ThreadsFinite DEF StateFields
<1>3. Quiet(r, s)
  BY <1>2, Aside
<1> HIDE DEF s, p, v
<1>4. Mild(r, s) /\ Shape(s) /\ GenBase(s)
  BY <1>3, QuietMild DEF Mild, Asks
<1>5. Mild(r, post_evaluation_request(r, p)) /\ Mild(s, post_evaluation_request(s, p))
  BY <1>2, <1>4, EvaluationRequest
<1>6. Mild(r, suspend_debug_context(r, t)) /\ Mild(r, r)
  BY SuspendQuiet, QuietSame, QuietMild
<1>7. Mild(r, post_evaluation_request(s, p))
  BY <1>4, <1>5, MildTwice
<1>8. Mild(r, v)
  BY <1>1, <1>4, <1>5, <1>6, <1>7
<1> QED
  BY <1>8 DEF v

-----------------------------------------------------------------------------
(* The round of replanting.                                                *)

\* One thread of the walk of SuspendHits, and what it may change.
HitOne(x, r, t) == SuspendHit(r, t)
\* One request of the walk of done_all_evaluations, and what it may change.
HitsOne(x, r, p) == SuspendHits(r, p)
CalmTo(x, i, r, q) == Shape(r) => Quiet(r, q)

Hitting == INSTANCE ProofLemmas WITH Op <- HitOne, Rel <- CalmTo
HittingAll == INSTANCE ProofLemmas WITH Op <- HitsOne, Rel <- CalmTo

\* done_condition_evaluation
LEMMA HitsQuiet ==
  ASSUME NEW r, Shape(r), NEW p
  PROVE  Quiet(r, SuspendHits(r, p))
<1> DEFINE a == [r EXCEPT !.conds[p] = {}]
           s == [a EXCEPT !.cond_ok[p] = {}]
           q == InOrder(r.cond_ok[p])
           v == Hitting!Fold(0, s, q)
<1>1. SuspendHits(r, p) = v
  BY Zenon DEF SuspendHits, HitOne, Hitting!Fold, FoldLeft, Hitting!FoldLeft,
               MapThenFoldSet, Hitting!MapThenFoldSet, Max, Hitting!Max
<1>2. q \in Seq(Threads) /\ \A i \in 1 .. Len(q) : q[i] \in Threads
  BY InOrderFacts, ElementOfSeq
<1> HIDE DEF q
<1>3. "conds" \notin StateFields /\ "cond_ok" \notin StateFields
  BY DEF StateFields
<1>4. Quiet(r, a)
  BY <1>3, Aside
<1> HIDE DEF a
<1>5. Quiet(a, s)
  BY <1>3, <1>4, Aside DEF Quiet, Around
<1> HIDE DEF s
<1>6. Quiet(r, s) /\ Shape(s)
  BY <1>4, <1>5, QuietTwice DEF Quiet, Around
<1>7. CalmTo(0, 0, s, s)
  BY QuietSame DEF CalmTo
<1>8. ASSUME NEW i \in 1 .. Len(q), NEW x, CalmTo(0, i - 1, s, x)
      PROVE  CalmTo(0, i, s, HitOne(0, x, q[i]))
  <2>1. Quiet(s, x) /\ Shape(x) /\ q[i] \in Threads
    BY <1>2, <1>6, <1>8 DEF CalmTo, Quiet, Around
  <2>2. HitOne(0, x, q[i]) = x \/ HitOne(0, x, q[i]) = suspend_debug_context(x, q[i])
    BY DEF HitOne, SuspendHit
  <2>3. Quiet(x, HitOne(0, x, q[i]))
    BY <2>1, <2>2, SuspendQuiet, QuietSame
  <2> QED
    BY <2>1, <2>3, QuietTwice DEF CalmTo
<1>9. CalmTo(0, Len(q), s, v)
  BY <1>2, <1>7, <1>8, Hitting!FoldKeeps
<1> QED
  BY <1>1, <1>6, <1>9, QuietTwice DEF CalmTo

\* done_all_evaluations
LEMMA AllHitsQuiet ==
  ASSUME NEW r, Shape(r)
  PROVE  \E s : Quiet(r, s) /\ done_all_evaluations(r) = [s EXCEPT !.evals_active = <<>>]
<1> DEFINE q == r.evals_active
           v == HittingAll!Fold(0, r, q)
<1>1. done_all_evaluations(r) = [v EXCEPT !.evals_active = <<>>]
  <2>1. FoldLeft(SuspendHits, r, r.evals_active) = v
    BY Zenon DEF HitsOne, HittingAll!Fold, FoldLeft, HittingAll!FoldLeft,
                 MapThenFoldSet, HittingAll!MapThenFoldSet, Max, HittingAll!Max
  <2> HIDE DEF v
  <2> QED
    BY <2>1, Zenon DEF done_all_evaluations
<1>2. q \in Seq(Procs)
  BY DEF Shape
<1> HIDE DEF q
<1>3. CalmTo(0, 0, r, r)
  BY QuietSame DEF CalmTo
<1>4. ASSUME NEW i \in 1 .. Len(q), NEW x, CalmTo(0, i - 1, r, x)
      PROVE  CalmTo(0, i, r, HitsOne(0, x, q[i]))
  <2>1. Quiet(r, x) /\ Shape(x)
    BY <1>4 DEF CalmTo, Quiet, Around
  <2>2. Quiet(x, HitsOne(0, x, q[i]))
    BY <2>1, HitsQuiet DEF HitsOne
  <2> QED
    BY <2>1, <2>2, QuietTwice DEF CalmTo
<1>5. CalmTo(0, Len(q), r, v)
  BY <1>2, <1>3, <1>4, HittingAll!FoldKeeps
<1> QED
  BY <1>1, <1>5 DEF CalmTo

\* Only the instructions changed; they are right.
Instructed(r, q) ==
  /\ Shape(q) /\ DOMAIN q = DOMAIN r /\ \A g \in StateFields \ {"bi"} : q[g] = r[g]
  /\ \A p \in Procs : InstructionOK(q, p) /\ q.bi[p].stepping = r.bi[p].stepping

\* The instruction of one process changes.
LEMMA NewInstructionRecord ==
  ASSUME NEW r, Shape(r), NEW p \in Procs, NEW b \in InstructionT
  PROVE  LET q == [r EXCEPT !.bi[p] = b]
         IN  /\ Shape(q) /\ DOMAIN q = DOMAIN r /\ q.bi[p] = b
             /\ \A g \in StateFields \ {"bi"} : q[g] = r[g]
             /\ \A x \in Procs \ {p} : q.bi[x] = r.bi[x]
<1> DEFINE B == [r.bi EXCEPT ![p] = b]
           q == [r EXCEPT !.bi = B]
<1>1. B \in [Procs -> InstructionT] /\ B[p] = b /\ \A x \in Procs \ {p} : B[x] = r.bi[x]
  BY DEF Shape
<1> HIDE DEF B
<1>2. DOMAIN q = DOMAIN r /\ q.bi = B /\ \A g \in StateFields \ {"bi"} : q[g] = r[g]
  BY DEF Shape, StateFields
<1> HIDE DEF q
<1>3. Shape(q)
  BY <1>1, <1>2 DEF Shape, ThreadShape, StateFields
<1> QED
  BY <1>1, <1>2, <1>3 DEF q, B

\* The fields of an instruction.
LEMMA InstructionFields ==
  ASSUME NEW r, Shape(r), NEW p \in Procs
  PROVE  /\ r.bi[p] \in InstructionT
         /\ r.bi[p].exists \in BOOLEAN /\ r.bi[p].planted \in BOOLEAN
         /\ r.bi[p].valid \in BOOLEAN /\ r.bi[p].loc \in BOOLEAN
         /\ r.bi[p].ref \in {"none", "stale", "live"} /\ r.bi[p].stepping \in Int
<1>1. r.bi[p] \in InstructionT
  BY DEF Shape
<1> QED
  BY <1>1 DEF InstructionT

\* An instruction that stays as it was stays right.
LEMMA InstructionSame ==
  ASSUME NEW r, NEW q, q.ctx = r.ctx, NEW p, q.bi[p] = r.bi[p],
         r.gen_posted # r.gen_done => q.gen_posted # q.gen_done, InstructionOK(r, p)
  PROVE  InstructionOK(q, p)
BY DEF InstructionOK, ProcExited, IsLinked

\* flush_instructions, for one process.
LEMMA FlushOne ==
  ASSUME NEW r, Shape(r), NEW p \in Procs, BreakOK(r), r.bi[p].stepping \in Nat
  PROVE  LET q == FlushInstruction(r, p)
         IN  Instructed(r, q) /\ q.bi[p].valid /\ \A x \in Procs \ {p} : q.bi[x] = r.bi[x]
<1> DEFINE b == r.bi[p]
           live == IF b.valid THEN b.ref = "live" ELSE b.loc /\ ~ProcExited(r, p)
           plant == ~b.valid /\ live /\ b.stepping = 0
           unused == ~live /\ b.stepping = 0
           planted == (b.planted /\ ~(unused /\ IsAllStopped(r, p))) \/ plant
           exists == (b.exists \/ live) /\ ~(unused /\ ~planted)
           loc == IF b.valid THEN b.loc ELSE live
           ref == IF live THEN "live" ELSE "none"
           d == [exists |-> exists, planted |-> planted, valid |-> TRUE, ref |-> ref,
                 loc |-> loc, stepping |-> b.stepping]
           q == [r EXCEPT !.bi[p] = d]
<1>1. FlushInstruction(r, p) = q
  BY Zenon DEF FlushInstruction
<1>2. /\ b.exists \in BOOLEAN /\ b.planted \in BOOLEAN
      /\ b.valid \in BOOLEAN /\ b.loc \in BOOLEAN
      /\ b.ref \in {"none", "stale", "live"} /\ b.stepping \in Int
  BY InstructionFields
<1>3. exists \in BOOLEAN /\ planted \in BOOLEAN /\ loc \in BOOLEAN
  BY <1>2 DEF ProcExited
<1>4. d \in InstructionT
  <2> HIDE DEF exists, planted, loc
  <2> QED
    BY <1>2, <1>3 DEF InstructionT
<1>5. /\ d.exists = exists /\ d.planted = planted /\ d.valid = TRUE /\ d.ref = ref
      /\ d.stepping = b.stepping
  OBVIOUS
<1> HIDE DEF d
<1>6. /\ Shape(q) /\ DOMAIN q = DOMAIN r /\ q.bi[p] = d
      /\ \A g \in StateFields \ {"bi"} : q[g] = r[g]
      /\ \A x \in Procs \ {p} : q.bi[x] = r.bi[x]
  BY <1>4, NewInstructionRecord
<1> HIDE DEF q
<1>7. q.ctx = r.ctx /\ q.gen_posted = r.gen_posted /\ q.gen_done = r.gen_done
  BY <1>6 DEF StateFields
<1>8. ASSUME NEW x \in Procs \ {p} PROVE InstructionOK(q, x)
  BY <1>6, <1>7, InstructionSame DEF BreakOK
<1>9. InstructionOK(q, p)
  <2>1. InstructionOK(r, p)
    BY DEF BreakOK
  <2>2. ProcExited(q, p) <=> ProcExited(r, p)
    BY <1>7 DEF ProcExited, IsLinked
  <2>3. \A t \in ThreadsOf(p) : Trapped(r.ctx[t]) => ~IsAllStopped(r, p)
    BY DEF BreakOK, TrapOK, Trapped, IsAllStopped, ThreadsOf
  <2>4. \A t \in ThreadsOf(p) : Trapped(r.ctx[t]) => b.exists /\ b.planted
    BY <2>1 DEF InstructionOK
  <2>5. \A t \in ThreadsOf(p) : Loose(r.ctx[t]) => b.valid /\ (b.ref = "live" => b.planted)
    BY <2>1 DEF InstructionOK
  <2>6. /\ b.planted => b.exists
        /\ b.stepping > 0 => b.exists
        /\ b.valid /\ b.ref = "live" => b.planted \/ b.stepping > 0 \/ ProcExited(r, p)
    BY <2>1 DEF InstructionOK
  <2>7. d.planted => d.exists
    BY <1>5, <2>6
  <2>8. d.stepping > 0 => d.exists
    BY <1>2, <1>5, <2>6
  <2>9. d.ref = "live" => d.planted \/ d.stepping > 0 \/ ProcExited(r, p)
    <3>1. CASE b.valid
      BY <1>2, <1>5, <2>6, <3>1
    <3>2. CASE ~b.valid
      <4>1. b.stepping = 0 \/ b.stepping > 0
        OBVIOUS
      <4> QED
        BY <1>2, <1>5, <3>2, <4>1
    <3> QED
      BY <3>1, <3>2
  <2>10. \A t \in ThreadsOf(p) : Loose(r.ctx[t]) => (d.ref = "live" => d.planted)
    BY <1>2, <1>5, <2>5
  <2>11. \A t \in ThreadsOf(p) : Trapped(r.ctx[t]) => d.exists /\ d.planted
    BY <1>5, <2>3, <2>4
  <2> QED
    BY <1>5, <1>6, <1>7, <2>2, <2>7, <2>8, <2>9, <2>10, <2>11 DEF InstructionOK
<1>10. Instructed(r, q) /\ q.bi[p].valid
  BY <1>5, <1>6, <1>8, <1>9 DEF Instructed
<1> QED
  BY <1>1, <1>6, <1>10

\* One process of the walk of flush_instructions, and what it may change.
FlushNext(x, r, p) == FlushInstruction(r, p)
FlushedTo(x, i, r, q) ==
  Shape(r) /\ BreakOK(r) /\ (\A p \in Procs : r.bi[p].stepping \in Nat) =>
  /\ Instructed(r, q)
  /\ \A j \in 1 .. i : j \in DOMAIN SetToSeq(Procs) => q.bi[SetToSeq(Procs)[j]].valid

Flushing == INSTANCE ProofLemmas WITH Op <- FlushNext, Rel <- FlushedTo

\* flush_instructions
LEMMA FlushFacts ==
  ASSUME NEW r, Shape(r), BreakOK(r), \A p \in Procs : r.bi[p].stepping \in Nat
  PROVE  LET q == flush_instructions(r)
         IN  Instructed(r, q) /\ \A p \in Procs : q.bi[p].valid
<1> DEFINE u == SetToSeq(Procs)
           v == Flushing!Fold(0, r, u)
<1>1. flush_instructions(r) = v
  BY Zenon DEF flush_instructions, FlushNext, Flushing!Fold, FoldLeft, Flushing!FoldLeft,
               MapThenFoldSet, Flushing!MapThenFoldSet, Max, Flushing!Max
<1>2. /\ u \in Seq(Procs) /\ Len(u) \in Nat /\ DOMAIN u = 1 .. Len(u)
      /\ \A i \in 1 .. Len(u) : u[i] \in Procs
      /\ \A p \in Procs : \E i \in 1 .. Len(u) : u[i] = p
  BY SetToSeqFacts, ProcsFinite, ElementOfSeq, LenProperties
<1>3. FlushedTo(0, 0, r, r)
  BY DEF FlushedTo, Instructed, BreakOK
<1>4. ASSUME NEW i \in 1 .. Len(u), NEW x, FlushedTo(0, i - 1, r, x)
      PROVE  FlushedTo(0, i, r, FlushNext(0, x, u[i]))
  <2> DEFINE p == u[i]
             y == FlushInstruction(x, p)
  <2>1. Instructed(r, x) /\ Shape(x) /\ p \in Procs
    BY <1>2, <1>4 DEF FlushedTo, Instructed
  <2>2. \A j \in 1 .. i - 1 : j \in DOMAIN u => x.bi[u[j]].valid
    BY <1>4 DEF FlushedTo
  <2>3. BreakOK(x) /\ x.bi[p].stepping \in Nat
    BY <2>1 DEF Instructed, BreakOK, StateFields
  <2> HIDE DEF p
  <2>4. Instructed(x, y) /\ y.bi[p].valid /\ \A z \in Procs \ {p} : y.bi[z] = x.bi[z]
    BY <2>1, <2>3, FlushOne
  <2> HIDE DEF y
  <2>5. Instructed(r, y)
    BY <2>1, <2>4 DEF Instructed
  <2>6. \A j \in 1 .. i : j = i \/ j \in 1 .. i - 1
    BY <1>2
  <2>7. \A j \in 1 .. i : j \in DOMAIN u => u[j] \in Procs
    BY <1>2
  <2> HIDE DEF u
  <2>8. \A j \in 1 .. i : j \in DOMAIN u => y.bi[u[j]].valid
    BY <2>2, <2>4, <2>6, <2>7 DEF Instructed, p
  <2> QED
    BY <2>5, <2>8 DEF FlushedTo, FlushNext, y, p, u
<1>5. FlushedTo(0, Len(u), r, v)
  <2> HIDE DEF u
  <2> QED
    BY <1>2, <1>3, <1>4, Flushing!FoldKeeps
<1> HIDE DEF v
<1>6. Instructed(r, v) /\ \A j \in 1 .. Len(u) : v.bi[u[j]].valid
  BY <1>2, <1>5 DEF FlushedTo
<1>7. \A p \in Procs : v.bi[p].valid
  BY <1>2, <1>6
<1> QED
  BY <1>1, <1>6, <1>7

\* The parts of the invariant about threads, when they do not change.
LEMMA ThreadsFrame ==
  ASSUME NEW r, NEW q, q.ctx = r.ctx, q.pids = r.pids, q.pc = r.pc, q.sync = r.sync
  PROVE  /\ PendingOK(r) => PendingOK(q)
         /\ LoopOK(r) => LoopOK(q)
         /\ SyncOK(r) => SyncOK(q)
<1>1. Waits(q) = Waits(r)
  BY DEF Waits
<1> QED
  BY <1>1 DEF PendingOK, LoopOK, SyncOK

\* The parts of the invariant about the round of replanting, when it does not change.
LEMMA RoundFrame ==
  ASSUME NEW r, NEW q, SameClients(r, q), SameRound(r, q), q.queue = r.queue,
         q.gen_posted = r.gen_posted, q.evals_posted = r.evals_posted, NEW m
  PROVE  /\ \A T : Clients(q, T) = Clients(r, T)
         /\ GenOK(r, m) => GenOK(q, m)
         /\ Theirs(r) => Theirs(q)
<1>1. \A T : Clients(q, T) = Clients(r, T)
  BY DEF Clients, SameClients
<1>2. GenBase(r) => GenBase(q)
  BY DEF GenBase, SameRound
<1>3. GenOK(r, m) => GenOK(q, m)
  BY <1>1, <1>2 DEF GenOK, SameRound
<1>4. Theirs(r) => Theirs(q)
  BY DEF Theirs, SameClients, SameRound
<1> QED
  BY <1>1, <1>3, <1>4

\* run_ctrl_lock_cnt, when its holders do not change.
LEMMA LockFrame ==
  ASSUME NEW r, NEW q, q.list = r.list, q.cache_lock = r.cache_lock, q.lock = r.lock,
         q.gen_posted = r.gen_posted, q.gen_done = r.gen_done, SameClients(r, q), NEW l,
         LockOK(r, l)
  PROVE  LockOK(q, l)
<1>1. Clients(q, Mem) = Clients(r, Mem)
  BY DEF Clients, SameClients
<1> QED
  BY <1>1 DEF LockOK

\* Instructions change.
LEMMA InstructedHolds ==
  ASSUME NEW r, NEW q, NEW l \in Nat, NEW m \in Nat, NEW X, Holding(r, l, m, X), Instructed(r, q)
  PROVE  Holding(q, l, m, X)
<1>1. /\ Shape(q) /\ q.ctx = r.ctx /\ q.list = r.list /\ q.lock = r.lock /\ q.pids = r.pids
      /\ q.queue = r.queue /\ q.pc = r.pc /\ q.sync = r.sync /\ q.cache_lock = r.cache_lock
      /\ q.gen_posted = r.gen_posted /\ q.evals_posted = r.evals_posted
      /\ SameClients(r, q) /\ SameRound(r, q)
  BY DEF Instructed, StateFields, SameClients, SameRound
<1>2. q.gen_done = r.gen_done
  BY <1>1 DEF SameRound
<1>3. PendingOK(q) /\ LoopOK(q) /\ SyncOK(q)
  BY <1>1, ThreadsFrame DEF Holding
<1>4. GenOK(q, m) /\ Theirs(q)
  BY <1>1, RoundFrame DEF Holding
<1>5. LockOK(q, l)
  BY <1>1, <1>2, LockFrame DEF Holding
<1>6. SteppingOK(q, X)
  <2>1. \A p : Over(q, p) = Over(r, p)
    BY <1>1 DEF Over
  <2> QED
    BY <1>1, <2>1 DEF Holding, SteppingOK, Instructed
<1>7. BreakOK(q)
  BY <1>1 DEF Instructed, BreakOK, Holding
<1> QED
  BY <1>1, <1>3, <1>4, <1>5, <1>6, <1>7 DEF Holding

\* A thread that nobody stops is not in a group that stands still.
LEMMA LooseMoves ==
  ASSUME NEW r, NEW p, IsAllStopped(r, p), NEW t \in ThreadsOf(p)
  PROVE  ~Loose(r.ctx[t])
BY DEF IsAllStopped, Loose

\* clear_instruction_refs and evaluate_bp_location, while the threads stand still.
LEMMA LocationHolds ==
  ASSUME NEW r, NEW l \in Nat, NEW m \in Nat, NEW X, Holding(r, l, m, X), NEW p \in Procs,
         r.gen_posted # r.gen_done, IsAllStopped(r, p)
  PROVE  Holding(EvaluateLocation(r, p), l, m, X)
<1> DEFINE b == r.bi[p]
           on == Enabled(r) /\ ~ProcExited(r, p)
           valid == b.valid /\ b.ref = "none" /\ ~b.loc /\ ~on
           ref == IF b.ref = "none" THEN b.ref ELSE "stale"
           d == [b EXCEPT !.valid = valid, !.ref = ref, !.loc = on]
           q == [r EXCEPT !.bi[p] = d]
<1>1. EvaluateLocation(r, p) = q
  BY DEF EvaluateLocation
<1>2. Shape(r) /\ InstructionOK(r, p)
  BY DEF Holding, BreakOK
<1>3. /\ b \in InstructionT
      /\ b.exists \in BOOLEAN /\ b.planted \in BOOLEAN
      /\ b.valid \in BOOLEAN /\ b.loc \in BOOLEAN
      /\ b.ref \in {"none", "stale", "live"} /\ b.stepping \in Int
  BY <1>2, InstructionFields
<1>4. valid \in BOOLEAN /\ on \in BOOLEAN /\ ref \in {"none", "stale"}
  BY <1>3 DEF Enabled, ProcExited
<1> HIDE DEF valid, on, ref
<1>5. d \in InstructionT
  BY <1>3, <1>4 DEF InstructionT
<1>6. d.exists = b.exists /\ d.planted = b.planted /\ d.ref = ref /\ d.stepping = b.stepping
  BY <1>3 DEF InstructionT
<1> HIDE DEF d
<1>7. /\ Shape(q) /\ DOMAIN q = DOMAIN r /\ q.bi[p] = d
      /\ \A g \in StateFields \ {"bi"} : q[g] = r[g]
      /\ \A x \in Procs \ {p} : q.bi[x] = r.bi[x]
  BY <1>2, <1>5, NewInstructionRecord
<1> HIDE DEF q
<1>8. q.ctx = r.ctx /\ q.gen_posted = r.gen_posted /\ q.gen_done = r.gen_done
  BY <1>7 DEF StateFields
<1>9. ASSUME NEW x \in Procs \ {p} PROVE InstructionOK(q, x)
  BY <1>7, <1>8, InstructionSame DEF Holding, BreakOK
<1>10. InstructionOK(q, p)
  <2>1. \A t \in ThreadsOf(p) : ~Loose(r.ctx[t])
    BY LooseMoves
  <2> QED
    BY <1>2, <1>4, <1>6, <1>7, <1>8, <2>1 DEF InstructionOK
<1>11. Instructed(r, q)
  BY <1>6, <1>7, <1>9, <1>10 DEF Instructed
<1> QED
  BY <1>1, <1>11, InstructedHolds

\* The evaluation of a request, while the threads stand still.
LEMMA EvaluatedHolds ==
  ASSUME NEW r, NEW l \in Nat, NEW m \in Nat, NEW X, Holding(r, l, m, X), NEW p \in Procs,
         r.gen_posted # r.gen_done, IsAllStopped(r, p), NEW ok
  PROVE  /\ Holding(Evaluated(r, p, ok), l, m, X)
         /\ \A g \in StateFields \ {"bi"} : Evaluated(r, p, ok)[g] = r[g]
<1> DEFINE a == EvaluateLocation(r, p)
           s == IF r.loc_active[p] THEN a ELSE r
           q == [s EXCEPT !.cond_ok[p] = ok]
<1>1. Evaluated(r, p, ok) = q
  BY DEF Evaluated
<1>2. Holding(a, l, m, X)
  BY LocationHolds
<1>3. Shape(r)
  BY DEF Holding
<1>4. \A g \in StateFields \ {"bi"} : a[g] = r[g]
  BY <1>3 DEF EvaluateLocation, Shape, StateFields
<1> HIDE DEF a
<1>5. Holding(s, l, m, X) /\ \A g \in StateFields \ {"bi"} : s[g] = r[g]
  BY <1>2, <1>4
<1>6. Shape(s) /\ GenBase(s)
  BY <1>5 DEF Holding, GenOK
<1> HIDE DEF s
<1>7. "cond_ok" \notin StateFields
  BY DEF StateFields
<1>8. Quiet(s, q)
  BY <1>6, <1>7, Aside
<1>9. \A g \in StateFields : q[g] = s[g]
  BY <1>6, <1>7 DEF Shape
<1> HIDE DEF q
<1>10. Holding(q, l, m, X)
  BY <1>5, <1>6, <1>8, QuietMild, MildHolds
<1> QED
  BY <1>1, <1>5, <1>9, <1>10

\* Only the lock, the queue and the round of replanting change.
Steady(r, q) ==
  /\ Shape(q) /\ q.ctx = r.ctx /\ q.pids = r.pids /\ q.list = r.list /\ q.bi = r.bi
  /\ q.cache_lock = r.cache_lock /\ SameClients(r, q) /\ SameCtl(r, q)

\* What does not depend on the round.
LEMMA SteadyHolds ==
  ASSUME NEW r, NEW q, NEW l \in Nat, NEW m \in Nat, NEW k \in Nat, NEW n \in Nat, NEW X,
         Holding(r, l, m, X), Steady(r, q), LockOK(q, k), GenOK(q, n), Theirs(q),
         \A p \in Procs : ~r.bi[p].valid => q.gen_posted # q.gen_done
  PROVE  Holding(q, k, n, X)
<1>1. PendingOK(q) /\ LoopOK(q) /\ SyncOK(q)
  BY ThreadsFrame DEF Holding, Steady, SameCtl
<1>2. SteppingOK(q, X)
  BY SteppingKept DEF Holding, Steady
<1>3. ASSUME NEW p \in Procs PROVE InstructionOK(q, p)
  <2>1. InstructionOK(r, p)
    BY DEF Holding, BreakOK
  <2>2. ProcExited(q, p) <=> ProcExited(r, p)
    BY DEF Steady, ProcExited, IsLinked
  <2> QED
    BY <2>1, <2>2 DEF Steady, InstructionOK
<1>4. BreakOK(q)
  BY <1>3 DEF Steady, Holding, BreakOK
<1> QED
  BY <1>1, <1>2, <1>4 DEF Holding, Steady

\* run_ctrl_unlock
LEMMA UnlockHolds ==
  ASSUME NEW r, NEW l \in Nat, NEW m \in Nat, NEW X, Holding(r, l + 1, m, X)
  PROVE  /\ Holding(run_ctrl_unlock(r), l, m, X)
         /\ SameCtl(r, run_ctrl_unlock(r)) /\ SameClients(r, run_ctrl_unlock(r))
<1> DEFINE n == r.lock - 1
           q == [r EXCEPT !.lock = n]
           v == run_ctrl_unlock(r)
<1>1. Shape(r) /\ l + 1 \in Nat
  BY DEF Holding
<1>2. n \in Int
  BY <1>1 DEF Shape
<1>3. v = q \/ v = PostSafe(q)
  BY DEF run_ctrl_unlock
<1> HIDE DEF n
<1>4. /\ DOMAIN q = DOMAIN r /\ q.lock = n
      /\ \A g \in StateFields \ {"lock"} : q[g] = r[g]
  BY <1>1 DEF Shape, StateFields
<1> HIDE DEF q
<1>5. Steady(r, q)
  <2>1. Shape(q)
    BY <1>1, <1>2, <1>4 DEF Shape, ThreadShape, StateFields
  <2> QED
    BY <1>4, <2>1 DEF Steady, StateFields, SameClients, SameCtl
<1>6. GenOK(q, m) /\ Theirs(q) /\ \A T : Clients(q, T) = Clients(r, T)
  <2>1. /\ q.queue = r.queue /\ q.gen_posted = r.gen_posted /\ q.evals_posted = r.evals_posted
        /\ SameClients(r, q) /\ SameRound(r, q)
    BY <1>4 DEF StateFields, SameClients, SameRound
  <2> QED
    BY <2>1, RoundFrame DEF Holding
<1>7. LockOK(q, l)
  <2>1. r.lock = Len(r.list) + One(r.cache_lock) + One(r.gen_posted # r.gen_done)
                 + Clients(r, Mem) + (l + 1)
    BY DEF Holding, LockOK
  <2> DEFINE a == One(r.cache_lock)
             b == One(r.gen_posted # r.gen_done)
             c == Clients(r, Mem)
             k == Len(r.list)
  <2>2. a \in Nat /\ b \in Nat /\ c \in Nat /\ k \in Nat
    BY <1>1, ClientsNat, LenProperties DEF One, Shape
  <2>3. q.list = r.list /\ q.cache_lock = r.cache_lock /\ q.gen_posted = r.gen_posted
        /\ q.gen_done = r.gen_done /\ Clients(q, Mem) = c
    BY <1>4, <1>6 DEF StateFields
  <2>4. r.lock = k + a + b + c + (l + 1)
    BY <2>1
  <2>6. LockOK(q, l) <=> q.lock = k + a + b + c + l
    BY <2>3, Zenon DEF LockOK
  <2> HIDE DEF a, b, c, k
  <2>5. n = k + a + b + c + l
    BY <2>2, <2>4 DEF n
  <2> QED
    BY <1>4, <2>5, <2>6
<1>8. q.gen_posted = r.gen_posted /\ q.gen_done = r.gen_done
  BY <1>4 DEF StateFields
<1>9. \A p \in Procs : ~r.bi[p].valid => q.gen_posted # q.gen_done
  BY <1>8 DEF Holding, BreakOK, InstructionOK
<1>10. Holding(q, l, m, X)
  BY <1>1, <1>5, <1>6, <1>7, <1>9, SteadyHolds
<1>11. Shape(q) /\ GenBase(q)
  BY <1>10 DEF Holding, GenOK
<1>12. Quiet(q, v)
  BY <1>3, <1>11, PostSafeQuiet, QuietSame
<1> HIDE DEF v
<1>13. Holding(v, l, m, X)
  BY <1>10, <1>11, <1>12, QuietMild, MildHolds
<1>14. SameCtl(r, v) /\ SameClients(r, v)
  BY <1>5, <1>12 DEF Steady, Quiet, Around, Same, SameCtl, SameClients
<1> QED
  BY <1>13, <1>14 DEF v

\* Nobody is among the clients.
LEMMA NoClients ==
  ASSUME NEW r, Shape(r), NEW T, Clients(r, T) = 0
  PROVE  \A c \in Range(r.run) \cup Range(r.waiting) \cup Range(r.missed) : c \notin T
<1>1. r.run \in Seq(ClientT) /\ r.waiting \in Seq(ClientT) /\ r.missed \in Seq(ClientT)
  BY DEF Shape
<1>2. ASSUME NEW s \in Seq(ClientT), Cardinality(Places(s, T)) = 0
      PROVE  \A c \in Range(s) : c \notin T
  <2>1. Places(s, T) = {}
    BY <1>2, PlacesFinite, FS_EmptySet
  <2> QED
    BY <2>1 DEF Places, Range
<1>3. /\ Cardinality(Places(r.run, T)) = 0 /\ Cardinality(Places(r.waiting, T)) = 0
      /\ Cardinality(Places(r.missed, T)) = 0
  <2>1. \A x, y, z \in Nat : x + y + z = 0 => x = 0 /\ y = 0 /\ z = 0
    OBVIOUS
  <2>2. /\ Cardinality(Places(r.run, T)) \in Nat /\ Cardinality(Places(r.waiting, T)) \in Nat
        /\ Cardinality(Places(r.missed, T)) \in Nat
    BY ClientsNat
  <2> QED
    BY <2>1, <2>2, Zenon DEF Clients
<1> QED
  BY <1>1, <1>2, <1>3

\* The lock has a holder more when a round is done.
LEMMA LockAfterRound ==
  ASSUME NEW r, Shape(r), NEW q, q.list = r.list, q.cache_lock = r.cache_lock, q.lock = r.lock,
         SameClients(r, q), LockOK(r, 0), r.gen_posted # r.gen_done, q.gen_posted = q.gen_done
  PROVE  LockOK(q, 1)
<1> DEFINE a == One(r.cache_lock)
           c == Clients(r, Mem)
           k == Len(r.list)
<1>1. a \in Nat /\ c \in Nat /\ k \in Nat
  BY ClientsNat, LenProperties DEF One, Shape
<1>2. One(r.gen_posted # r.gen_done) = 1 /\ One(q.gen_posted # q.gen_done) = 0
  BY DEF One
<1>3. r.lock = k + a + 1 + c + 0
  BY <1>2, Zenon DEF LockOK
<1>4. LockOK(q, 1) <=> q.lock = k + a + 0 + c + 1
  <2>1. Clients(q, Mem) = c
    BY DEF Clients, SameClients
  <2> QED
    BY <1>2, <2>1, Zenon DEF LockOK
<1> HIDE DEF a, c, k
<1>5. k + a + 1 + c + 0 = k + a + 0 + c + 1
  BY <1>1
<1> QED
  BY <1>3, <1>4, <1>5

\* The end of a round: a request that came meanwhile starts another one,
\* otherwise instructions are planted and removed and the lock is released.
LEMMA RoundEnds ==
  ASSUME NEW r, Holding(r, 0, 1, {}), ~r.active, r.pc = "idle"
  PROVE  Good(ReplantDone(r))
<1> DEFINE n == r.enter_cnt - 1
           a == [r EXCEPT !.enter_cnt = n]
<1>1. Shape(r) /\ GenBase(r) /\ r.enter_cnt = Clients(r, Replants) + 1
      /\ (r.enter_cnt > 0 => r.gen_done < r.gen_active)
  BY DEF Holding, GenOK
<1>2. Clients(r, Replants) \in Nat
  BY <1>1, ClientsNat
<1>3. n \in Int /\ n = Clients(r, Replants) + 0 /\ r.gen_done < r.gen_active
  BY <1>1, <1>2
<1> HIDE DEF n
<1>4. DOMAIN a = DOMAIN r /\ a.enter_cnt = n /\ \A g \in StateFields \ {"enter_cnt"} : a[g] = r[g]
  BY <1>1 DEF Shape, StateFields
<1> HIDE DEF a
<1>5. Holding(a, 0, 0, {}) /\ a.gen_done < a.gen_active /\ ~a.active /\ a.pc = "idle"
  <2>1. Shape(a)
    BY <1>1, <1>3, <1>4 DEF Shape, ThreadShape, StateFields
  <2>2. Steady(r, a)
    BY <1>4, <2>1 DEF Steady, StateFields, SameClients, SameCtl
  <2>3. /\ a.gen_posted = r.gen_posted /\ a.gen_done = r.gen_done /\ a.gen_active = r.gen_active
        /\ a.queue = r.queue /\ a.evals_posted = r.evals_posted
        /\ a.evals_active = r.evals_active /\ a.lock = r.lock
    BY <1>4 DEF StateFields
  <2>4. LockOK(a, 0)
    BY <2>2, <2>3, LockFrame DEF Steady, Holding
  <2>5. Clients(a, Replants) = Clients(r, Replants)
    BY <2>2 DEF Steady, SameClients, Clients
  <2>6. GenOK(a, 0)
    BY <1>1, <1>3, <1>4, <2>3, <2>5 DEF GenOK, GenBase
  <2>7. Theirs(a)
    BY <2>2, <2>3 DEF Steady, SameClients, Holding, Theirs
  <2>8. \A p \in Procs : ~r.bi[p].valid => a.gen_posted # a.gen_done
    BY <2>3 DEF Holding, BreakOK, InstructionOK
  <2>9. Holding(a, 0, 0, {})
    BY <2>2, <2>4, <2>6, <2>7, <2>8, SteadyHolds
  <2> QED
    BY <1>3, <2>2, <2>3, <2>9 DEF Steady, SameCtl
<1>6. CASE r.enter_cnt > 1
  <2>1. ReplantDone(r) = a
    BY <1>6 DEF ReplantDone, a, n
  <2> QED
    BY <1>5, <2>1 DEF Good, RestOK
<1>7. CASE ~(r.enter_cnt > 1)
  <2> DEFINE d == done_all_evaluations(a)
             u == Post([d EXCEPT !.gen_posted = @ + 1], "replant", d.gen_posted + 1)
             f == flush_instructions(d)
             g == [f EXCEPT !.gen_done = d.gen_active]
             h == Renumber(g)
  <2>1. ReplantDone(r) = IF d.evals_posted # <<>> THEN u ELSE run_ctrl_unlock(h)
    <3> DEFINE After(x) ==
                 IF x.evals_posted # <<>>
                 THEN Post([x EXCEPT !.gen_posted = @ + 1], "replant", x.gen_posted + 1)
                 ELSE run_ctrl_unlock(Renumber([flush_instructions(x) EXCEPT
                                                  !.gen_done = x.gen_active]))
    <3>1. ASSUME NEW w PROVE Strict(LAMBDA x : After(x), w) = After(w)
      <4> HIDE DEF After
      <4> QED
        BY Zenon DEF Strict
    <3>2. [r EXCEPT !.enter_cnt = @ - 1] = a
      BY DEF a, n
    <3> HIDE DEF d
    <3> QED
      BY <1>7, <3>1, <3>2, Zenon DEF ReplantDone, d
  <2>2. PICK s : Quiet(a, s) /\ d = [s EXCEPT !.evals_active = <<>>]
    BY <1>5, AllHitsQuiet DEF Holding
  <2>3. n = 0
    BY <1>1, <1>2, <1>7 DEF n
  <2>4. Holding(s, 0, 0, {}) /\ s.enter_cnt = 0 /\ s.gen_done < s.gen_active /\ ~s.active
        /\ s.pc = "idle"
    <3>1. Shape(a) /\ GenBase(a)
      BY <1>5 DEF Holding, GenOK
    <3> QED
      BY <1>4, <1>5, <2>2, <2>3, <3>1, QuietMild, MildHolds
         DEF Quiet, Around, Same, SameRound, SameCtl
  <2>5. Shape(s) /\ DOMAIN d = DOMAIN s /\ d.evals_active = <<>>
        /\ \A x \in StateFields \ {"evals_active"} : d[x] = s[x]
    BY <2>2, <2>4 DEF Holding, Shape, StateFields
  <2> HIDE DEF d
  <2>6. Holding(d, 0, 0, {})
    <3>1. Shape(d)
      BY <2>5, EmptySeq DEF Shape, ThreadShape, StateFields
    <3>2. Steady(s, d)
      BY <2>5, <3>1 DEF Steady, StateFields, SameClients, SameCtl
    <3>3. /\ d.gen_posted = s.gen_posted /\ d.gen_done = s.gen_done /\ d.gen_active = s.gen_active
          /\ d.queue = s.queue /\ d.evals_posted = s.evals_posted /\ d.enter_cnt = s.enter_cnt
          /\ d.lock = s.lock
      BY <2>5 DEF StateFields
    <3>4. LockOK(d, 0)
      BY <2>4, <3>2, <3>3, LockFrame DEF Steady, Holding
    <3>5. \A T : Clients(d, T) = Clients(s, T)
      BY <3>2 DEF Steady, SameClients, Clients
    <3>6. GenOK(d, 0)
      BY <2>4, <3>3, <3>5 DEF Holding, GenOK, GenBase
    <3>7. Clients(d, Replants) \in Nat /\ d.enter_cnt = Clients(d, Replants) + 0
      BY <3>1, <3>6, ClientsNat DEF GenOK
    <3>8. Clients(d, Replants) = 0
      BY <2>4, <3>3, <3>7
    <3>9. \A c \in Range(d.run) \cup Range(d.waiting) \cup Range(d.missed) : c \notin Replants
      BY <3>1, <3>8, NoClients
    <3>10. \A c \in Range(d.run) \cup Range(d.waiting) \cup Range(d.missed) : c \in ClientT
      <4>1. ASSUME NEW z \in Seq(ClientT) PROVE Range(z) \subseteq ClientT
        BY LenProperties, ElementOfSeq DEF Range
      <4> QED
        BY <3>1, <4>1 DEF Shape
    <3>11. Theirs(d)
      BY <3>9, <3>10 DEF Theirs, Replants
    <3>12. \A p \in Procs : ~s.bi[p].valid => d.gen_posted # d.gen_done
      BY <2>4, <3>3 DEF Holding, BreakOK, InstructionOK
    <3> QED
      BY <2>4, <3>2, <3>4, <3>6, <3>11, <3>12, SteadyHolds
  <2>7. /\ d.enter_cnt = 0 /\ d.gen_done < d.gen_active /\ ~d.active /\ d.pc = "idle"
        /\ Shape(d) /\ GenBase(d)
    BY <2>4, <2>5, <2>6 DEF StateFields, Holding, GenOK
  <2>8. CASE d.evals_posted # <<>>
    <3> DEFINE k == d.gen_posted + 1
               e == [ev |-> "replant", gen |-> k]
               w == Append(d.queue, e)
    <3>1. /\ d.gen_posted \in Nat /\ d.gen_active \in Nat /\ d.gen_done \in Nat
          /\ d.gen_active <= d.gen_posted /\ d.queue \in Seq(Event)
          /\ QueueOK(d.queue, d.gen_active, d.gen_posted)
      BY <2>7 DEF Shape, GenBase
    <3>2. w \in Seq(Event) /\ QueueOK(w, d.gen_active, k)
      BY <3>1, QueueReplant
    <3>3. k \in Nat /\ d.gen_active <= k /\ k # d.gen_done /\ d.gen_posted # d.gen_done
      BY <2>7, <3>1
    <3>4. /\ DOMAIN u = DOMAIN d /\ u.queue = w /\ u.gen_posted = k
          /\ \A x \in StateFields \ {"queue", "gen_posted"} : u[x] = d[x]
      BY <2>7 DEF Post, Shape, StateFields
    <3> HIDE DEF u, w, k
    <3>5. Shape(u)
      BY <2>7, <3>2, <3>3, <3>4 DEF Shape, ThreadShape, StateFields
    <3>6. Steady(d, u)
      BY <3>4, <3>5 DEF Steady, StateFields, SameClients, SameCtl
    <3>7. /\ u.gen_done = d.gen_done /\ u.gen_active = d.gen_active /\ u.lock = d.lock
          /\ u.evals_posted = d.evals_posted /\ u.enter_cnt = d.enter_cnt
          /\ u.evals_active = d.evals_active
      BY <3>4 DEF StateFields
    <3>8. \A T : Clients(u, T) = Clients(d, T)
      BY <3>6 DEF Steady, SameClients, Clients
    <3>9. GenOK(u, 0)
      <4>1. GenBase(u)
        BY <2>7, <2>8, <3>1, <3>2, <3>3, <3>4, <3>7 DEF GenBase
      <4> QED
        BY <2>6, <3>7, <3>8, <4>1 DEF Holding, GenOK
    <3>10. Theirs(u)
      BY <2>6, <3>6, <3>7 DEF Holding, Steady, SameClients, Theirs
    <3>11. LockOK(u, 0)
      <4>1. One(u.gen_posted # u.gen_done) = One(d.gen_posted # d.gen_done)
        BY <3>3, <3>4, <3>7 DEF One
      <4>2. LockOK(d, 0) /\ u.list = d.list /\ u.cache_lock = d.cache_lock
        BY <2>6, <3>6 DEF Holding, Steady
      <4> QED
        BY <3>7, <3>8, <4>1, <4>2, Zenon DEF LockOK
    <3>12. Holding(u, 0, 0, {})
      <4>1. u.gen_posted # u.gen_done
        BY <3>3, <3>4, <3>7
      <4> QED
        BY <2>6, <3>6, <3>9, <3>10, <3>11, <4>1, SteadyHolds
    <3>13. Good(u)
      BY <2>7, <3>6, <3>12 DEF Good, RestOK, Steady, SameCtl
    <3> QED
      BY <2>1, <2>8, <3>13 DEF u
  <2>9. CASE d.evals_posted = <<>>
    <3>1. d.gen_active = d.gen_posted /\ d.gen_posted \in Nat /\ d.gen_done \in Nat
      BY <2>7, <2>9 DEF GenBase, Shape
    <3>2. Instructed(d, f) /\ \A p \in Procs : f.bi[p].valid
      <4>1. \A p \in Procs : d.bi[p].stepping \in Nat
        <5>1. \A p \in Procs : d.bi[p].stepping = Cardinality(Over(d, p))
          BY <2>6 DEF Holding, SteppingOK
        <5>2. \A p \in Procs : Over(d, p) \in SUBSET Threads
          BY DEF Over, ThreadsOf
        <5> QED
          BY <5>1, <5>2, ThreadsFinite
      <4> QED
        BY <2>6, <2>7, <4>1, FlushFacts DEF Holding
    <3> HIDE DEF f
    <3>3. Holding(f, 0, 0, {})
      BY <2>6, <3>2, InstructedHolds
    <3>4. /\ f.gen_active = d.gen_posted /\ f.gen_posted = d.gen_posted /\ f.gen_done = d.gen_done
          /\ f.enter_cnt = 0 /\ ~f.active /\ f.pc = "idle" /\ f.evals_posted = <<>>
      BY <2>7, <2>9, <3>1, <3>2 DEF Instructed, StateFields
    <3>5. \A i \in DOMAIN f.queue : f.queue[i].ev # "replant"
      <4>1. f.queue \in Seq(Event) /\ QueueOK(f.queue, d.gen_posted, d.gen_posted)
        BY <3>3, <3>4 DEF Holding, GenOK, GenBase, Shape
      <4>2. \A i \in DOMAIN f.queue : f.queue[i] \in Event
        BY <4>1, LenProperties, ElementOfSeq
      <4>3. \A x \in Event : x.gen \in Nat
        BY DEF Event
      <4> QED
        BY <3>1, <4>1, <4>2, <4>3 DEF QueueOK
    <3>6. /\ DOMAIN h = DOMAIN f
          /\ h.gen_posted = 0 /\ h.gen_active = 0 /\ h.gen_done = 0
          /\ \A x \in StateFields \ {"gen_posted", "gen_active", "gen_done"} : h[x] = f[x]
      <4>1. Shape(f)
        BY <3>3 DEF Holding
      <4>2. g.gen_posted = g.gen_done /\ g.queue = f.queue /\ DOMAIN g = DOMAIN f
        BY <3>1, <3>4, <4>1 DEF Shape, StateFields
      <4>3. h = [g EXCEPT !.gen_posted = 0, !.gen_active = 0, !.gen_done = 0]
        BY <3>5, <4>2 DEF Renumber
      <4>4. \A x \in StateFields \ {"gen_done"} : g[x] = f[x]
        BY <4>1 DEF Shape
      <4> HIDE DEF g, h
      <4> QED
        BY <4>1, <4>2, <4>3, <4>4 DEF Shape, StateFields
    <3> HIDE DEF h
    <3>7. Shape(f) /\ LockOK(f, 0)
      BY <3>3 DEF Holding
    <3>8. Shape(h)
      BY <3>6, <3>7 DEF Shape, ThreadShape, StateFields
    <3>9. Steady(f, h)
      BY <3>6, <3>8 DEF Steady, StateFields, SameClients, SameCtl
    <3>10. /\ h.queue = f.queue /\ h.lock = f.lock /\ h.evals_posted = f.evals_posted
           /\ h.enter_cnt = f.enter_cnt /\ h.evals_active = f.evals_active
      BY <3>6 DEF StateFields
    <3>11. LockOK(h, 1)
      <4>1. f.gen_posted # f.gen_done
        BY <2>7, <3>1, <3>4
      <4> QED
        BY <3>6, <3>7, <3>9, <3>10, <4>1, LockAfterRound DEF Steady
    <3>12. GenOK(h, 0)
      <4>1. QueueOK(h.queue, 0, 0)
        BY <3>5, <3>10 DEF QueueOK
      <4>2. Clients(h, Replants) = Clients(f, Replants)
        BY <3>9 DEF Steady, SameClients, Clients
      <4> QED
        BY <3>3, <3>4, <3>6, <3>10, <4>1, <4>2 DEF Holding, GenOK, GenBase
    <3>13. Theirs(h)
      BY <3>3, <3>9, <3>10 DEF Holding, Steady, SameClients, Theirs
    <3>14. Holding(h, 0 + 1, 0, {})
      <4>1. 0 + 1 = 1
        OBVIOUS
      <4> QED
        BY <3>2, <3>3, <3>9, <3>11, <3>12, <3>13, <4>1, SteadyHolds
    <3>15. Holding(run_ctrl_unlock(h), 0, 0, {}) /\ SameCtl(h, run_ctrl_unlock(h))
      BY <3>14, UnlockHolds
    <3>16. Good(run_ctrl_unlock(h))
      BY <3>4, <3>9, <3>15 DEF Good, RestOK, Steady, SameCtl
    <3> QED
      BY <2>1, <2>9, <3>16 DEF h, g, f
  <2> QED
    BY <2>8, <2>9
<1> QED
  BY <1>6, <1>7

-----------------------------------------------------------------------------
(* Safe events.                                                            *)

\* post_safe_event
LEMMA PostSafeEvent ==
  ASSUME NEW r, Shape(r), NEW i \in Item
  PROVE  LET q == post_safe_event(r, i)
         IN  /\ Shape(q) /\ q.list = Append(r.list, i) /\ q.lock = r.lock + 1
             /\ QueueKept(r.queue, q.queue)
             /\ q.ctx = r.ctx /\ q.pids = r.pids /\ q.bi = r.bi /\ q.cache_lock = r.cache_lock
             /\ q.gen_posted = r.gen_posted /\ q.evals_posted = r.evals_posted
             /\ SameClients(r, q) /\ SameCtl(r, q) /\ SameRound(r, q)
<1> DEFINE n == r.lock + 1
           L == Append(r.list, i)
           s == [r EXCEPT !.lock = n, !.list = L]
           w == Append(s.queue, [ev |-> "safe", gen |-> 0])
           q == post_safe_event(r, i)
<1>1. n \in Int /\ L \in Seq(Item)
  BY AppendProperties DEF Shape
<1>2. q = s \/ q = PostSafe(s)
  BY DEF post_safe_event
<1> HIDE DEF n, L
<1>3. /\ DOMAIN s = DOMAIN r /\ s.lock = n /\ s.list = L
      /\ \A g \in StateFields \ {"lock", "list"} : s[g] = r[g]
  BY DEF Shape, StateFields
<1> HIDE DEF s
<1>4. Shape(s)
  BY <1>1, <1>3 DEF Shape, ThreadShape, StateFields
<1>5. Quiet(s, q)
  BY <1>2, <1>4, QuietSame, PostSafeQuiet
<1>6. q.ctx = s.ctx
  BY <1>2, <1>4 DEF PostSafe, Post, Shape, StateFields
<1> HIDE DEF q
<1>7. /\ Shape(q) /\ q.list = s.list /\ q.lock = s.lock /\ QueueKept(s.queue, q.queue)
      /\ q.pids = s.pids /\ q.bi = s.bi /\ q.cache_lock = s.cache_lock
      /\ q.gen_posted = s.gen_posted /\ q.evals_posted = s.evals_posted
      /\ SameClients(s, q) /\ SameCtl(s, q) /\ SameRound(s, q)
  BY <1>5 DEF Quiet, Around, Same
<1>8. /\ s.queue = r.queue /\ s.ctx = r.ctx /\ s.pids = r.pids /\ s.bi = r.bi
      /\ s.cache_lock = r.cache_lock /\ s.gen_posted = r.gen_posted
      /\ s.evals_posted = r.evals_posted
      /\ SameClients(r, s) /\ SameCtl(r, s) /\ SameRound(r, s)
  BY <1>3 DEF StateFields, SameClients, SameCtl, SameRound
<1>9. SameClients(r, q) /\ SameCtl(r, q) /\ SameRound(r, q)
  BY <1>7, <1>8 DEF SameClients, SameCtl, SameRound
<1> QED
  BY <1>3, <1>6, <1>7, <1>8, <1>9 DEF q, n, L

\* The events of a thread on its way over a breakpoint.
LEMMA GoesFacts ==
  ASSUME NEW i \in Item, NEW t \in Threads
  PROVE  /\ (i \in Goes(t) <=> i.done \in {"skip", "restore"} /\ i.arg = t)
         /\ i.grp \in Procs
         /\ i.done \in {"none", "terminate", "skip", "restore"}
         /\ i.done # "none" => i.arg \in Threads /\ i.grp = ProcOf[i.arg]
<1>1. CASE i \in [grp : Procs, done : {"none"}]
  BY <1>1 DEF Goes
<1>2. CASE i \in {x \in [grp : Procs, done : {"terminate", "skip", "restore"}, arg : Threads] :
                    x.grp = ProcOf[x.arg]}
  BY <1>2 DEF Goes
<1> QED
  BY <1>1, <1>2 DEF Item

\* The lock has a holder more: an event in the list.
LEMMA LockMore ==
  ASSUME NEW r, Shape(r), NEW q, Len(q.list) = Len(r.list) + 1, q.cache_lock = r.cache_lock,
         q.lock = r.lock + 1, q.gen_posted = r.gen_posted, q.gen_done = r.gen_done,
         SameClients(r, q), NEW l \in Nat, LockOK(r, l)
  PROVE  LockOK(q, l)
<1> DEFINE a == One(r.cache_lock)
           b == One(r.gen_posted # r.gen_done)
           c == Clients(r, Mem)
           k == Len(r.list)
<1>1. a \in Nat /\ b \in Nat /\ c \in Nat /\ k \in Nat
  BY ClientsNat, LenProperties DEF One, Shape
<1>2. r.lock = k + a + b + c + l
  BY Zenon DEF LockOK
<1>3. LockOK(q, l) <=> q.lock = (k + 1) + a + b + c + l
  <2>1. Clients(q, Mem) = c
    BY DEF Clients, SameClients
  <2> QED
    BY <2>1, Zenon DEF LockOK
<1> HIDE DEF a, b, c, k
<1>4. (k + a + b + c + l) + 1 = (k + 1) + a + b + c + l
  BY <1>1
<1> QED
  BY <1>2, <1>3, <1>4

\* A safe event is posted; for a thread on its way over a breakpoint that was in
\* the hands of the handler.
LEMMA PostedHolds ==
  ASSUME NEW r, NEW l \in Nat, NEW m \in Nat, NEW X, NEW Y, Holding(r, l, m, X), NEW i \in Item,
         i.done \in {"skip", "restore"} => i.arg \in X /\ Y = X \ {i.arg},
         i.done \notin {"skip", "restore"} => Y = X
  PROVE  Holding(post_safe_event(r, i), l, m, Y)
<1> DEFINE q == post_safe_event(r, i)
<1>1. Shape(r)
  BY DEF Holding
<1>2. /\ Shape(q) /\ q.list = Append(r.list, i) /\ q.lock = r.lock + 1
      /\ QueueKept(r.queue, q.queue)
      /\ q.ctx = r.ctx /\ q.pids = r.pids /\ q.bi = r.bi /\ q.cache_lock = r.cache_lock
      /\ q.gen_posted = r.gen_posted /\ q.evals_posted = r.evals_posted
      /\ SameClients(r, q) /\ SameCtl(r, q) /\ SameRound(r, q)
  BY <1>1, PostSafeEvent
<1> HIDE DEF q
<1>3. PendingOK(q) /\ LoopOK(q) /\ SyncOK(q)
  BY <1>2, ThreadsFrame DEF Holding, SameCtl
<1>4. q.gen_done = r.gen_done /\ q.gen_active = r.gen_active
  BY <1>2 DEF SameRound
<1>5. BreakOK(q)
  BY <1>2, <1>4, InstructionSame DEF Holding, BreakOK
<1>6. LockOK(q, l)
  <2>1. Len(q.list) = Len(r.list) + 1
    BY <1>1, <1>2, AppendProperties DEF Shape
  <2> QED
    BY <1>1, <1>2, <1>4, <2>1, LockMore DEF Holding
<1>7. GenOK(q, m) /\ Theirs(q)
  <2>1. \A T : Clients(q, T) = Clients(r, T)
    BY <1>2 DEF Clients, SameClients
  <2>2. r.gen_active \in Nat /\ r.gen_posted \in Nat
    BY <1>1 DEF Shape
  <2>3. GenBase(q)
    BY <1>2, <1>4, <2>2 DEF Holding, GenOK, GenBase, QueueKept
  <2>4. GenOK(q, m)
    BY <1>2, <2>1, <2>3 DEF Holding, GenOK, SameRound
  <2>5. Theirs(q)
    BY <1>2 DEF Holding, Theirs, SameRound, SameClients
  <2> QED
    BY <2>4, <2>5
<1>8. SteppingOK(q, Y)
  <2>1. \A p \in Procs : q.bi[p].stepping = Cardinality(Over(q, p))
    <3>1. \A p : Over(q, p) = Over(r, p)
      BY <1>2 DEF Over
    <3> QED
      BY <1>2, <3>1 DEF Holding, SteppingOK
  <2>2. ASSUME NEW t \in Threads
        PROVE  Cardinality(Places(q.list, Goes(t))) + One(t \in Y) = One(q.ctx[t].stepping_over)
    <3> DEFINE n == Cardinality(Places(r.list, Goes(t)))
               k == Cardinality(Places(q.list, Goes(t)))
               o == One(r.ctx[t].stepping_over)
    <3>1. n + One(t \in X) = o
      BY DEF Holding, SteppingOK
    <3>2. n \in Nat /\ k = n + (IF i \in Goes(t) THEN 1 ELSE 0)
      <4>1. r.list \in Seq(Item) /\ q.list = Append(r.list, i)
        BY <1>1, <1>2 DEF Shape
      <4> QED
        BY <4>1, PlacesFinite, PlacesAppend
    <3>3. One(q.ctx[t].stepping_over) = o
      BY <1>2
    <3>4. i \in Goes(t) <=> i.done \in {"skip", "restore"} /\ i.arg = t
      BY GoesFacts
    <3> HIDE DEF n, k, o
    <3>5. CASE i \in Goes(t)
      <4>1. t \in X /\ t \notin Y
        BY <3>4, <3>5
      <4>2. k = n + 1 /\ n + 1 = o
        BY <3>1, <3>2, <3>5, <4>1 DEF One
      <4> QED
        BY <3>2, <3>3, <4>1, <4>2 DEF One, k
    <3>6. CASE i \notin Goes(t)
      <4>1. k = n /\ (t \in X <=> t \in Y)
        BY <3>2, <3>4, <3>6
      <4> QED
        BY <3>1, <3>3, <4>1 DEF One, k
    <3> QED
      BY <3>5, <3>6
  <2> QED
    BY <2>1, <2>2 DEF SteppingOK
<1> QED
  BY <1>2, <1>3, <1>5, <1>6, <1>7, <1>8 DEF Holding, q

\* When the lock is free there are no safe events and no round of replanting.
LEMMA LockFree ==
  ASSUME NEW r, NEW l \in Nat, NEW m \in Nat, NEW X, Holding(r, l, m, X), r.lock = 0
  PROVE  r.list = <<>> /\ r.gen_posted = r.gen_done
<1> DEFINE a == One(r.cache_lock)
           b == One(r.gen_posted # r.gen_done)
           c == Clients(r, Mem)
           k == Len(r.list)
<1>1. a \in Nat /\ b \in Nat /\ c \in Nat /\ k \in Nat
  BY ClientsNat, LenProperties DEF One, Shape, Holding
<1>2. 0 = k + a + b + c + l
  BY Zenon DEF LockOK, Holding
<1> HIDE DEF a, b, c, k
<1>4. k = 0 /\ b = 0
  BY <1>1, <1>2
<1>5. r.list = <<>>
  BY <1>4, EmptySeq DEF Holding, Shape, k
<1>6. r.gen_posted = r.gen_done
  BY <1>4 DEF One, b
<1> QED
  BY <1>5, <1>6

-----------------------------------------------------------------------------
(* A thread is started.                                                    *)

\* One thread is waited for, or not any more.
LEMMA OneWaits ==
  ASSUME NEW r, NEW q, NEW t \in Threads,
         \A x \in Threads \ {t} : (q.ctx[x].pending_safe_event <=> r.ctx[x].pending_safe_event),
         r.pids = Cardinality(Waits(r)),
         q.pids = r.pids - One(r.ctx[t].pending_safe_event) + One(q.ctx[t].pending_safe_event)
  PROVE  q.pids = Cardinality(Waits(q))
<1> DEFINE B == Waits(r) \ {t}
<1>1. Waits(q) = IF q.ctx[t].pending_safe_event THEN B \cup {t} ELSE B
  BY DEF Waits
<1>2. Waits(r) = IF r.ctx[t].pending_safe_event THEN B \cup {t} ELSE B
  BY DEF Waits
<1>3. IsFiniteSet(B) /\ t \notin B /\ Cardinality(B) \in Nat
  BY ThreadsFinite DEF Waits
<1> HIDE DEF B
<1>4. Cardinality(B \cup {t}) = Cardinality(B) + 1
  BY <1>3, FS_AddElement
<1> QED
  BY <1>1, <1>2, <1>3, <1>4 DEF One

\* All but one thread are alike.
LEMMA OthersKept ==
  ASSUME NEW r, NEW q, NEW t \in Threads, ButFor(r, q, t)
  PROVE  \A x \in Threads \ {t} :
           /\ (x \in Waits(q) <=> x \in Waits(r)) /\ Tamer(r.ctx[x], q.ctx[x])
           /\ Moves(q.ctx[x]) => Moves(r.ctx[x])
           /\ (q.ctx[x].linked <=> r.ctx[x].linked) /\ (q.ctx[x].exited <=> r.ctx[x].exited)
           /\ (q.ctx[x].stopped <=> r.ctx[x].stopped)
           /\ (q.ctx[x].stop_group_mark <=> r.ctx[x].stop_group_mark)
           /\ (q.ctx[x].pending_safe_event <=> r.ctx[x].pending_safe_event)
           /\ (q.ctx[x].stepping_over <=> r.ctx[x].stepping_over)
<1>1. \A x \in Threads \ {t} : Alike(r.ctx[x], q.ctx[x])
  BY DEF ButFor
<1>2. \A x \in Threads \ {t} : Tamer(r.ctx[x], q.ctx[x])
  BY <1>1, AlikeTamer
<1> QED
  BY <1>1, <1>2 DEF Waits, Moves, Alike, Kept

\* A thread is started where it meets the breakpoint, or cannot run into it.
LEMMA ReleasedHolds ==
  ASSUME NEW r, NEW l \in Nat, NEW m \in Nat, NEW X, Holding(r, l, m, X), NEW t \in Threads,
         NEW q, Released(r, q, t), r.active <=> r.pc = "loop", r.active => ~r.ctx[t].exited,
         LET b == r.bi[ProcOf[t]]
         IN  Loose(q.ctx[t]) => b.valid /\ (b.ref = "live" => b.planted)
  PROVE  Holding(q, l, m, X)
<1> DEFINE c == r.ctx[t]
           d == q.ctx[t]
<1>1. /\ Around(r, q) /\ ButFor(r, q, t) /\ Kept(c, d) /\ ~d.stopped
      /\ c.pending_safe_event => d.pending_safe_event
      /\ ~r.active => (d.pending_safe_event => c.pending_safe_event)
      /\ d.pending_safe_event => c.pending_safe_event \/ c.stop_group_mark
      /\ r.active /\ c.stop_group_mark => d.exiting \/ d.pending_safe_event
      /\ q.pids = r.pids + One(d.pending_safe_event /\ ~c.pending_safe_event)
  BY DEF Released
<1>2. Shape(r) /\ GenBase(r)
  BY DEF Holding, GenOK
<1>3. Asks(r, q) /\ Shape(q) /\ q.bi = r.bi /\ q.list = r.list /\ SameCtl(r, q)
      /\ q.gen_posted = r.gen_posted /\ q.gen_done = r.gen_done
  BY <1>1, <1>2, AroundAsks DEF Around, Same, SameRound
<1>4. LockOK(q, l) /\ GenOK(q, m) /\ Theirs(q)
  BY <1>2, <1>3, BooksKept DEF Holding
<1>5. \A x \in Threads \ {t} :
        /\ (x \in Waits(q) <=> x \in Waits(r)) /\ Tamer(r.ctx[x], q.ctx[x])
        /\ Moves(q.ctx[x]) => Moves(r.ctx[x])
        /\ (q.ctx[x].linked <=> r.ctx[x].linked) /\ (q.ctx[x].exited <=> r.ctx[x].exited)
        /\ (q.ctx[x].stopped <=> r.ctx[x].stopped)
        /\ (q.ctx[x].stop_group_mark <=> r.ctx[x].stop_group_mark)
        /\ (q.ctx[x].pending_safe_event <=> r.ctx[x].pending_safe_event)
        /\ (q.ctx[x].stepping_over <=> r.ctx[x].stepping_over)
  BY <1>1, OthersKept
<1>6. /\ (d.linked <=> c.linked) /\ (d.exited <=> c.exited)
      /\ (d.stop_group_mark <=> c.stop_group_mark) /\ (d.stepping_over <=> c.stepping_over)
  BY <1>1 DEF Kept
<1>7. SteppingOK(q, X)
  <2>1. \A x \in Threads : (q.ctx[x].stepping_over <=> r.ctx[x].stepping_over)
    BY <1>5, <1>6
  <2> QED
    BY <1>3, <2>1, SteppingKept DEF Holding
<1>8. PendingOK(q)
  <2>1. q.pids = Cardinality(Waits(q))
    <3>1. q.pids = r.pids - One(c.pending_safe_event) + One(d.pending_safe_event)
      <4>1. r.pids \in Int
        BY <1>2 DEF Shape
      <4>2. CASE c.pending_safe_event
        <5>1. d.pending_safe_event
          BY <1>1, <4>2
        <5>2. q.pids = r.pids + 0 /\ One(c.pending_safe_event) = 1 /\ One(d.pending_safe_event) = 1
          BY <1>1, <4>2, <5>1 DEF One
        <5> QED
          BY <4>1, <5>2
      <4>3. CASE ~c.pending_safe_event
        <5>1. q.pids = r.pids + One(d.pending_safe_event) /\ One(c.pending_safe_event) = 0
          BY <1>1, <4>3 DEF One
        <5>2. One(d.pending_safe_event) \in Int
          BY DEF One
        <5> QED
          BY <4>1, <5>1, <5>2
      <4> QED
        BY <4>2, <4>3
    <3> QED
      BY <1>5, <3>1, OneWaits DEF Holding, PendingOK
  <2>2. d.pending_safe_event => d.linked /\ ~d.stopped /\ ~d.exited
    BY <1>1, <1>6 DEF Holding, PendingOK, LoopOK, Waits
  <2>3. ASSUME NEW x \in Waits(q) PROVE q.ctx[x].linked /\ ~q.ctx[x].stopped /\ ~q.ctx[x].exited
    <3>1. x \in Threads /\ q.ctx[x].pending_safe_event
      BY DEF Waits
    <3>2. CASE x = t
      BY <2>2, <3>1, <3>2
    <3>3. CASE x # t
      BY <1>5, <3>1, <3>3 DEF Holding, PendingOK
    <3> QED
      BY <3>2, <3>3
  <2> QED
    BY <2>1, <2>3 DEF PendingOK
<1>9. LoopOK(q)
  <2>1. \A x \in Threads : /\ (q.ctx[x].linked <=> r.ctx[x].linked)
                           /\ (q.ctx[x].stop_group_mark <=> r.ctx[x].stop_group_mark)
    BY <1>5, <1>6
  <2>2. q.pc = r.pc
    BY <1>3 DEF SameCtl
  <2>3. ASSUME q.pc = "loop", NEW x \in Threads, Moves(q.ctx[x]) PROVE x \in Waits(q)
    <3>1. CASE x = t
      BY <1>1, <1>6, <2>2, <2>3, <3>1 DEF Moves, Waits
    <3>2. CASE x # t
      BY <1>5, <2>2, <2>3, <3>2 DEF Holding, LoopOK
    <3> QED
      BY <3>1, <3>2
  <2> QED
    BY <2>1, <2>2, <2>3 DEF Holding, LoopOK
<1>10. SyncOK(q)
  <2>1. q.pc = r.pc /\ q.sync = r.sync
    BY <1>3 DEF SameCtl
  <2>2. r.pc \in {"flag", "move"} => Waits(q) = Waits(r)
    <3>1. r.pc \in {"flag", "move"} => (d.pending_safe_event <=> c.pending_safe_event)
      BY <1>1
    <3> QED
      BY <1>5, <3>1 DEF Waits
  <2>3. \A i \in DOMAIN r.sync.todo : r.sync.todo[i] \in Threads
    BY <1>2, LenProperties, ElementOfSeq DEF Shape
  <2>4. \A x \in Threads : (q.ctx[x].linked <=> r.ctx[x].linked)
    BY <1>5, <1>6
  <2> QED
    BY <2>1, <2>2, <2>3, <2>4 DEF Holding, SyncOK
<1>11. BreakOK(q)
  <2>1. TrapOK(d) /\ (Trapped(d) => Trapped(c))
    <3>1. TrapOK(c)
      BY DEF Holding, BreakOK
    <3> QED
      BY <1>1, <3>1 DEF TrapOK, Trapped, Kept
  <2>2. \A x \in Threads : TrapOK(q.ctx[x])
    BY <1>5, <2>1 DEF Holding, BreakOK, Tamer
  <2>3. ASSUME NEW p \in Procs PROVE InstructionOK(q, p)
    <3>1. InstructionOK(r, p)
      BY DEF Holding, BreakOK
    <3>2. ProcExited(r, p) => ProcExited(q, p)
      BY <1>5, <1>6 DEF ProcExited, IsLinked, ThreadsOf
    <3>3. \A x \in ThreadsOf(p) : Trapped(q.ctx[x]) => Trapped(r.ctx[x])
      BY <1>5, <2>1 DEF ThreadsOf, Tamer
    <3>4. ASSUME NEW x \in ThreadsOf(p), Loose(q.ctx[x])
          PROVE  r.bi[p].valid /\ (r.bi[p].ref = "live" => r.bi[p].planted)
      <4>1. CASE x = t
        BY <3>4, <4>1 DEF ThreadsOf
      <4>2. CASE x # t
        BY <1>5, <3>1, <3>4, <4>2 DEF ThreadsOf, Tamer, InstructionOK
      <4> QED
        BY <4>1, <4>2
    <3> QED
      BY <1>3, <3>1, <3>2, <3>3, <3>4 DEF InstructionOK
  <2> QED
    BY <2>2, <2>3 DEF BreakOK
<1> QED
  BY <1>3, <1>4, <1>7, <1>8, <1>9, <1>10, <1>11 DEF Holding

\* The parts of the invariant about threads that are waited for, when what they
\* are about does not change.
LEMMA WaitsSame ==
  ASSUME NEW r, Shape(r), NEW q, q.pids = r.pids, q.pc = r.pc, q.sync = r.sync,
         \A x \in Threads :
           \A f \in ThreadFields \ {"k", "safe_single_step", "stepping_over"} :
             q.ctx[x][f] = r.ctx[x][f],
         PendingOK(r), LoopOK(r), SyncOK(r)
  PROVE  PendingOK(q) /\ LoopOK(q) /\ SyncOK(q)
<1>1. \A x \in Threads :
        /\ q.ctx[x].linked = r.ctx[x].linked /\ q.ctx[x].stopped = r.ctx[x].stopped
        /\ q.ctx[x].exited = r.ctx[x].exited /\ q.ctx[x].exiting = r.ctx[x].exiting
        /\ q.ctx[x].cannot_stop = r.ctx[x].cannot_stop
        /\ q.ctx[x].stop_group_mark = r.ctx[x].stop_group_mark
        /\ q.ctx[x].pending_safe_event = r.ctx[x].pending_safe_event
  BY DEF ThreadFields
<1>2. Waits(q) = Waits(r)
  BY <1>1 DEF Waits
<1>3. \A x \in Threads : (Moves(q.ctx[x]) <=> Moves(r.ctx[x]))
  BY <1>1 DEF Moves
<1>4. PendingOK(q)
  BY <1>1, <1>2 DEF PendingOK, Waits
<1>5. LoopOK(q)
  BY <1>1, <1>2, <1>3 DEF LoopOK
<1>6. \A i \in DOMAIN r.sync.todo : r.sync.todo[i] \in Threads
  BY LenProperties, ElementOfSeq DEF Shape
<1>7. SyncOK(q)
  BY <1>1, <1>2, <1>6 DEF SyncOK
<1> QED
  BY <1>4, <1>5, <1>7

\* A thread sets out to step over the breakpoint.
LEMMA SteppingMore ==
  ASSUME NEW r, Shape(r), NEW q, NEW t \in Threads, q.list = r.list, SteppingOK(r, {}),
         \A x \in Threads \ {t} : (q.ctx[x].stepping_over <=> r.ctx[x].stepping_over),
         ~r.ctx[t].stepping_over, q.ctx[t].stepping_over,
         \A p \in Procs \ {ProcOf[t]} : q.bi[p].stepping = r.bi[p].stepping,
         q.bi[ProcOf[t]].stepping = r.bi[ProcOf[t]].stepping + 1
  PROVE  SteppingOK(q, {t})
<1>1. \A p \in Procs \ {ProcOf[t]} : Over(q, p) = Over(r, p)
  BY DEF Over, ThreadsOf
<1>2. Over(q, ProcOf[t]) = Over(r, ProcOf[t]) \cup {t} /\ t \notin Over(r, ProcOf[t])
  BY DEF Over, ThreadsOf
<1>3. IsFiniteSet(Over(r, ProcOf[t]))
  BY ThreadsFinite DEF Over, ThreadsOf
<1>4. Cardinality(Over(q, ProcOf[t])) = Cardinality(Over(r, ProcOf[t])) + 1
  BY <1>2, <1>3, FS_AddElement
<1>5. \A p \in Procs : q.bi[p].stepping = Cardinality(Over(q, p))
  BY <1>1, <1>4 DEF SteppingOK
<1>6. ASSUME NEW x \in Threads
      PROVE  Cardinality(Places(q.list, Goes(x))) + One(x \in {t}) = One(q.ctx[x].stepping_over)
  <2>1. Cardinality(Places(r.list, Goes(x))) + One(x \in {}) = One(r.ctx[x].stepping_over)
    BY DEF SteppingOK
  <2> DEFINE n == Cardinality(Places(r.list, Goes(x)))
  <2>2. n \in Nat
    BY PlacesFinite DEF Shape
  <2> HIDE DEF n
  <2>3. n + 0 = One(r.ctx[x].stepping_over)
    BY <2>1 DEF One, n
  <2>4. CASE x = t
    BY <2>2, <2>3, <2>4 DEF One, n
  <2>5. CASE x # t
    BY <2>2, <2>3, <2>5 DEF One, n
  <2> QED
    BY <2>4, <2>5
<1> QED
  BY <1>5, <1>6 DEF SteppingOK

\* A thread has stepped over the breakpoint, or gives up.
LEMMA SteppingLess ==
  ASSUME NEW r, Shape(r), NEW q, NEW t \in Threads, q.list = r.list, SteppingOK(r, {t}),
         \A x \in Threads \ {t} : (q.ctx[x].stepping_over <=> r.ctx[x].stepping_over),
         ~q.ctx[t].stepping_over,
         \A p \in Procs \ {ProcOf[t]} : q.bi[p].stepping = r.bi[p].stepping,
         q.bi[ProcOf[t]].stepping = r.bi[ProcOf[t]].stepping - 1
  PROVE  SteppingOK(q, {}) /\ r.ctx[t].stepping_over
<1>0. \A x \in Threads : Cardinality(Places(r.list, Goes(x))) \in Nat
  BY PlacesFinite DEF Shape
<1>7. Cardinality(Places(r.list, Goes(t))) + One(t \in {t}) = One(r.ctx[t].stepping_over)
  BY DEF SteppingOK
<1>8. r.ctx[t].stepping_over /\ Cardinality(Places(r.list, Goes(t))) = 0
  BY <1>0, <1>7 DEF One
<1>1. \A p \in Procs \ {ProcOf[t]} : Over(q, p) = Over(r, p)
  BY DEF Over, ThreadsOf
<1>2. Over(q, ProcOf[t]) = Over(r, ProcOf[t]) \ {t} /\ t \in Over(r, ProcOf[t])
  BY <1>8 DEF Over, ThreadsOf
<1>3. IsFiniteSet(Over(r, ProcOf[t]))
  BY ThreadsFinite DEF Over, ThreadsOf
<1>4. Cardinality(Over(q, ProcOf[t])) = Cardinality(Over(r, ProcOf[t])) - 1
  BY <1>2, <1>3, FS_RemoveElement
<1>5. \A p \in Procs : q.bi[p].stepping = Cardinality(Over(q, p))
  BY <1>1, <1>4 DEF SteppingOK
<1>6. ASSUME NEW x \in Threads
      PROVE  Cardinality(Places(q.list, Goes(x))) + One(x \in {}) = One(q.ctx[x].stepping_over)
  <2>1. Cardinality(Places(r.list, Goes(x))) + One(x \in {t}) = One(r.ctx[x].stepping_over)
    BY DEF SteppingOK
  <2> DEFINE n == Cardinality(Places(r.list, Goes(x)))
  <2>2. n \in Nat
    BY <1>0
  <2>3. CASE x = t
    BY <1>8, <2>3 DEF One
  <2>4. CASE x # t
    <3> HIDE DEF n
    <3>1. n + 0 = One(r.ctx[x].stepping_over)
      BY <2>1, <2>4 DEF One, n
    <3> QED
      BY <2>2, <2>4, <3>1 DEF One, n
  <2> QED
    BY <2>3, <2>4
<1> QED
  BY <1>5, <1>6, <1>8 DEF SteppingOK

\* skip_breakpoint
LEMMA SkipHolds ==
  ASSUME NEW r, NEW l \in Nat, NEW m \in Nat, Holding(r, l, m, {}), NEW t \in Threads,
         NeedsSkip(r, t)
  PROVE  /\ Holding(skip_breakpoint(r, t), l, m, {})
         /\ SameCtl(r, skip_breakpoint(r, t)) /\ SameClients(r, skip_breakpoint(r, t))
<1> DEFINE p == ProcOf[t]
           b == r.bi[p]
           n == b.stepping + 1
           e == [b EXCEPT !.stepping = n]
           a == [r EXCEPT !.bi[p] = e]
           c == r.ctx[t]
           d == [c EXCEPT !.stepping_over = TRUE, !.skips = 1]
           s == [a EXCEPT !.ctx[t] = d]
           i == [grp |-> p, done |-> "skip", arg |-> t]
<1>1. skip_breakpoint(r, t) = post_safe_event(s, i)
  <2>1. [r EXCEPT !.bi[p].stepping = @ + 1, !.ctx[t].stepping_over = TRUE, !.ctx[t].skips = 1] = s
    <3>1. Shape(r)
      BY DEF Holding
    <3>2. a.ctx = r.ctx
      BY <3>1 DEF Shape, StateFields
    <3> QED
      BY <3>2
  <2> HIDE DEF s, i
  <2> QED
    BY <2>1 DEF skip_breakpoint, i
<1>2. Shape(r) /\ p \in Procs /\ InstructionOK(r, p) /\ ~c.stepping_over /\ b.exists
  BY ThreadsFinite DEF Holding, BreakOK, NeedsSkip
<1>3. b \in InstructionT /\ b.stepping \in Int
  BY <1>2, InstructionFields
<1>4. /\ e \in InstructionT /\ e.stepping = n /\ e.exists = b.exists /\ e.planted = b.planted
      /\ e.valid = b.valid /\ e.ref = b.ref
  BY <1>3 DEF InstructionT
<1> HIDE DEF e
<1>5. /\ Shape(a) /\ a.bi[p] = e /\ \A g \in StateFields \ {"bi"} : a[g] = r[g]
      /\ \A x \in Procs \ {p} : a.bi[x] = r.bi[x]
  BY <1>2, <1>4, NewInstructionRecord
<1> HIDE DEF a
<1>6. /\ ThreadFields \subseteq DOMAIN d /\ d.stepping_over
      /\ \A g \in ThreadFields \ {"stepping_over"} : d[g] = c[g]
  BY <1>2 DEF Shape, ThreadShape, ThreadFields
<1> HIDE DEF d
<1>7. /\ Around(a, s) /\ s.pids = a.pids /\ s.ctx[t] = d
      /\ \A x \in Threads \ {t} : s.ctx[x] = a.ctx[x]
  BY <1>5, <1>6, NewThreadRecord
<1> HIDE DEF s
<1>8. /\ a.ctx = r.ctx /\ a.list = r.list /\ a.pids = r.pids /\ a.gen_posted = r.gen_posted
      /\ a.gen_done = r.gen_done /\ a.lock = r.lock /\ a.cache_lock = r.cache_lock
      /\ a.queue = r.queue /\ a.evals_posted = r.evals_posted
      /\ SameClients(r, a) /\ SameCtl(r, a) /\ SameRound(r, a)
  BY <1>5 DEF StateFields, SameClients, SameCtl, SameRound
<1>9. /\ s.bi = a.bi /\ s.list = r.list /\ s.gen_posted = r.gen_posted /\ s.gen_done = r.gen_done
      /\ SameClients(r, s) /\ SameCtl(r, s) /\ SameRound(r, s) /\ Shape(s)
      /\ s.lock = r.lock /\ s.cache_lock = r.cache_lock
  BY <1>7, <1>8 DEF Around, Same, SameClients, SameCtl, SameRound
<1>10. \A x \in Threads : \A f \in ThreadFields \ {"stepping_over"} : s.ctx[x][f] = r.ctx[x][f]
  BY <1>6, <1>7, <1>8
<1>11. PendingOK(s) /\ LoopOK(s) /\ SyncOK(s)
  <2>1. s.pids = r.pids /\ s.pc = r.pc /\ s.sync = r.sync
    BY <1>7, <1>8, <1>9 DEF SameCtl
  <2> QED
    BY <1>2, <1>10, <2>1, WaitsSame DEF Holding
<1>12. LockOK(s, l)
  BY <1>9, LockFrame DEF Holding
<1>13. GenOK(s, m) /\ Theirs(s)
  <2>1. GenOK(a, m) /\ Theirs(a)
    BY <1>8, RoundFrame DEF Holding
  <2>2. Asks(a, s)
    BY <1>5, <1>7, <2>1, AroundAsks DEF GenOK
  <2> QED
    BY <1>5, <2>1, <2>2, BooksKept
<1>14. SteppingOK(s, {t})
  BY <1>2, <1>4, <1>5, <1>6, <1>7, <1>8, <1>9, SteppingMore DEF Holding
<1>15. BreakOK(s)
  <2>1. ASSUME NEW x \in Threads
        PROVE  /\ TrapOK(s.ctx[x]) /\ (Trapped(s.ctx[x]) => Trapped(r.ctx[x]))
               /\ (Loose(s.ctx[x]) => Loose(r.ctx[x]))
               /\ (s.ctx[x].linked <=> r.ctx[x].linked) /\ (s.ctx[x].exited <=> r.ctx[x].exited)
    <3>1. TrapOK(r.ctx[x])
      BY DEF Holding, BreakOK
    <3>2. \A f \in ThreadFields \ {"stepping_over"} : s.ctx[x][f] = r.ctx[x][f]
      BY <1>10
    <3> QED
      BY <3>1, <3>2 DEF TrapOK, Trapped, Loose, ThreadFields
  <2>2. ASSUME NEW y \in Procs PROVE InstructionOK(s, y)
    <3>1. InstructionOK(r, y)
      BY DEF Holding, BreakOK
    <3>2. ProcExited(r, y) => ProcExited(s, y)
      BY <2>1 DEF ProcExited, IsLinked, ThreadsOf
    <3>3. \A x \in ThreadsOf(y) : /\ Trapped(s.ctx[x]) => Trapped(r.ctx[x])
                                  /\ Loose(s.ctx[x]) => Loose(r.ctx[x])
      BY <2>1 DEF ThreadsOf
    <3>4. CASE y = p
      <4>1. s.bi[y] = e /\ r.bi[y] = b
        BY <1>5, <1>9, <3>4
      <4>2. b.stepping > 0 => e.stepping > 0
        BY <1>3, <1>4
      <4> QED
        BY <1>2, <1>4, <1>9, <3>1, <3>2, <3>3, <4>1, <4>2 DEF InstructionOK
    <3>5. CASE y # p
      <4>1. s.bi[y] = r.bi[y]
        BY <1>5, <1>9, <3>5
      <4> QED
        BY <1>9, <3>1, <3>2, <3>3, <4>1 DEF InstructionOK
    <3> QED
      BY <3>4, <3>5
  <2> QED
    BY <2>1, <2>2 DEF BreakOK
<1>16. Holding(s, l, m, {t})
  BY <1>9, <1>11, <1>12, <1>13, <1>14, <1>15 DEF Holding
<1>17. i \in Item /\ i.done = "skip" /\ i.arg = t
  BY <1>2 DEF Item
<1> HIDE DEF i
<1>18. Holding(post_safe_event(s, i), l, m, {})
  BY <1>16, <1>17, PostedHolds
<1>19. SameCtl(r, post_safe_event(s, i)) /\ SameClients(r, post_safe_event(s, i))
  BY <1>9, <1>17, PostSafeEvent DEF SameCtl, SameClients
<1> QED
  BY <1>1, <1>18, <1>19

\* When the lock is free, breakpoints are planted where threads may run.
LEMMA PlantedWhenFree ==
  ASSUME NEW r, NEW m \in Nat, Holding(r, 0, m, {}), r.lock = 0, NEW t \in Threads,
         r.ctx[t].linked, ~r.ctx[t].exited
  PROVE  LET b == r.bi[ProcOf[t]]
         IN  b.valid /\ (b.ref = "live" => b.planted)
<1> DEFINE p == ProcOf[t]
<1>1. r.list = <<>> /\ r.gen_posted = r.gen_done
  BY LockFree
<1>2. p \in Procs /\ t \in ThreadsOf(p)
  BY ThreadsFinite
<1>3. Over(r, p) = {}
  <2>1. ASSUME NEW x \in Threads PROVE ~r.ctx[x].stepping_over
    <3>1. Cardinality(Places(r.list, Goes(x))) + One(x \in {}) = One(r.ctx[x].stepping_over)
      BY DEF Holding, SteppingOK
    <3>2. Cardinality(Places(r.list, Goes(x))) = 0
      BY <1>1, PlacesEmpty
    <3> QED
      BY <3>1, <3>2 DEF One
  <2> QED
    BY <2>1 DEF Over, ThreadsOf
<1>4. r.bi[p].stepping = 0
  BY <1>2, <1>3, FS_EmptySet DEF Holding, SteppingOK
<1>5. ~ProcExited(r, p)
  BY <1>2 DEF ProcExited, IsLinked
<1>6. InstructionOK(r, p)
  BY <1>2 DEF Holding, BreakOK
<1> QED
  BY <1>1, <1>4, <1>5, <1>6 DEF InstructionOK

\* context_resume
LEMMA ResumeHolds ==
  ASSUME NEW r, Holding(r, 0, 0, {}), ~r.active, r.pc # "loop", r.lock = 0, NEW t \in Threads,
         NEW mode
  PROVE  LET q == context_resume(r, t, mode)
         IN  Holding(q, 0, 0, {}) /\ SameCtl(r, q) /\ SameClients(r, q)
<1> DEFINE q == context_resume(r, t, mode)
<1>1. \/ q = PtraceKill(r, t)
      \/ NeedsSkip(r, t) /\ q = skip_breakpoint(r, t)
      \/ q = Ptrace(r, t, mode = "step")
  BY DEF context_resume
<1>2. CASE NeedsSkip(r, t) /\ q = skip_breakpoint(r, t)
  BY <1>2, SkipHolds
<1>3. CASE q = PtraceKill(r, t) \/ q = Ptrace(r, t, mode = "step")
  <2>1. Shape(r) /\ TrapOK(r.ctx[t])
    BY DEF Holding, BreakOK
  <2>2. Released(r, q, t)
    BY <1>3, <2>1, KillReleases, PtraceReleases
  <2> HIDE DEF q
  <2>3. LET b == r.bi[ProcOf[t]]
        IN  Loose(q.ctx[t]) => b.valid /\ (b.ref = "live" => b.planted)
    <3>1. Loose(q.ctx[t]) => r.ctx[t].linked /\ ~r.ctx[t].exited
      BY <2>2 DEF Released, Kept, Loose
    <3> QED
      BY <3>1, PlantedWhenFree
  <2>4. Holding(q, 0, 0, {})
    BY <2>2, <2>3, ReleasedHolds
  <2>5. SameCtl(r, q) /\ SameClients(r, q)
    BY <2>2 DEF Released, Around, Same
  <2> QED
    BY <2>4, <2>5 DEF q
<1> QED
  BY <1>1, <1>2, <1>3

-----------------------------------------------------------------------------
(* sync_run_state                                                          *)

\* Only the place in the handler changes.
LEMMA CtlHolds ==
  ASSUME NEW r, NEW l \in Nat, NEW m \in Nat, NEW X, Holding(r, l, m, X), NEW q, Shape(q),
         \A g \in StateFields \ {"pc", "sync"} : q[g] = r[g],
         q.pc = "loop" => r.pc = "loop", SyncOK(q)
  PROVE  Holding(q, l, m, X)
<1>1. /\ q.ctx = r.ctx /\ q.list = r.list /\ q.lock = r.lock /\ q.pids = r.pids
      /\ q.queue = r.queue /\ q.bi = r.bi /\ q.cache_lock = r.cache_lock
      /\ q.gen_posted = r.gen_posted /\ q.evals_posted = r.evals_posted
      /\ SameClients(r, q) /\ SameRound(r, q)
  BY DEF StateFields, SameClients, SameRound
<1>2. q.gen_done = r.gen_done
  BY <1>1 DEF SameRound
<1>3. Waits(q) = Waits(r)
  BY <1>1 DEF Waits
<1>4. PendingOK(q) /\ LoopOK(q)
  BY <1>1, <1>3 DEF Holding, PendingOK, LoopOK
<1>5. GenOK(q, m) /\ Theirs(q)
  BY <1>1, RoundFrame DEF Holding
<1>6. LockOK(q, l)
  BY <1>1, <1>2, LockFrame DEF Holding
<1>7. SteppingOK(q, X)
  BY <1>1, SteppingKept DEF Holding
<1>8. BreakOK(q)
  BY <1>1, <1>2, InstructionSame DEF Holding, BreakOK
<1> QED
  BY <1>4, <1>5, <1>6, <1>7, <1>8 DEF Holding

\* The same between steps.
LEMMA CtlGood ==
  ASSUME NEW r, Good(r), NEW q, Shape(q), \A g \in StateFields \ {"pc", "sync"} : q[g] = r[g],
         q.pc = "loop" => r.pc = "loop", SyncOK(q), q.pc # "idle" => r.run = <<>>
  PROVE  Good(q)
<1>1. Holding(q, 0, 0, {})
  BY CtlHolds DEF Good
<1>2. q.active = r.active /\ q.run = r.run
  BY DEF StateFields
<1> QED
  BY <1>1, <1>2 DEF Good, RestOK

\* What sync_run_state works on.
LEMMA SyncTodo ==
  ASSUME NEW r, Shape(r)
  PROVE  LET u == InOrder(LinkedThreads(r))
         IN  /\ u \in Seq(Threads) /\ Once(u)
             /\ \A i \in DOMAIN u : u[i] \in Threads /\ r.ctx[u[i]].linked
BY InOrderFacts DEF LinkedThreads, IsLinked

\* sync_run_state starts.
LEMMA StartGood ==
  ASSUME NEW r, Good(r), r.pc = "idle", r.run = <<>>
  PROVE  Good(StartSync(r))
<1> DEFINE v == StartSync(r)
           u == InOrder(LinkedThreads(r))
<1>1. Shape(r) /\ Holding(r, 0, 0, {})
  BY DEF Good, Holding
<1>2. /\ DOMAIN NoSync = SyncFields /\ NoSync.todo = <<>> /\ NoSync.others = <<>>
      /\ <<>> \in Seq(Threads)
  BY EmptySeq DEF NoSync, SyncFields
<1>3. CASE r.lock # 0
  <2>1. v = [r EXCEPT !.pc = "end", !.sync = NoSync]
    BY <1>3 DEF StartSync
  <2>2. /\ DOMAIN v = DOMAIN r /\ v.pc = "end" /\ v.sync = NoSync
        /\ \A g \in StateFields \ {"pc", "sync"} : v[g] = r[g]
    BY <1>1, <2>1 DEF Shape, StateFields
  <2> HIDE DEF v
  <2>3. Shape(v) /\ SyncOK(v)
    BY <1>1, <1>2, <2>2 DEF Shape, ThreadShape, StateFields, SyncOK
  <2>4. Good(v)
    BY <2>2, <2>3, CtlGood
  <2> QED
    BY <2>4 DEF v
<1>4. CASE r.lock = 0
  <2> DEFINE C == [t \in Threads |-> [r.ctx[t] EXCEPT !.pending_safe_event = FALSE]]
             S == [NoSync EXCEPT !.todo = u]
             a == [r EXCEPT !.ctx = C]
             b == [a EXCEPT !.pids = 0]
  <2>1. v = [r EXCEPT !.tcnt = 0, !.pids = 0, !.pc = "flag", !.ctx = C, !.sync = S]
    BY <1>4 DEF StartSync
  <2>2. ASSUME NEW t \in Threads
        PROVE  /\ ThreadFields \subseteq DOMAIN C[t] /\ ~C[t].pending_safe_event
               /\ \A g \in ThreadFields \ {"pending_safe_event"} : C[t][g] = r.ctx[t][g]
    BY <1>1 DEF Shape, ThreadShape, ThreadFields
  <2>3. DOMAIN C = Threads
    OBVIOUS
  <2>4. /\ SyncFields \subseteq DOMAIN S /\ S.todo = u /\ S.others = <<>>
    BY <1>2 DEF SyncFields
  <2> HIDE DEF C, S
  <2>5. Around(r, a) /\ a.pids = r.pids /\ a.ctx = C
    BY <1>1, <2>2, <2>3, NewThreads
  <2>6. /\ DOMAIN v = DOMAIN r /\ v.pc = "flag" /\ v.sync = S
        /\ \A g \in StateFields \ {"pc", "sync"} : v[g] = b[g]
    <3>1. /\ DOMAIN v = DOMAIN r /\ v.pc = "flag" /\ v.sync = S /\ v.pids = 0 /\ v.ctx = C
          /\ \A g \in StateFields \ {"pc", "sync", "pids", "ctx"} : v[g] = r[g]
      BY <1>1, <2>1 DEF Shape, StateFields
    <3>2. \A g \in StateFields \ {"ctx"} : a[g] = r[g]
      BY <1>1 DEF Shape
    <3>3. DOMAIN a = DOMAIN r /\ a.ctx = C
      BY <1>1 DEF Shape, StateFields
    <3>4. b.pids = 0 /\ \A g \in StateFields \ {"pids"} : b[g] = a[g]
      <4> HIDE DEF a
      <4> QED
        BY <1>1, <3>3 DEF Shape, StateFields
    <3> HIDE DEF a, b, v
    <3>5. b.ctx = C /\ \A g \in StateFields \ {"pids", "ctx"} : b[g] = r[g]
      BY <3>2, <3>3, <3>4 DEF StateFields
    <3> QED
      BY <3>1, <3>4, <3>5, Zenon
  <2> HIDE DEF a, v
  <2>7. Around(a, b) /\ b.pids = 0 /\ b.ctx = C
    <3>1. Shape(a) /\ 0 \in Int
      BY <2>5 DEF Around
    <3> QED
      BY <2>5, <3>1, NewPids
  <2> HIDE DEF b
  <2>8. Around(r, b) /\ Shape(b)
    BY <2>5, <2>7, AroundTwice DEF Around
  <2>9. Waits(b) = {}
    BY <2>2, <2>7 DEF Waits
  <2>10. PendingOK(b)
    BY <2>7, <2>9, FS_EmptySet DEF PendingOK
  <2>11. b.pc = "idle" /\ SameCtl(r, b) /\ b.bi = r.bi /\ b.list = r.list /\ b.run = <<>>
         /\ b.gen_posted = r.gen_posted /\ b.gen_done = r.gen_done /\ ~b.active
    BY <2>8 DEF Around, Same, SameCtl, SameRound, SameClients, Good, RestOK
  <2>12. LoopOK(b) /\ SyncOK(b)
    BY <1>1, <2>2, <2>7, <2>11 DEF LoopOK, SyncOK, Holding, ThreadFields
  <2>13. Asks(r, b)
    BY <1>1, <2>8, AroundAsks DEF Holding, GenOK
  <2>14. LockOK(b, 0) /\ GenOK(b, 0) /\ Theirs(b)
    BY <1>1, <2>13, BooksKept DEF Holding
  <2>15. \A t \in Threads : Tamer(r.ctx[t], b.ctx[t])
    BY <2>2, <2>7 DEF Tamer, Loose, Trapped, TrapOK, ThreadFields
  <2>16. BreakOK(b)
    BY <1>1, <2>11, <2>15, BreakKept DEF Holding
  <2>17. SteppingOK(b, {})
    BY <1>1, <2>11, <2>15, SteppingKept DEF Holding, Tamer
  <2>18. Good(b)
    BY <2>8, <2>10, <2>11, <2>12, <2>14, <2>16, <2>17 DEF Good, RestOK, Holding
  <2>19. u \in Seq(Threads)
    BY <1>1, SyncTodo
  <2>21. Waits(v) = {}
    BY <2>6, <2>9 DEF Waits, StateFields
  <2>20. Shape(v) /\ SyncOK(v)
    <3>1. StateFields \subseteq DOMAIN v
      BY <1>1, <2>6 DEF Shape
    <3>2. Shape(v)
      BY <1>2, <2>4, <2>6, <2>8, <2>19, <3>1 DEF Shape, ThreadShape, StateFields
    <3> QED
      BY <2>6, <2>21, <3>2 DEF SyncOK
  <2>22. Good(v)
    BY <2>6, <2>11, <2>18, <2>20, CtlGood
  <2> QED
    BY <2>22 DEF v
<1> QED
  BY <1>3, <1>4

\* Only the notes of sync_run_state change.
LEMMA NotesGood ==
  ASSUME NEW r, NEW l \in Nat, NEW m \in Nat, NEW X, Holding(r, l, m, X), NEW S,
         SyncFields \subseteq DOMAIN S, S.todo = r.sync.todo, S.others \in Seq(Threads)
  PROVE  LET q == [r EXCEPT !.sync = S]
         IN  Holding(q, l, m, X) /\ q.sync = S /\ \A g \in StateFields \ {"sync"} : q[g] = r[g]
<1> DEFINE q == [r EXCEPT !.sync = S]
<1>1. Shape(r)
  BY DEF Holding
<1>2. DOMAIN q = DOMAIN r /\ q.sync = S /\ \A g \in StateFields \ {"sync"} : q[g] = r[g]
  BY <1>1 DEF Shape, StateFields
<1> HIDE DEF q
<1>3. Shape(q)
  BY <1>1, <1>2 DEF Shape, ThreadShape, StateFields
<1>4. q.ctx = r.ctx /\ q.pc = r.pc
  BY <1>2 DEF StateFields
<1>5. Waits(q) = Waits(r)
  BY <1>4 DEF Waits
<1>6. SyncOK(q)
  BY <1>2, <1>4, <1>5 DEF Holding, SyncOK
<1>7. Holding(q, l, m, X)
  BY <1>2, <1>3, <1>4, <1>6, CtlHolds
<1> QED
  BY <1>2, <1>7 DEF q

\* The next thread is taken.
LEMMA NextHolds ==
  ASSUME NEW r, Holding(r, 0, 0, {}), r.sync.todo # <<>>
  PROVE  LET q == NextThread(r)
             t == Head(r.sync.todo)
         IN  /\ Holding(q, 0, 0, {}) /\ t \in Threads
             /\ \A g \in StateFields \ {"sync"} : q[g] = r[g]
             /\ r.pc = "move" => /\ r.ctx[t].linked /\ t \notin Waits(q)
                                 /\ \A i \in DOMAIN q.sync.todo : q.sync.todo[i] # t
<1> DEFINE u == r.sync.todo
           v == Tail(u)
           t == Head(u)
           S == [r.sync EXCEPT !.todo = v]
           q == [r EXCEPT !.sync = S]
<1>1. Shape(r) /\ u \in Seq(Threads) /\ SyncFields \subseteq DOMAIN r.sync
      /\ r.sync.others \in Seq(Threads)
  BY DEF Holding, Shape
<1>2. NextThread(r) = q
  BY DEF NextThread
<1>3. /\ Len(u) \in Nat \ {0} /\ DOMAIN u = 1 .. Len(u)
      /\ DOMAIN v = 1 .. Len(u) - 1
      /\ \A i \in DOMAIN v : v[i] = u[i + 1]
      /\ t = u[1] /\ t \in Threads /\ v \in Seq(Threads)
  BY <1>1, TailPlaces
<1>4. SyncFields \subseteq DOMAIN S /\ S.todo = v /\ S.others = r.sync.others
  BY <1>1 DEF SyncFields
<1> HIDE DEF S, v, t, u
<1>5. DOMAIN q = DOMAIN r /\ q.sync = S /\ \A g \in StateFields \ {"sync"} : q[g] = r[g]
  BY <1>1 DEF Shape, StateFields
<1> HIDE DEF q
<1>6. Shape(q)
  BY <1>1, <1>3, <1>4, <1>5 DEF Shape, ThreadShape, StateFields
<1>7. q.ctx = r.ctx /\ q.pc = r.pc /\ q.sync.todo = v
  BY <1>4, <1>5 DEF StateFields
<1>8. Waits(q) = Waits(r)
  BY <1>7 DEF Waits
<1>9. ASSUME r.pc = "move"
      PROVE  /\ Once(v)
             /\ \A i \in DOMAIN v : r.ctx[v[i]].linked /\ v[i] \notin Waits(r) /\ v[i] # t
             /\ r.ctx[t].linked /\ t \notin Waits(r)
  <2>1. Once(u) /\ \A i \in DOMAIN u : r.ctx[u[i]].linked /\ u[i] \notin Waits(r)
    BY <1>9 DEF Holding, SyncOK, u
  <2>2. \A i \in DOMAIN v : i + 1 \in DOMAIN u /\ v[i] = u[i + 1] /\ i + 1 # 1
    BY <1>3
  <2>3. \A i, j \in DOMAIN v : i + 1 = j + 1 => i = j
    BY <1>3
  <2>4. 1 \in DOMAIN u
    BY <1>3
  <2>5. Once(v)
    BY <2>1, <2>2, <2>3 DEF Once
  <2>6. \A i \in DOMAIN v : v[i] # t
    BY <1>3, <2>1, <2>2, <2>4 DEF Once
  <2> QED
    BY <1>3, <2>1, <2>2, <2>4, <2>5, <2>6
<1>10. SyncOK(q)
  BY <1>7, <1>8, <1>9 DEF Holding, SyncOK
<1>11. Holding(q, 0, 0, {})
  BY <1>5, <1>6, <1>7, <1>10, CtlHolds
<1> QED
  BY <1>2, <1>3, <1>5, <1>7, <1>8, <1>9, <1>11 DEF t, u

\* A group is flagged.
LEMMA FlagGood ==
  ASSUME NEW r, Good(r), NEW t
  PROVE  Good(Flag(r, t))
<1> DEFINE S == [r.sync EXCEPT !.flagged = @ \cup InterceptGroup(t)]
           q == [r EXCEPT !.sync = S]
<1>1. Flag(r, t) = q
  BY DEF Flag
<1>2. Shape(r)
  BY DEF Good, Holding
<1>3. SyncFields \subseteq DOMAIN S /\ S.todo = r.sync.todo /\ S.others \in Seq(Threads)
  BY <1>2 DEF Shape, SyncFields
<1> HIDE DEF S
<1>4. Holding(q, 0, 0, {}) /\ \A g \in StateFields \ {"sync"} : q[g] = r[g]
  BY <1>3, NotesGood DEF Good
<1>5. Good(q)
  BY <1>4 DEF Good, RestOK, StateFields
<1> QED
  BY <1>1, <1>5

\* The client of sync_run_state_event waits for data.
LEMMA ParkGood ==
  ASSUME Good(rc)
  PROVE  Good(Park(rc))
<1> DEFINE q == Park(rc)
<1>1. Shape(rc)
  BY DEF Good, Holding
<1>2. /\ DOMAIN q = DOMAIN rc /\ q.pc = "idle" /\ q.sync = NoSync
      /\ \A g \in StateFields \ {"pc", "sync"} : q[g] = rc[g]
  BY <1>1 DEF Shape, StateFields, Park
<1> HIDE DEF q
<1>3. /\ DOMAIN NoSync = SyncFields /\ NoSync.todo = <<>> /\ NoSync.others = <<>>
      /\ <<>> \in Seq(Threads)
  BY EmptySeq DEF NoSync, SyncFields
<1>4. Shape(q) /\ SyncOK(q)
  BY <1>1, <1>2, <1>3 DEF Shape, ThreadShape, StateFields, SyncOK
<1>5. Good(q)
  BY <1>2, <1>4, CtlGood
<1> QED
  BY <1>5 DEF q

\* SyncFlag
LEMMA SyncFlagKeeps == ASSUME RInv, SyncFlag PROVE RInv'
<1>1. rc.pc = "flag" /\ Good(rc) /\ Holding(rc, 0, 0, {}) /\ Shape(rc) /\ rc.run = <<>>
  BY DEF RInv, SyncFlag, Good, RestOK, Holding
<1>2. CASE rc.sync.todo = <<>>
  <2> DEFINE u == InOrder(LinkedThreads(rc))
             S == [rc.sync EXCEPT !.todo = u]
             q == [rc EXCEPT !.pc = "move", !.sync = S]
  <2>1. rc' = q
    BY <1>2 DEF SyncFlag, Become
  <2>2. /\ u \in Seq(Threads) /\ Once(u)
        /\ \A i \in DOMAIN u : u[i] \in Threads /\ rc.ctx[u[i]].linked
    BY <1>1, SyncTodo
  <2> HIDE DEF u
  <2>3. SyncFields \subseteq DOMAIN S /\ S.todo = u /\ S.others \in Seq(Threads)
    BY <1>1 DEF Shape, SyncFields
  <2> HIDE DEF S
  <2>4. /\ DOMAIN q = DOMAIN rc /\ q.pc = "move" /\ q.sync = S
        /\ \A g \in StateFields \ {"pc", "sync"} : q[g] = rc[g]
    BY <1>1 DEF Shape, StateFields
  <2> HIDE DEF q
  <2>5. Shape(q)
    BY <1>1, <2>2, <2>3, <2>4 DEF Shape, ThreadShape, StateFields
  <2>6. q.ctx = rc.ctx /\ Waits(q) = {}
    BY <1>1, <2>4 DEF StateFields, Holding, SyncOK, Waits
  <2>7. SyncOK(q)
    BY <2>2, <2>3, <2>4, <2>6 DEF SyncOK
  <2>8. Good(q)
    BY <1>1, <2>4, <2>5, <2>7, CtlGood
  <2> QED
    BY <2>1, <2>8 DEF RInv
<1>3. CASE rc.sync.todo # <<>>
  <2> DEFINE t == Head(rc.sync.todo)
             r == NextThread(rc)
             a == [r EXCEPT !.ctx[t].pending_intercept = TRUE]
             b == cancel_step_mode(r, t)
  <2>1. rc' \in {r, Flag(r, t), Flag(a, t), Flag(b, t), Park(rc)}
    BY <1>3 DEF SyncFlag, Become
  <2>2. Holding(r, 0, 0, {}) /\ t \in Threads /\ \A g \in StateFields \ {"sync"} : r[g] = rc[g]
    BY <1>1, <1>3, NextHolds
  <2> HIDE DEF t, r
  <2>3. Good(r) /\ Shape(r)
    BY <1>1, <2>2 DEF Good, RestOK, StateFields, Holding
  <2>4. "pending_intercept" \notin ThreadFields /\ "step_mode" \notin ThreadFields
    BY DEF ThreadFields
  <2>5. Quiet(r, a) /\ Quiet(r, b)
    BY <2>2, <2>3, <2>4, ThreadAside DEF cancel_step_mode
  <2> HIDE DEF a, b
  <2>6. Good(a) /\ Good(b)
    BY <2>3, <2>5, QuietGood
  <2>7. Good(Flag(r, t)) /\ Good(Flag(a, t)) /\ Good(Flag(b, t))
    BY <2>3, <2>6, FlagGood
  <2>8. Good(Park(rc))
    BY <1>1, ParkGood
  <2>9. Good(rc')
    BY <2>1, <2>3, <2>7, <2>8
  <2> QED
    BY <2>9 DEF RInv
<1> QED
  BY <1>2, <1>3

\* A thread is told to stop and is waited for.
LEMMA AwaitHolds ==
  ASSUME NEW r, Holding(r, 0, 0, {}), r.pc = "move", NEW t \in Threads, r.ctx[t].linked,
         ~r.ctx[t].stopped, ~r.ctx[t].exited, t \notin Waits(r),
         \A i \in DOMAIN r.sync.todo : r.sync.todo[i] # t
  PROVE  LET q == [r EXCEPT !.ctx[t].pending_safe_event = TRUE, !.pids = @ + 1]
         IN  Holding(q, 0, 0, {}) /\ SameCtl(r, q) /\ SameClients(r, q)
<1> DEFINE c == r.ctx[t]
           d == [c EXCEPT !.pending_safe_event = TRUE]
           n == r.pids + 1
           a == [r EXCEPT !.ctx[t] = d]
           q == [a EXCEPT !.pids = n]
<1>1. [r EXCEPT !.ctx[t].pending_safe_event = TRUE, !.pids = @ + 1] = q
  <2>1. Shape(r)
    BY DEF Holding
  <2>2. a.pids = r.pids
    BY <2>1 DEF Shape, StateFields
  <2> QED
    BY <2>2
<1>2. Shape(r) /\ GenBase(r) /\ n \in Int
  <2>1. Shape(r) /\ GenBase(r)
    BY DEF Holding, GenOK
  <2>2. r.pids \in Int
    BY <2>1 DEF Shape
  <2> QED
    BY <2>1, <2>2
<1>3. /\ ThreadFields \subseteq DOMAIN d /\ d.pending_safe_event
      /\ \A g \in ThreadFields \ {"pending_safe_event"} : d[g] = c[g]
  BY <1>2 DEF Shape, ThreadShape, ThreadFields
<1> HIDE DEF d
<1>4. Around(r, a) /\ a.pids = r.pids /\ a.ctx[t] = d /\ ButFor(r, a, t)
  BY <1>2, <1>3, NewThreadRecord
<1>5. n = r.pids + 1
  OBVIOUS
<1> HIDE DEF a, n
<1>6. Around(a, q) /\ q.pids = n /\ q.ctx = a.ctx
  BY <1>2, <1>4, NewPids DEF Around
<1> HIDE DEF q
<1>7. Around(r, q) /\ Asks(r, q) /\ Shape(q) /\ ButFor(r, q, t) /\ q.ctx[t] = d
  BY <1>2, <1>4, <1>6, AroundTwice, AroundAsks DEF Around, ButFor
<1>8. SameCtl(r, q) /\ SameClients(r, q) /\ q.bi = r.bi /\ q.list = r.list
      /\ q.gen_posted = r.gen_posted /\ q.gen_done = r.gen_done
  BY <1>7 DEF Around, Same, SameRound
<1>9. LockOK(q, 0) /\ GenOK(q, 0) /\ Theirs(q)
  BY <1>2, <1>7, BooksKept DEF Holding
<1>10. Tamer(c, d) /\ (d.linked <=> c.linked) /\ (d.stop_group_mark <=> c.stop_group_mark)
       /\ (d.stopped <=> c.stopped) /\ (d.exited <=> c.exited)
  BY <1>3 DEF Tamer, Loose, Trapped, TrapOK, ThreadFields
<1>11. \A x \in Threads : /\ Tamer(r.ctx[x], q.ctx[x])
                          /\ (q.ctx[x].linked <=> r.ctx[x].linked)
                          /\ (q.ctx[x].stopped <=> r.ctx[x].stopped)
                          /\ (q.ctx[x].exited <=> r.ctx[x].exited)
                          /\ (q.ctx[x].stop_group_mark <=> r.ctx[x].stop_group_mark)
                          /\ x # t => (x \in Waits(q) <=> x \in Waits(r))
                          /\ x # t => (q.ctx[x].pending_safe_event <=> r.ctx[x].pending_safe_event)
  BY <1>7, <1>10, OthersKept
<1>12. BreakOK(q) /\ SteppingOK(q, {})
  BY <1>8, <1>11, BreakKept, SteppingKept DEF Holding, Tamer
<1>13. PendingOK(q)
  <2>1. ~c.pending_safe_event
    BY DEF Waits
  <2>2. q.pids = r.pids - One(c.pending_safe_event) + One(q.ctx[t].pending_safe_event)
    BY <1>2, <1>3, <1>5, <1>6, <1>7, <2>1 DEF One, Shape
  <2>3. q.pids = Cardinality(Waits(q))
    BY <1>11, <2>2, OneWaits DEF Holding, PendingOK
  <2>4. \A x \in Waits(q) : q.ctx[x].linked /\ ~q.ctx[x].stopped /\ ~q.ctx[x].exited
    <3>1. \A x \in Waits(q) : x \in Threads /\ (x = t \/ x \in Waits(r))
      BY <1>11 DEF Waits
    <3> QED
      BY <1>11, <3>1 DEF Holding, PendingOK
  <2> QED
    BY <2>3, <2>4 DEF PendingOK
<1>14. LoopOK(q)
  BY <1>8, <1>11 DEF Holding, LoopOK, SameCtl
<1>15. SyncOK(q)
  <2>1. \A i \in DOMAIN r.sync.todo : r.sync.todo[i] \in Threads
    BY <1>2, LenProperties, ElementOfSeq DEF Shape
  <2> QED
    BY <1>8, <1>11, <2>1 DEF Holding, SyncOK, SameCtl
<1>16. Holding(q, 0, 0, {})
  BY <1>7, <1>9, <1>12, <1>13, <1>14, <1>15 DEF Holding
<1> QED
  BY <1>1, <1>8, <1>16

\* sync_run_state keeps a thread for later.
LEMMA LaterHolds ==
  ASSUME NEW r, Holding(r, 0, 0, {}), NEW t \in Threads
  PROVE  LET q == [r EXCEPT !.sync.others = Append(@, t)]
         IN  Holding(q, 0, 0, {}) /\ \A g \in StateFields \ {"sync"} : q[g] = r[g]
<1> DEFINE S == [r.sync EXCEPT !.others = Append(@, t)]
           q == [r EXCEPT !.sync = S]
<1>1. Shape(r)
  BY DEF Holding
<1>2. SyncFields \subseteq DOMAIN S /\ S.todo = r.sync.todo /\ S.others \in Seq(Threads)
  BY <1>1, AppendProperties DEF Shape, SyncFields
<1>3. [r EXCEPT !.sync.others = Append(@, t)] = q
  OBVIOUS
<1> HIDE DEF S
<1>4. Holding(q, 0, 0, {}) /\ \A g \in StateFields \ {"sync"} : q[g] = r[g]
  BY <1>2, NotesGood, SMTT(30)
<1> HIDE DEF q
<1> QED
  BY <1>3, <1>4

\* MoveThread: sync_run_state stops or continues a thread.
LEMMA MoveHolds ==
  ASSUME NEW r, Holding(r, 0, 0, {}), ~r.active, r.pc = "move", r.lock = 0, NEW t \in Threads,
         r.ctx[t].linked, t \notin Waits(r), \A i \in DOMAIN r.sync.todo : r.sync.todo[i] # t
  PROVE  LET q == MoveThread(r, t)
         IN  Holding(q, 0, 0, {}) /\ q.pc = r.pc /\ q.active = r.active /\ q.run = r.run
<1> DEFINE c == r.ctx[t]
           a == [r EXCEPT !.ctx[t].pending_intercept = TRUE]
           w == context_stop(a, t)
           x == [w EXCEPT !.ctx[t].pending_safe_event = TRUE, !.pids = @ + 1]
           y == [r EXCEPT !.sync.others = Append(@, t)]
           q == MoveThread(r, t)
<1>1. \/ q = r
      \/ q = a
      \/ ~c.stopped /\ ~c.exited /\ q = x
      \/ q = y
      \/ q = context_resume(r, t, "resume")
  BY DEF MoveThread
<1>2. Shape(r) /\ GenBase(r)
  BY DEF Holding, GenOK
<1>3. Quiet(r, a) /\ Shape(a)
  <2>1. "pending_intercept" \notin ThreadFields
    BY DEF ThreadFields
  <2> QED
    BY <1>2, <2>1, ThreadAside DEF Quiet, Around
<1>4. Holding(a, 0, 0, {})
  BY <1>2, <1>3, QuietMild, MildHolds
<1>5. a.pc = r.pc /\ a.active = r.active /\ a.run = r.run
  BY <1>3 DEF Quiet, Around, Same, SameCtl, SameClients
<1>6. CASE ~c.stopped /\ ~c.exited /\ q = x
  <2> HIDE DEF a
  <2>1. Quiet(a, w)
    BY <1>3, ContextStop
  <2> HIDE DEF w
  <2>2. Quiet(r, w)
    BY <1>3, <2>1, QuietTwice
  <2>3. Holding(w, 0, 0, {})
    BY <1>2, <2>2, QuietMild, MildHolds
  <2>4. SameCtl(r, w) /\ SameClients(r, w) /\ Alike(c, w.ctx[t]) /\ Waits(w) = Waits(r)
    BY <2>2, WaitsKept DEF Quiet, Around, Same, AllAlike
  <2>5. /\ w.pc = "move" /\ w.ctx[t].linked /\ ~w.ctx[t].stopped /\ ~w.ctx[t].exited
        /\ t \notin Waits(w) /\ w.sync = r.sync
    BY <1>6, <2>4 DEF SameCtl, Alike, Kept
  <2>6. Holding(x, 0, 0, {}) /\ SameCtl(w, x) /\ SameClients(w, x)
    BY <2>3, <2>5, AwaitHolds
  <2> HIDE DEF x, q
  <2>7. Holding(q, 0, 0, {}) /\ q.pc = r.pc /\ q.active = r.active /\ q.run = r.run
    BY <1>6, <2>4, <2>6 DEF SameCtl, SameClients
  <2> QED
    BY <2>7 DEF q
<1>7. CASE q = y
  <2>1. Holding(y, 0, 0, {}) /\ \A g \in StateFields \ {"sync"} : y[g] = r[g]
    BY LaterHolds
  <2> HIDE DEF y, q
  <2>2. Holding(q, 0, 0, {}) /\ q.pc = r.pc /\ q.active = r.active /\ q.run = r.run
    BY <1>7, <2>1 DEF StateFields
  <2> QED
    BY <2>2 DEF q
<1>8. CASE q = context_resume(r, t, "resume")
  BY <1>8, ResumeHolds DEF SameCtl, SameClients
<1> QED
  BY <1>1, <1>4, <1>5, <1>6, <1>7, <1>8

\* A resume fails.
LEMMA ResumeErrorGood ==
  ASSUME NEW r, Good(r), NEW t \in Threads
  PROVE  Good(resume_error(r, t))
<1> DEFINE a == [r EXCEPT !.ctx[t].pending_intercept = TRUE]
           b == [a EXCEPT !.ctx[t].stopped_by_bp = FALSE]
           c == [b EXCEPT !.ctx[t].stopped_by_exception = TRUE]
           S == [c.sync EXCEPT !.err = TRUE]
           q == [c EXCEPT !.sync = S]
<1>1. resume_error(r, t) = q
  BY DEF resume_error
<1>2. /\ "pending_intercept" \notin ThreadFields /\ "stopped_by_bp" \notin ThreadFields
      /\ "stopped_by_exception" \notin ThreadFields
  BY DEF ThreadFields
<1>3. Quiet(r, a)
  BY <1>2, ThreadAside DEF Good, Holding
<1> HIDE DEF a
<1>4. Quiet(a, b)
  BY <1>2, <1>3, ThreadAside DEF Quiet, Around
<1> HIDE DEF b
<1>5. Quiet(b, c)
  BY <1>2, <1>4, ThreadAside DEF Quiet, Around
<1> HIDE DEF c
<1>6. Good(c)
  BY <1>3, <1>4, <1>5, QuietGood
<1>7. SyncFields \subseteq DOMAIN S /\ S.todo = c.sync.todo /\ S.others \in Seq(Threads)
  BY <1>6 DEF Good, Holding, Shape, SyncFields
<1> HIDE DEF S
<1>8. Holding(q, 0, 0, {}) /\ \A g \in StateFields \ {"sync"} : q[g] = c[g]
  BY <1>6, <1>7, NotesGood, SMTT(30) DEF Good
<1>9. Good(q)
  BY <1>6, <1>8 DEF Good, RestOK, StateFields
<1> QED
  BY <1>1, <1>9

\* SyncMove
LEMMA SyncMoveKeeps == ASSUME RInv, SyncMove PROVE RInv'
<1>1. rc.pc = "move" /\ Good(rc) /\ Holding(rc, 0, 0, {}) /\ Shape(rc) /\ rc.run = <<>>
      /\ ~rc.active
  BY DEF RInv, SyncMove, Good, RestOK, Holding
<1>2. CASE rc.sync.todo = <<>> \/ ~SyncGoesOn(rc)
  <2> DEFINE S == [rc.sync EXCEPT !.todo = rc.sync.others]
             q == [rc EXCEPT !.pc = "others", !.sync = S]
  <2>1. rc' = q
    BY <1>2 DEF SyncMove, Become
  <2>2. SyncFields \subseteq DOMAIN S /\ S.todo = rc.sync.others /\ S.others = rc.sync.others
    BY <1>1 DEF Shape, SyncFields
  <2> HIDE DEF S
  <2>3. /\ DOMAIN q = DOMAIN rc /\ q.pc = "others" /\ q.sync = S
        /\ \A g \in StateFields \ {"pc", "sync"} : q[g] = rc[g]
    BY <1>1 DEF Shape, StateFields
  <2> HIDE DEF q
  <2>4. Shape(q) /\ SyncOK(q)
    BY <1>1, <2>2, <2>3 DEF Shape, ThreadShape, StateFields, SyncOK
  <2>5. Good(q)
    BY <1>1, <2>3, <2>4, CtlGood
  <2> QED
    BY <2>1, <2>5 DEF RInv
<1>3. CASE ~(rc.sync.todo = <<>> \/ ~SyncGoesOn(rc))
  <2> DEFINE t == Head(rc.sync.todo)
             r == NextThread(rc)
  <2>1. rc' = MoveThread(r, t) \/ rc' = resume_error(r, t) \/ rc' = Park(rc)
    <3>1. ASSUME NEW x, NEW w PROVE Strict(LAMBDA z : MoveThread(z, x), w) = MoveThread(w, x)
      BY Zenon DEF Strict
    <3>2. Strict(LAMBDA z : MoveThread(z, t), r) = MoveThread(r, t)
      BY <3>1
    <3> HIDE DEF r, t
    <3>3. \/ Become(Strict(LAMBDA z : MoveThread(z, t), r))
          \/ Become(resume_error(r, t)) \/ Become(Park(rc))
      BY <1>3, Zenon DEF SyncMove, t, r
    <3> QED
      BY <3>2, <3>3, Zenon DEF Become
  <2>2. /\ Holding(r, 0, 0, {}) /\ t \in Threads /\ \A g \in StateFields \ {"sync"} : r[g] = rc[g]
        /\ rc.ctx[t].linked /\ t \notin Waits(r) /\ \A i \in DOMAIN r.sync.todo : r.sync.todo[i] # t
    BY <1>1, <1>3, NextHolds
  <2>3. rc.lock = 0
    BY <1>3 DEF SyncGoesOn
  <2> HIDE DEF t, r
  <2>4. r.ctx = rc.ctx /\ r.pc = "move" /\ r.lock = 0 /\ ~r.active /\ r.run = <<>>
    BY <1>1, <2>2, <2>3 DEF StateFields
  <2>5. Good(MoveThread(r, t))
    <3> DEFINE q == MoveThread(r, t)
    <3>1. Holding(q, 0, 0, {}) /\ q.pc = r.pc /\ q.active = r.active /\ q.run = r.run
      BY <2>2, <2>4, MoveHolds
    <3> HIDE DEF q
    <3>2. Good(q)
      BY <2>4, <3>1 DEF Good, RestOK
    <3> QED
      BY <3>2 DEF q
  <2>6. Good(resume_error(r, t))
    BY <2>2, <2>4, ResumeErrorGood DEF Good, RestOK
  <2>7. Good(rc')
    BY <1>1, <2>1, <2>5, <2>6, ParkGood
  <2> QED
    BY <2>7 DEF RInv
<1> QED
  BY <1>2, <1>3

\* SyncOthers
LEMMA SyncOthersKeeps == ASSUME RInv, SyncOthers PROVE RInv'
<1>1. rc.pc = "others" /\ Good(rc) /\ Holding(rc, 0, 0, {}) /\ Shape(rc) /\ rc.run = <<>>
      /\ ~rc.active
  BY DEF RInv, SyncOthers, Good, RestOK, Holding
<1>2. CASE rc.sync.todo = <<>> \/ ~SyncGoesOn(rc)
  <2> DEFINE q == [rc EXCEPT !.pc = "end"]
  <2>1. rc' = q
    BY <1>2 DEF SyncOthers, Become
  <2>2. /\ DOMAIN q = DOMAIN rc /\ q.pc = "end" /\ \A g \in StateFields \ {"pc"} : q[g] = rc[g]
    BY <1>1 DEF Shape, StateFields
  <2> HIDE DEF q
  <2>3. Shape(q) /\ SyncOK(q)
    BY <1>1, <2>2 DEF Shape, ThreadShape, StateFields, SyncOK
  <2>4. Good(q)
    BY <1>1, <2>2, <2>3, CtlGood
  <2> QED
    BY <2>1, <2>4 DEF RInv
<1>3. CASE ~(rc.sync.todo = <<>> \/ ~SyncGoesOn(rc))
  <2> DEFINE t == Head(rc.sync.todo)
             r == NextThread(rc)
             q == context_resume(r, t, rc.ctx[t].step_mode)
  <2>1. rc' = q \/ rc' = resume_error(r, t) \/ rc' = Park(rc)
    BY <1>3, Zenon DEF SyncOthers, Become
  <2>2. /\ Holding(r, 0, 0, {}) /\ t \in Threads /\ \A g \in StateFields \ {"sync"} : r[g] = rc[g]
    BY <1>1, <1>3, NextHolds
  <2>3. rc.lock = 0
    BY <1>3 DEF SyncGoesOn
  <2> HIDE DEF t, r
  <2>4. r.pc = "others" /\ r.lock = 0 /\ ~r.active /\ r.run = <<>>
    BY <1>1, <2>2, <2>3 DEF StateFields
  <2>5. Holding(q, 0, 0, {}) /\ SameCtl(r, q) /\ SameClients(r, q)
    BY <2>2, <2>4, ResumeHolds
  <2> HIDE DEF q
  <2>6. Good(q)
    BY <2>4, <2>5 DEF Good, RestOK, SameCtl, SameClients
  <2>7. Good(resume_error(r, t))
    BY <2>2, <2>4, ResumeErrorGood DEF Good, RestOK
  <2>8. Good(rc')
    BY <1>1, <2>1, <2>6, <2>7, ParkGood
  <2> QED
    BY <2>8 DEF RInv
<1> QED
  BY <1>2, <1>3

\* send_event_context_suspended
LEMMA SuspendedQuiet ==
  ASSUME NEW r, Shape(r)
  PROVE  Quiet(r, send_event_context_suspended(r))
<1> DEFINE C == [t \in Threads |->
                   IF ~Suspends(r.ctx[t]) THEN r.ctx[t]
                   ELSE [r.ctx[t] EXCEPT !.intercepted = TRUE, !.pending_intercept = FALSE,
                                         !.step_mode = "resume"]]
           q == [r EXCEPT !.ctx = C]
<1>1. send_event_context_suspended(r) = q
  BY DEF send_event_context_suspended
<1>2. ASSUME NEW x \in Threads
      PROVE  ThreadFields \subseteq DOMAIN C[x] /\ Alike(r.ctx[x], C[x])
  <2>1. \A g \in ThreadFields : C[x][g] = r.ctx[x][g]
    BY DEF Shape, ThreadShape, ThreadFields
  <2>2. ThreadFields \subseteq DOMAIN C[x]
    BY DEF Shape, ThreadShape
  <2> QED
    BY <2>1, <2>2 DEF Alike, Kept, ThreadFields
<1>3. DOMAIN C = Threads
  OBVIOUS
<1> HIDE DEF C
<1>4. Around(r, q) /\ q.pids = r.pids /\ q.ctx = C
  BY <1>2, <1>3, NewThreads
<1> HIDE DEF q
<1>5. Quiet(r, q)
  BY <1>2, <1>4 DEF Quiet, AllAlike
<1> QED
  BY <1>1, <1>5

\* SyncEnd
LEMMA SyncEndKeeps == ASSUME RInv, SyncEnd PROVE RInv'
<1> DEFINE q == IF rc.sync.err /\ rc.pids = 0 /\ rc.lock = 0 /\ rc.posted < 4
                THEN PostSafe(rc) ELSE rc
           r == [q EXCEPT !.sposted = @ - 1, !.pc = "idle", !.sync = NoSync]
<1>1. rc' = r \/ rc' = send_event_context_suspended(r)
  BY Zenon DEF SyncEnd, Become
<1>2. Quiet(rc, q)
  BY QuietSame, PostSafeQuiet DEF RInv, Good, Holding
<1> HIDE DEF q
<1>3. Good(q) /\ Shape(q)
  BY <1>2, QuietGood DEF RInv, Good, Holding
<1>4. /\ DOMAIN r = DOMAIN q /\ r.pc = "idle" /\ r.sync = NoSync
      /\ \A g \in StateFields \ {"pc", "sync"} : r[g] = q[g]
  BY <1>3 DEF Shape, StateFields
<1> HIDE DEF r
<1>5. /\ DOMAIN NoSync = SyncFields /\ NoSync.todo = <<>> /\ NoSync.others = <<>>
      /\ <<>> \in Seq(Threads)
  BY EmptySeq DEF NoSync, SyncFields
<1>6. Shape(r) /\ SyncOK(r)
  BY <1>3, <1>4, <1>5 DEF Shape, ThreadShape, StateFields, SyncOK
<1>7. Good(r)
  BY <1>3, <1>4, <1>6, CtlGood
<1>8. Good(send_event_context_suspended(r))
  BY <1>6, <1>7, SuspendedQuiet, QuietGood
<1>9. Good(rc')
  BY <1>1, <1>7, <1>8
<1> QED
  BY <1>9 DEF RInv

\* SyncRunState and RetrySync
LEMMA SyncStartKeeps == ASSUME RInv, SyncRunState \/ RetrySync PROVE RInv'
<1>1. Good(rc) /\ Shape(rc)
  BY DEF RInv, Good, Holding
<1>2. CASE RetrySync
  <2> DEFINE r == [rc EXCEPT !.sync_missed = @ - 1]
  <2>1. rc' = StartSync(r) /\ rc.pc = "idle" /\ rc.run = <<>>
    BY <1>2, Zenon DEF RetrySync, Become, Idle
  <2>2. "sync_missed" \notin StateFields
    BY DEF StateFields
  <2>3. Quiet(rc, r)
    BY <1>1, <2>2, Aside
  <2> HIDE DEF r
  <2>4. Good(r) /\ r.pc = "idle" /\ r.run = <<>>
    BY <1>1, <2>1, <2>3, QuietGood DEF Quiet, Around, Same, SameCtl, SameClients
  <2> QED
    BY <2>1, <2>4, StartGood DEF RInv
<1>3. CASE SyncRunState
  <2>1. rc' = StartSync(PopEvent) /\ rc.pc = "idle" /\ rc.run = <<>> /\ rc.queue # <<>>
    BY <1>3, Zenon DEF SyncRunState, HeadIs, Become, Idle
  <2>2. Quiet(rc, PopEvent)
    <3> DEFINE u == Tail(rc.queue)
               q == [rc EXCEPT !.queue = u]
    <3>1. QueueKept(rc.queue, u) /\ u \in Seq(Event)
      BY <1>1, <2>1, QueueTail DEF Shape, QueueKept
    <3> HIDE DEF u
    <3>2. Quiet(rc, q)
      BY <1>1, <3>1 DEF Quiet, Shape, ThreadShape, Around, Same, SameRound, SameClients,
                        SameCtl, StateFields, AllAlike, Alike, Kept
    <3> QED
      BY <3>2 DEF PopEvent, q, u
  <2>3. Good(PopEvent) /\ PopEvent.pc = "idle" /\ PopEvent.run = <<>>
    BY <1>1, <2>1, <2>2, QuietGood DEF Quiet, Around, Same, SameCtl, SameClients
  <2> QED
    BY <2>1, <2>3, StartGood DEF RInv
<1> QED
  BY <1>2, <1>3

-----------------------------------------------------------------------------
(* The kernel, and the handlers of its reports.                            *)

\* One thread changes between two handlers: it stops, exits, starts to exist or
\* runs into an instruction that is there.
LEMMA ThreadStepGood ==
  ASSUME NEW r, Good(r), r.pc = "idle", NEW q, Asks(r, q), NEW t \in Threads, ButFor(r, q, t),
         LET c == r.ctx[t]
             d == q.ctx[t]
         IN  /\ c.linked => d.linked
             /\ d.linked => c.linked \/ ~ProcExited(r, ProcOf[t])
             /\ d.stepping_over <=> c.stepping_over
             /\ d.stop_group_mark <=> c.stop_group_mark
             /\ c.exited => d.exited
             /\ d.pending_safe_event => c.pending_safe_event /\ ~d.stopped /\ ~d.exited
             /\ q.pids = r.pids - One(c.pending_safe_event) + One(d.pending_safe_event)
             /\ Loose(d) => Loose(c)
             /\ Trapped(d) => r.bi[ProcOf[t]].planted
             /\ TrapOK(d)
  PROVE  Good(q)
<1> DEFINE c == r.ctx[t]
           d == q.ctx[t]
<1>1. Shape(r) /\ Shape(q) /\ Holding(r, 0, 0, {}) /\ RestOK(r)
  BY DEF Good, Holding, Asks
<1>2. /\ q.bi = r.bi /\ q.list = r.list /\ q.pc = "idle" /\ q.run = r.run /\ q.active = r.active
      /\ r.gen_posted # r.gen_done => q.gen_posted # q.gen_done
  BY DEF Asks, Same, SameCtl, SameClients
<1>3. LockOK(q, 0) /\ GenOK(q, 0) /\ Theirs(q)
  BY <1>1, BooksKept DEF Holding
<1>4. \A x \in Threads \ {t} :
           /\ (x \in Waits(q) <=> x \in Waits(r)) /\ Tamer(r.ctx[x], q.ctx[x])
           /\ (q.ctx[x].linked <=> r.ctx[x].linked) /\ (q.ctx[x].exited <=> r.ctx[x].exited)
           /\ (q.ctx[x].stopped <=> r.ctx[x].stopped)
           /\ (q.ctx[x].stop_group_mark <=> r.ctx[x].stop_group_mark)
           /\ (q.ctx[x].pending_safe_event <=> r.ctx[x].pending_safe_event)
           /\ (q.ctx[x].stepping_over <=> r.ctx[x].stepping_over)
  BY OthersKept
<1>5. PendingOK(q)
  <2>1. q.pids = Cardinality(Waits(q))
    BY <1>1, <1>4, OneWaits DEF Holding, PendingOK
  <2>2. \A x \in Waits(q) : x \in Waits(r) /\ (x # t \/ x = t)
    BY <1>4 DEF Waits
  <2>3. \A x \in Waits(q) : q.ctx[x].linked /\ ~q.ctx[x].stopped /\ ~q.ctx[x].exited
    BY <1>1, <1>4, <2>2 DEF Holding, PendingOK, Waits
  <2> QED
    BY <2>1, <2>3 DEF PendingOK
<1>6. LoopOK(q) /\ SyncOK(q)
  <2>1. \A x \in Threads : q.ctx[x].stop_group_mark => q.ctx[x].linked
    BY <1>1, <1>4 DEF Holding, LoopOK
  <2> QED
    BY <1>2, <2>1 DEF LoopOK, SyncOK
<1>7. SteppingOK(q, {})
  BY <1>1, <1>2, <1>4, SteppingKept DEF Holding
<1>8. ASSUME NEW p \in Procs PROVE InstructionOK(q, p)
  <2>1. InstructionOK(r, p)
    BY <1>1 DEF Holding, BreakOK
  <2>2. ThreadsOf(p) \subseteq Threads /\ t \in ThreadsOf(ProcOf[t])
    BY ThreadsFinite
  <2>3. ProcExited(r, p) => ProcExited(q, p)
    BY <1>4, <2>2 DEF ProcExited, IsLinked, ThreadsOf
  <2>4. \A x \in ThreadsOf(p) : Loose(q.ctx[x]) => Loose(r.ctx[x])
    BY <1>4, <2>2 DEF Tamer
  <2>5. \A x \in ThreadsOf(p) : Trapped(q.ctx[x]) => Trapped(r.ctx[x]) \/ r.bi[p].planted
    BY <1>4, <2>2 DEF Tamer, ThreadsOf
  <2> QED
    BY <1>2, <2>1, <2>3, <2>4, <2>5 DEF InstructionOK
<1>9. BreakOK(q)
  BY <1>1, <1>4, <1>8 DEF Holding, BreakOK, Tamer
<1> QED
  BY <1>1, <1>2, <1>3, <1>5, <1>6, <1>7, <1>9 DEF Good, Holding, RestOK

\* A thread that has not hit a breakpoint is found to be exiting.
LEMMA ExitingQuiet ==
  ASSUME NEW r, Shape(r), NEW t \in Threads, r.ctx[t].k # "trap"
  PROVE  LET q == [r EXCEPT !.ctx[t].exiting = TRUE]
         IN  Quiet(r, q) /\ q.ctx[t] = [r.ctx[t] EXCEPT !.exiting = TRUE]
<1> DEFINE c == r.ctx[t]
           d == [c EXCEPT !.exiting = TRUE]
           q == [r EXCEPT !.ctx[t] = d]
<1>1. ThreadFields \subseteq DOMAIN d /\ d.exiting
      /\ \A f \in ThreadFields \ {"exiting"} : d[f] = c[f]
  BY DEF Shape, ThreadShape, ThreadFields
<1>2. [r EXCEPT !.ctx[t].exiting = TRUE] = q
  OBVIOUS
<1>3. Alike(c, d)
  BY <1>1 DEF Alike, Kept, ThreadFields
<1> HIDE DEF d
<1>4. Around(r, q) /\ q.pids = r.pids /\ q.ctx[t] = d /\ ButFor(r, q, t)
  BY <1>1, NewThreadRecord
<1> HIDE DEF q
<1>5. Quiet(r, q)
  BY <1>3, <1>4 DEF Quiet, AllAlike, ButFor
<1> QED
  BY <1>2, <1>4, <1>5 DEF d

\* Stopped: a thread stops, and those who wait for it are told.
LEMMA StoppedGood ==
  ASSUME NEW r, Good(r), r.pc = "idle", NEW t \in Threads, r.ctx[t].linked, ~r.ctx[t].exited
  PROVE  Good(Stopped(r, t))
<1> DEFINE c == r.ctx[t]
           d == [c EXCEPT !.stopped = TRUE, !.stop_cnt = 0, !.pending_step = FALSE,
                          !.safe_single_step = FALSE, !.cannot_stop = FALSE, !.k = "run"]
           a == [r EXCEPT !.ctx[t] = d]
           e == IF a.ctx[t].stopped_by_bp THEN evaluate_breakpoint(a, t) ELSE a
           s == check_safe_events(e, t)
           q == PostSafeLazily(s)
<1>1. Shape(r) /\ GenBase(r) /\ Holding(r, 0, 0, {})
  BY DEF Good, Holding, GenOK
<1>2. \A w : Strict(LAMBDA x : PostSafeLazily(check_safe_events(x, t)), w)
            = PostSafeLazily(check_safe_events(w, t))
  <2> DEFINE After(x) == PostSafeLazily(check_safe_events(x, t))
  <2>1. ASSUME NEW w PROVE Strict(LAMBDA x : After(x), w) = After(w)
    <3> HIDE DEF After
    <3> QED BY Zenon DEF Strict
  <2> QED
    BY Zenon, <2>1
<1>3. Stopped(r, t) = q
  <2>1. Stopped(r, t) = Strict(LAMBDA x : PostSafeLazily(check_safe_events(x, t)), e)
    BY DEF Stopped
  <2> HIDE DEF e
  <2> QED
    BY Zenon, <1>2, <2>1
<1>4. /\ ThreadFields \subseteq DOMAIN d /\ d.stopped /\ ~d.safe_single_step /\ ~d.cannot_stop
      /\ d.k = "run"
      /\ \A f \in ThreadFields \ {"stopped", "safe_single_step", "cannot_stop", "k"} : d[f] = c[f]
  BY <1>1 DEF Shape, ThreadShape, ThreadFields
<1> HIDE DEF d
<1>5. Around(r, a) /\ a.pids = r.pids /\ a.ctx[t] = d /\ ButFor(r, a, t)
  BY <1>1, <1>4, NewThreadRecord
<1> HIDE DEF a
<1>6. Asks(r, a) /\ Shape(a) /\ GenBase(a)
  BY <1>1, <1>5, AroundAsks DEF Asks
<1>7. Mild(a, e)
  BY <1>6, EvaluateBreakpoint, QuietSame, QuietMild
<1> HIDE DEF e
<1>8. Shape(e) /\ GenBase(e) /\ Asks(a, e) /\ e.pids = a.pids /\ AllAlike(a, e)
  BY <1>7 DEF Mild, Asks
<1>9. /\ Around(e, s) /\ ButFor(e, s, t) /\ Kept(e.ctx[t], s.ctx[t])
      /\ (s.ctx[t].stopped <=> e.ctx[t].stopped)
      /\ ~s.ctx[t].pending_safe_event /\ s.pids = e.pids - One(e.ctx[t].pending_safe_event)
  BY <1>8, CheckSafeEvents
<1> HIDE DEF s
<1>10. Quiet(s, q)
  BY <1>9, PostLazilyQuiet DEF Around
<1> HIDE DEF q
<1>11. Asks(r, q)
  <2>1. Asks(e, s) /\ Shape(s) /\ GenBase(s)
    BY <1>8, <1>9, AroundAsks DEF Asks
  <2>2. Asks(s, q)
    BY <1>10, <2>1, AroundAsks DEF Quiet
  <2> QED
    BY <1>1, <1>6, <1>8, <2>1, <2>2, AsksTwice
<1>12. ButFor(r, q, t)
  BY <1>5, <1>8, <1>9, <1>10, AlikeTwice DEF ButFor, AllAlike, Quiet
<1> DEFINE f == q.ctx[t]
<1>13. /\ Kept(d, f) /\ f.stopped /\ ~f.pending_safe_event
       /\ q.pids = r.pids - One(c.pending_safe_event)
  <2>1. Alike(d, e.ctx[t]) /\ Alike(s.ctx[t], f) /\ q.pids = s.pids
    BY <1>5, <1>8, <1>10 DEF AllAlike, Quiet
  <2>2. Kept(d, f)
    BY <1>9, <2>1, KeptTwice DEF Alike
  <2>3. e.ctx[t].pending_safe_event <=> c.pending_safe_event
    BY <1>4, <2>1 DEF Alike, ThreadFields
  <2> QED
    BY <1>4, <1>5, <1>8, <1>9, <2>1, <2>2, <2>3 DEF Alike, One
<1>14. /\ f.linked /\ (f.stepping_over <=> c.stepping_over)
       /\ (f.stop_group_mark <=> c.stop_group_mark) /\ f.k # "trap"
  BY <1>4, <1>13 DEF Kept, ThreadFields
<1>15. r.pids \in Int
  BY <1>1 DEF Shape
<1>16. q.pids = r.pids - One(c.pending_safe_event) + One(f.pending_safe_event)
  BY <1>13, <1>15 DEF One
<1>17. ~Loose(f) /\ ~Trapped(f) /\ TrapOK(f)
  BY <1>13, <1>14 DEF Loose, Trapped, TrapOK
<1>18. Good(q)
  BY <1>11, <1>12, <1>13, <1>14, <1>16, <1>17, ThreadStepGood
<1> QED
  BY <1>3, <1>18

\* Exited: the end of a thread is reported, and those who wait for it are told.
LEMMA ExitedGood ==
  ASSUME NEW r, Good(r), r.pc = "idle", NEW t \in Threads, r.ctx[t].k = "gone"
  PROVE  Good(Exited(r, t))
<1> DEFINE x == [r EXCEPT !.ctx[t].exiting = TRUE]
           y == IF r.ctx[t].stopped THEN send_context_started_event(x, t) ELSE r
           c == y.ctx[t]
           d == [c EXCEPT !.exiting = FALSE, !.exited = TRUE, !.k = "run",
                          !.pending_intercept = FALSE, !.intercepted = FALSE,
                          !.safe_single_step = FALSE, !.step_mode = "resume"]
           a == [y EXCEPT !.ctx[t] = d]
           s == check_safe_events(a, t)
           q == post_location_evaluation_request(s, ProcOf[t], TRUE)
<1>1. Shape(r) /\ GenBase(r) /\ Holding(r, 0, 0, {}) /\ RestOK(r)
  BY DEF Good, Holding, GenOK
<1>2. Exited(r, t) = q
  <2> DEFINE After(w) == post_location_evaluation_request(check_safe_events(
                           [w EXCEPT !.ctx[t] =
                             [@ EXCEPT !.exiting = FALSE, !.exited = TRUE, !.k = "run",
                                       !.pending_intercept = FALSE, !.intercepted = FALSE,
                                       !.safe_single_step = FALSE, !.step_mode = "resume"]], t),
                           ProcOf[t], TRUE)
  <2>1. ASSUME NEW w PROVE Strict(LAMBDA v : After(v), w) = After(w)
    <3> HIDE DEF After
    <3> QED BY Zenon DEF Strict
  <2>2. Exited(r, t) = Strict(LAMBDA v : After(v), y)
    BY DEF Exited
  <2>3. After(y) = q
    OBVIOUS
  <2> HIDE DEF After, y, q
  <2> QED
    BY Zenon, <2>1, <2>2, <2>3
<1>3. Good(y) /\ y.pc = "idle"
  <2>1. Quiet(r, x) /\ x.ctx[t] = [r.ctx[t] EXCEPT !.exiting = TRUE]
    BY <1>1, ExitingQuiet
  <2>2. x.ctx[t].exiting
    BY <1>1, <2>1 DEF Shape, ThreadShape, ThreadFields
  <2> HIDE DEF x
  <2>3. Good(x) /\ Shape(x) /\ x.pc = r.pc
    BY <2>1, QuietGood DEF Quiet, Around, Same, SameCtl
  <2> DEFINE z == send_context_started_event(x, t)
  <2>4. Released(x, z, t)
    BY <2>3, ContextStarted
  <2> HIDE DEF z
  <2>5. ~Loose(z.ctx[t])
    BY <2>2, <2>4 DEF Released, Kept, Loose
  <2>6. z.pc = "idle" /\ z.active = x.active /\ z.run = x.run /\ ~x.active
    BY <2>3, <2>4 DEF Released, Around, Same, SameCtl, SameClients, Good, RestOK
  <2>7. Holding(z, 0, 0, {})
    BY <2>3, <2>4, <2>5, <2>6, ReleasedHolds DEF Good
  <2>8. Good(z)
    BY <2>6, <2>7 DEF Good, RestOK
  <2> QED
    BY <2>6, <2>8 DEF z
<1> HIDE DEF y
<1>4. Shape(y) /\ GenBase(y) /\ Holding(y, 0, 0, {})
  BY <1>3 DEF Good, Holding, GenOK
<1>5. /\ ThreadFields \subseteq DOMAIN d /\ ~d.exiting /\ d.exited /\ ~d.safe_single_step
      /\ d.k = "run"
      /\ \A f \in ThreadFields \ {"exiting", "exited", "safe_single_step", "k"} : d[f] = c[f]
  BY <1>4 DEF Shape, ThreadShape, ThreadFields
<1> HIDE DEF d
<1>6. Around(y, a) /\ a.pids = y.pids /\ a.ctx[t] = d /\ ButFor(y, a, t)
  BY <1>4, <1>5, NewThreadRecord
<1> HIDE DEF a
<1>7. Asks(y, a) /\ Shape(a) /\ GenBase(a)
  BY <1>4, <1>6, AroundAsks DEF Asks
<1>8. /\ Around(a, s) /\ ButFor(a, s, t) /\ Kept(d, s.ctx[t])
      /\ ~s.ctx[t].pending_safe_event /\ s.pids = a.pids - One(d.pending_safe_event)
  BY <1>6, <1>7, CheckSafeEvents
<1> HIDE DEF s
<1>9. Asks(a, s) /\ Shape(s) /\ GenBase(s)
  BY <1>7, <1>8, AroundAsks DEF Asks
<1>10. Mild(s, q)
  BY <1>9, LocationRequest, ThreadsFinite
<1> HIDE DEF q
<1>11. Asks(y, q)
  BY <1>4, <1>7, <1>9, <1>10, AsksTwice DEF Mild
<1>12. ButFor(y, q, t)
  BY <1>6, <1>8, <1>10, AlikeTwice DEF ButFor, AllAlike, Mild
<1> DEFINE f == q.ctx[t]
<1>13. Kept(d, f) /\ ~f.pending_safe_event /\ q.pids = y.pids - One(c.pending_safe_event)
  <2>1. Alike(s.ctx[t], f) /\ q.pids = s.pids
    BY <1>10 DEF AllAlike, Mild
  <2>2. Kept(d, f)
    BY <1>8, <2>1, KeptTwice DEF Alike
  <2> QED
    BY <1>5, <1>6, <1>8, <2>1, <2>2 DEF Alike, One, ThreadFields
<1>14. /\ (f.linked <=> c.linked) /\ (f.stepping_over <=> c.stepping_over) /\ f.exited
       /\ (f.stop_group_mark <=> c.stop_group_mark) /\ f.k # "trap"
  BY <1>5, <1>13 DEF Kept, ThreadFields
<1>15. q.pids = y.pids - One(c.pending_safe_event) + One(f.pending_safe_event)
  <2>1. y.pids \in Int
    BY <1>4 DEF Shape
  <2> QED
    BY <1>13, <2>1 DEF One
<1>16. ~Loose(f) /\ ~Trapped(f) /\ TrapOK(f)
  BY <1>13, <1>14 DEF Loose, Trapped, TrapOK
<1>17. Good(q)
  BY <1>3, <1>11, <1>12, <1>13, <1>14, <1>15, <1>16, ThreadStepGood
<1> QED
  BY <1>2, <1>17

\* ExitReported keeps the invariant.
LEMMA ExitReportedKeeps ==
  ASSUME RInv, NEW t \in Threads, ExitReported(t)
  PROVE  RInv'
<1>1. rc.pc = "idle" /\ rc.ctx[t].k = "gone" /\ rc' = Exited(rc, t)
  BY Zenon DEF ExitReported, Idle, Become
<1> QED
  BY <1>1, ExitedGood DEF RInv

\* Fields of a thread that the invariant is not about, and then it stops.
LEMMA StopsGood ==
  ASSUME NEW r, Good(r), r.pc = "idle", NEW t \in Threads, r.ctx[t].linked, ~r.ctx[t].exited,
         NEW q, Quiet(r, q)
  PROVE  Good(Stopped(q, t))
<1>1. Good(q)
  BY QuietGood
<1>2. q.pc = "idle" /\ q.ctx[t].linked /\ ~q.ctx[t].exited
  BY DEF Quiet, Around, Same, SameCtl, AllAlike, Alike, Kept
<1> QED
  BY <1>1, <1>2, StoppedGood

\* Two fields of a thread that the invariant is not about.
LEMMA ThreadAsideTwice ==
  ASSUME NEW r, Shape(r), NEW t \in Threads, NEW f, f \notin ThreadFields, NEW v,
         NEW g, g \notin ThreadFields, NEW w
  PROVE  Quiet(r, [[r EXCEPT !.ctx[t][f] = v] EXCEPT !.ctx[t][g] = w])
<1> DEFINE a == [r EXCEPT !.ctx[t][f] = v]
           q == [a EXCEPT !.ctx[t][g] = w]
<1>1. Quiet(r, a) /\ Shape(a)
  BY ThreadAside DEF Quiet, Around
<1> HIDE DEF a
<1>2. Quiet(a, q)
  BY <1>1, ThreadAside
<1> HIDE DEF q
<1>3. Quiet(r, q)
  BY <1>1, <1>2, QuietTwice
<1> QED
  BY <1>3 DEF q, a

\* The reports that a thread has stopped keep the invariant.
LEMMA StopReportsKeep ==
  ASSUME RInv, NEW t \in Threads, StopSignal(t) \/ Signal(t) \/ EndOfStep(t) \/ TrapReported(t)
                                  \/ ExitEvent(t)
  PROVE  RInv'
<1>1. Good(rc) /\ Shape(rc)
  BY DEF RInv, Good, Holding
<1>2. /\ "at" \notin ThreadFields /\ "sigstop_posted" \notin ThreadFields
      /\ "pending_intercept" \notin ThreadFields /\ "stopped_by_exception" \notin ThreadFields
      /\ "stopped_by_bp" \notin ThreadFields
  BY DEF ThreadFields
<1>3. CASE StopSignal(t)
  <2> DEFINE v == StillAt(t)
             q == [[rc EXCEPT !.ctx[t].sigstop_posted = FALSE] EXCEPT !.ctx[t].at = v]
  <2>1. rc.pc = "idle" /\ rc.ctx[t].linked /\ ~rc.ctx[t].exited /\ rc' = Stopped(q, t)
    BY Zenon, <1>3 DEF StopSignal, Idle, Running, IsNew, Become
  <2> HIDE DEF v
  <2>2. Quiet(rc, q)
    BY Zenon, <1>1, <1>2, ThreadAsideTwice
  <2> HIDE DEF q
  <2> QED
    BY <1>1, <2>1, <2>2, StopsGood DEF RInv
<1>4. CASE Signal(t)
  <2> DEFINE v == StillAt(t)
             a == [[rc EXCEPT !.ctx[t].pending_intercept = TRUE] EXCEPT !.ctx[t].at = v]
             q == [a EXCEPT !.ctx[t].stopped_by_exception = TRUE]
  <2>1. rc.pc = "idle" /\ rc.ctx[t].linked /\ ~rc.ctx[t].exited /\ rc' = Stopped(q, t)
    BY Zenon, <1>4 DEF Signal, Idle, Running, Become
  <2> HIDE DEF v
  <2>2. Quiet(rc, a)
    BY Zenon, <1>1, <1>2, ThreadAsideTwice
  <2> HIDE DEF a
  <2>3. Quiet(a, q)
    BY <1>2, <2>2, ThreadAside DEF Quiet, Around
  <2> HIDE DEF q
  <2> QED
    BY <1>1, <2>1, <2>2, <2>3, QuietTwice, StopsGood DEF RInv
<1>5. CASE EndOfStep(t)
  <2> DEFINE q == [rc EXCEPT !.ctx[t].at = FALSE]
  <2>1. rc.pc = "idle" /\ rc.ctx[t].linked /\ ~rc.ctx[t].exited /\ rc' = Stopped(q, t)
    BY Zenon, <1>5 DEF EndOfStep, Idle, Running, Become
  <2>2. Quiet(rc, q)
    BY <1>1, <1>2, ThreadAside
  <2> HIDE DEF q
  <2> QED
    BY <1>1, <2>1, <2>2, StopsGood DEF RInv
<1>6. CASE TrapReported(t)
  <2> DEFINE b == rc.bi[ProcOf[t]]
             v == b.exists /\ b.planted
             q == [rc EXCEPT !.ctx[t].stopped_by_bp = v]
  <2>1. rc.pc = "idle" /\ rc.ctx[t].k = "trap" /\ rc' = Stopped(q, t)
    BY Zenon, <1>6 DEF TrapReported, Idle, Become
  <2>2. rc.ctx[t].linked /\ ~rc.ctx[t].exited
    BY <1>1, <2>1 DEF Good, Holding, BreakOK, TrapOK
  <2> HIDE DEF v
  <2>3. Quiet(rc, q)
    BY <1>1, <1>2, ThreadAside
  <2> HIDE DEF q
  <2> QED
    BY <1>1, <2>1, <2>2, <2>3, StopsGood DEF RInv
<1>7. CASE ExitEvent(t)
  <2> DEFINE q == [rc EXCEPT !.ctx[t].exiting = TRUE]
  <2>1. /\ rc.pc = "idle" /\ rc.ctx[t].linked /\ ~rc.ctx[t].exited /\ rc.ctx[t].k = "run"
        /\ rc' = Stopped(q, t)
    BY Zenon, <1>7 DEF ExitEvent, Idle, Running, Become
  <2>2. Quiet(rc, q)
    BY <1>1, <2>1, ExitingQuiet
  <2> HIDE DEF q
  <2> QED
    BY <1>1, <2>1, <2>2, StopsGood DEF RInv
<1> QED
  BY <1>3, <1>4, <1>5, <1>6, <1>7

\* A clone is reported: a thread is added, and the one that made it stops.
LEMMA CloneKeeps ==
  ASSUME RInv, NEW t \in Threads, NEW n \in Threads, Clone(t, n)
  PROVE  RInv'
<1> DEFINE c == rc.ctx[n]
           d == [c EXCEPT !.linked = TRUE, !.sigstop_posted = TRUE, !.k = "new"]
           a == [rc EXCEPT !.ctx[n] = d]
           b == [a EXCEPT !.ctx[t].at = FALSE]
           s == post_location_evaluation_request(b, ProcOf[t], TRUE)
<1>1. Good(rc) /\ Shape(rc) /\ GenBase(rc) /\ PendingOK(rc)
  BY DEF RInv, Good, Holding, GenOK
<1>2. /\ rc.pc = "idle" /\ rc.ctx[t].linked /\ ~rc.ctx[t].exited /\ ~rc.ctx[n].linked
      /\ ProcOf[n] = ProcOf[t] /\ rc' = Stopped(s, t)
  BY Zenon DEF Clone, Idle, Running, IsLinked, Become
<1>3. /\ ThreadFields \subseteq DOMAIN d /\ d.linked /\ d.k = "new"
      /\ \A f \in ThreadFields \ {"linked", "k"} : d[f] = c[f]
  BY <1>1 DEF Shape, ThreadShape, ThreadFields
<1> HIDE DEF d
<1>4. Around(rc, a) /\ a.pids = rc.pids /\ a.ctx[n] = d /\ ButFor(rc, a, n)
      /\ \A x \in Threads \ {n} : a.ctx[x] = rc.ctx[x]
  BY <1>1, <1>3, NewThreadRecord
<1> HIDE DEF a
<1>5. Good(a)
  <2>1. Asks(rc, a)
    BY <1>1, <1>4, AroundAsks
  <2>2. ~c.pending_safe_event
    BY <1>1, <1>2 DEF PendingOK, Waits
  <2>3. /\ (d.stepping_over <=> c.stepping_over) /\ (d.stop_group_mark <=> c.stop_group_mark)
        /\ (d.exited <=> c.exited) /\ (d.pending_safe_event <=> c.pending_safe_event)
    BY <1>3 DEF ThreadFields
  <2>4. ~ProcExited(rc, ProcOf[n])
    BY <1>2 DEF ProcExited, ThreadsOf, IsLinked
  <2>5. ~Loose(d) /\ ~Trapped(d) /\ TrapOK(d)
    BY <1>3 DEF Loose, Trapped, TrapOK
  <2>6. a.pids = rc.pids - One(c.pending_safe_event) + One(d.pending_safe_event)
    BY <1>1, <1>4, <2>2, <2>3 DEF One, Shape
  <2> QED
    BY <1>1, <1>2, <1>3, <1>4, <2>1, <2>2, <2>3, <2>4, <2>5, <2>6, ThreadStepGood
<1>6. Quiet(a, b) /\ Shape(b)
  <2>1. "at" \notin ThreadFields
    BY DEF ThreadFields
  <2> QED
    BY <1>4, <2>1, ThreadAside DEF Around, Quiet
<1> HIDE DEF b
<1>7. Good(b)
  BY <1>5, <1>6, QuietGood
<1>8. Mild(b, s)
  BY <1>6, <1>7, LocationRequest, ThreadsFinite DEF Good, Holding, GenOK
<1> HIDE DEF s
<1>9. Good(s)
  BY <1>7, <1>8, MildGood
<1>10. s.pc = "idle" /\ s.ctx[t].linked /\ ~s.ctx[t].exited
  <2>1. a.pc = "idle" /\ a.ctx[t].linked /\ ~a.ctx[t].exited
    BY <1>2, <1>4 DEF Around, Same, SameCtl
  <2>2. b.pc = "idle" /\ b.ctx[t].linked /\ ~b.ctx[t].exited
    BY <1>6, <2>1 DEF Quiet, Around, Same, SameCtl, AllAlike, Alike, Kept
  <2> QED
    BY <1>8, <2>2 DEF Mild, Asks, Same, SameCtl, AllAlike, Alike, Kept
<1> QED
  BY <1>2, <1>9, <1>10, StoppedGood DEF RInv

\* A thread runs into the break instruction.
LEMMA TrapKeeps ==
  ASSUME RInv, NEW t \in Threads, Trap(t)
  PROVE  RInv'
<1> DEFINE c == rc.ctx[t]
           d == [c EXCEPT !.k = "trap"]
           a == [rc EXCEPT !.ctx[t] = d]
           b == [a EXCEPT !.ctx[t].at = TRUE]
<1>1. Good(rc) /\ Shape(rc) /\ GenBase(rc) /\ PendingOK(rc)
  BY DEF RInv, Good, Holding, GenOK
<1>2. /\ rc.pc = "idle" /\ c.linked /\ ~c.stopped /\ ~c.exited /\ ~c.exiting
      /\ rc.bi[ProcOf[t]].planted /\ rc' = b
  BY Zenon DEF Trap, Idle, Running, Become
<1>3. /\ ThreadFields \subseteq DOMAIN d /\ d.k = "trap"
      /\ \A f \in ThreadFields \ {"k"} : d[f] = c[f]
  BY <1>1 DEF Shape, ThreadShape, ThreadFields
<1> HIDE DEF d
<1>4. Around(rc, a) /\ a.pids = rc.pids /\ a.ctx[t] = d /\ ButFor(rc, a, t)
  BY <1>1, <1>3, NewThreadRecord
<1> HIDE DEF a
<1>5. Good(a)
  <2>1. Asks(rc, a)
    BY <1>1, <1>4, AroundAsks
  <2>2. /\ (d.stepping_over <=> c.stepping_over) /\ (d.stop_group_mark <=> c.stop_group_mark)
        /\ (d.exited <=> c.exited) /\ (d.pending_safe_event <=> c.pending_safe_event)
        /\ (d.linked <=> c.linked) /\ (d.stopped <=> c.stopped) /\ (d.exiting <=> c.exiting)
    BY <1>3 DEF ThreadFields
  <2>3. ~Loose(d) /\ TrapOK(d)
    BY <1>2, <1>3, <2>2 DEF Loose, TrapOK
  <2>4. a.pids = rc.pids - One(c.pending_safe_event) + One(d.pending_safe_event)
    BY <1>1, <1>4, <2>2 DEF One, Shape
  <2> QED
    BY <1>1, <1>2, <1>4, <2>1, <2>2, <2>3, <2>4, ThreadStepGood
<1>6. Quiet(a, b)
  <2>1. "at" \notin ThreadFields
    BY DEF ThreadFields
  <2> QED
    BY <1>4, <2>1, ThreadAside DEF Around
<1> HIDE DEF b
<1> QED
  BY <1>2, <1>5, <1>6, QuietGood DEF RInv

\* Threads die.
LEMMA DeathKeeps ==
  ASSUME RInv, (\E p \in Procs : Kill(p)) \/ (\E t \in Threads : Exits(t))
  PROVE  RInv'
<1>1. Good(rc) /\ Shape(rc)
  BY DEF RInv, Good, Holding
<1>2. ASSUME NEW p \in Procs, Kill(p) PROVE RInv'
  <2> DEFINE C == [t \in Threads |-> IF t \in ThreadsOf(p) /\ Alive(rc.ctx[t])
                                     THEN [rc.ctx[t] EXCEPT !.k = "zombie"] ELSE rc.ctx[t]]
             q == [rc EXCEPT !.ctx = C]
  <2>1. rc' = q
    BY Zenon, <1>2 DEF Kill, Become
  <2>2. DOMAIN C = Threads
        /\ \A t \in Threads : ThreadFields \subseteq DOMAIN C[t] /\ Alike(rc.ctx[t], C[t])
    BY <1>1 DEF Shape, ThreadShape, ThreadFields, Alike, Kept
  <2> HIDE DEF C
  <2>3. Around(rc, q) /\ q.pids = rc.pids /\ q.ctx = C
    BY <1>1, <2>2, NewThreads
  <2> HIDE DEF q
  <2>4. Quiet(rc, q)
    BY <2>2, <2>3 DEF Quiet, AllAlike
  <2> QED
    BY <1>1, <2>1, <2>4, QuietGood DEF RInv
<1>3. ASSUME NEW t \in Threads, Exits(t) PROVE RInv'
  <2>1. PICK k \in {"zombie", "gone"} : rc' = [rc EXCEPT !.ctx[t].k = k]
    BY Zenon, <1>3 DEF Exits, Become
  <2> DEFINE d == [rc.ctx[t] EXCEPT !.k = k]
             q == [rc EXCEPT !.ctx[t] = d]
  <2>2. rc' = q
    BY <2>1
  <2>3. ThreadFields \subseteq DOMAIN d /\ Alike(rc.ctx[t], d)
    BY <1>1 DEF Shape, ThreadShape, ThreadFields, Alike, Kept
  <2> HIDE DEF d
  <2>4. Around(rc, q) /\ q.pids = rc.pids /\ q.ctx[t] = d /\ ButFor(rc, q, t)
    BY <1>1, <2>3, NewThreadRecord
  <2> HIDE DEF q
  <2>5. Quiet(rc, q)
    BY <2>3, <2>4 DEF Quiet, AllAlike, ButFor
  <2> QED
    BY <1>1, <2>2, <2>5, QuietGood DEF RInv
<1> QED
  BY <1>2, <1>3

\* What the kernel does and reports keeps the invariant.
LEMMA KernelKeeps == ASSUME RInv, Kernel PROVE RInv'
BY StopReportsKeep, TrapKeeps, ExitReportedKeeps, CloneKeeps, DeathKeeps DEF Kernel

-----------------------------------------------------------------------------
(* Commands.                                                               *)

\* Threads and instructions stay, and the books are right.
LEMMA DeskHolds ==
  ASSUME NEW r, NEW l, NEW m, NEW X, Holding(r, l, m, X), NEW q, Shape(q), NEW k, NEW n,
         \A g \in {"ctx", "pids", "list", "bi", "pc", "sync"} : q[g] = r[g],
         LockOK(q, k), GenOK(q, n), Theirs(q), r.gen_posted # r.gen_done => q.gen_posted # q.gen_done
  PROVE  Holding(q, k, n, X)
<1>1. /\ q.ctx = r.ctx /\ q.pids = r.pids /\ q.list = r.list /\ q.bi = r.bi /\ q.pc = r.pc
      /\ q.sync = r.sync
  OBVIOUS
<1>2. PendingOK(q) /\ LoopOK(q) /\ SyncOK(q)
  BY <1>1, ThreadsFrame DEF Holding
<1>3. SteppingOK(q, X)
  BY <1>1, SteppingKept DEF Holding
<1>4. BreakOK(q)
  BY <1>1, InstructionSame DEF Holding, BreakOK
<1> QED
  BY <1>2, <1>3, <1>4 DEF Holding

\* The holders of the lock.
Held(r) == Len(r.list) + One(r.cache_lock) + One(r.gen_posted # r.gen_done) + Clients(r, Mem)

\* The lock and its holders.
LEMMA LockHeld ==
  ASSUME NEW r, Shape(r)
  PROVE  Held(r) \in Nat /\ \A l \in Nat : LockOK(r, l) <=> r.lock = Held(r) + l
<1> DEFINE a == One(r.cache_lock)
           b == One(r.gen_posted # r.gen_done)
           c == Clients(r, Mem)
           k == Len(r.list)
<1>1. a \in Nat /\ b \in Nat /\ c \in Nat /\ k \in Nat
  BY ClientsNat, LenProperties DEF One, Shape
<1>2. Held(r) = k + a + b + c
  BY Zenon DEF Held
<1>3. \A l \in Nat : LockOK(r, l) <=> r.lock = k + a + b + c + l
  BY Zenon DEF LockOK
<1> HIDE DEF a, b, c, k
<1> QED
  BY <1>1, <1>2, <1>3

\* The same holders, but for one of them.
LEMMA HeldBut ==
  ASSUME NEW r, Shape(r), NEW q, Shape(q), q.list = r.list, q.gen_posted = r.gen_posted,
         q.gen_done = r.gen_done
  PROVE  Held(q) = Held(r) - One(r.cache_lock) + One(q.cache_lock)
                   - Clients(r, Mem) + Clients(q, Mem)
<1> DEFINE a == One(r.cache_lock)
           e == One(q.cache_lock)
           b == One(r.gen_posted # r.gen_done)
           c == Clients(r, Mem)
           d == Clients(q, Mem)
           k == Len(r.list)
<1>1. a \in Nat /\ e \in Nat /\ b \in Nat /\ c \in Nat /\ d \in Nat /\ k \in Nat
  BY ClientsNat, LenProperties DEF One, Shape
<1>2. Held(r) = k + a + b + c
  BY Zenon DEF Held
<1>3. Held(q) = k + e + b + d
  BY DEF Held
<1> HIDE DEF a, b, c, d, e, k
<1>4. Held(q) = Held(r) - a + e - c + d
  BY <1>1, <1>2, <1>3
<1> QED
  BY Zenon, <1>4 DEF a, c, d, e

\* The clients, when the ones about to be called are others.
LEMMA ClientsRun ==
  ASSUME NEW r, Shape(r), NEW q, Shape(q), q.waiting = r.waiting, q.missed = r.missed, NEW T
  PROVE  Clients(q, T) = Clients(r, T) - Cardinality(Places(r.run, T)) + Cardinality(Places(q.run, T))
<1> DEFINE a == Cardinality(Places(r.run, T))
           b == Cardinality(Places(r.waiting, T))
           c == Cardinality(Places(r.missed, T))
           d == Cardinality(Places(q.run, T))
<1>1. a \in Nat /\ b \in Nat /\ c \in Nat /\ d \in Nat
  BY ClientsNat
<1>2. Clients(r, T) = a + b + c
  BY Zenon DEF Clients
<1>3. Clients(q, T) = d + b + c
  BY DEF Clients
<1> HIDE DEF a, b, c, d
<1>4. Clients(q, T) = Clients(r, T) - a + d
  BY <1>1, <1>2, <1>3
<1> QED
  BY Zenon, <1>4 DEF a, d

\* One client that is called.
LEMMA OneClient ==
  ASSUME NEW c \in ClientT, NEW T
  PROVE  /\ <<c>> \in Seq(ClientT) /\ Cardinality(Places(<<c>>, T)) = One(c \in T)
         /\ Range(<<c>>) = {c} /\ Cardinality(Places(<<>>, T)) = 0
<1>1. <<c>> \in Seq(ClientT) /\ DOMAIN <<c>> = {1} /\ <<c>>[1] = c
  OBVIOUS
<1>2. Range(<<c>>) = {c}
  BY <1>1 DEF Range
<1>3. Places(<<c>>, T) = IF c \in T THEN {1} ELSE {}
  BY <1>1 DEF Places
<1>4. Cardinality({1}) = 1 /\ Cardinality({}) = 0
  BY FS_Singleton, FS_EmptySet
<1> QED
  BY <1>1, <1>2, <1>3, <1>4, PlacesEmpty DEF One

\* Commands that only ask threads to stop or to go on, or change the breakpoint.
LEMMA AsksKeep ==
  ASSUME RInv, NEW t \in Threads, NEW mode, NEW bp,
         CommandSuspend(t) \/ CommandResume(t, mode) \/ CommandBreakpoint(bp) \/ StopAllTimer
  PROVE  RInv'
<1>1. Good(rc) /\ Shape(rc) /\ GenBase(rc)
  BY DEF RInv, Good, Holding, GenOK
<1>2. CASE CommandSuspend(t)
  <2>1. rc' = suspend_debug_context(rc, t)
    BY Zenon, <1>2 DEF CommandSuspend, Become
  <2> QED
    BY <1>1, <2>1, SuspendQuiet, QuietGood DEF RInv
<1>3. CASE CommandResume(t, mode)
  <2> DEFINE a == [rc EXCEPT !.ctx[t].step_mode = mode]
  <2>1. rc' = resume_context_tree(a, t)
    BY Zenon, <1>3 DEF CommandResume, Become
  <2>2. "step_mode" \notin ThreadFields
    BY DEF ThreadFields
  <2>3. Quiet(rc, a) /\ Shape(a)
    BY <1>1, <2>2, ThreadAside DEF Quiet, Around
  <2> HIDE DEF a
  <2>4. Quiet(a, rc')
    BY <2>1, <2>3, ResumeTree
  <2> QED
    BY <1>1, <2>3, <2>4, QuietTwice, QuietGood DEF RInv
<1>4. CASE CommandBreakpoint(bp)
  <2> DEFINE a == [rc EXCEPT !.bp = bp]
  <2>1. rc' = replant_breakpoint(a)
    BY Zenon, <1>4 DEF CommandBreakpoint, Become
  <2>2. "bp" \notin StateFields
    BY DEF StateFields
  <2>3. Quiet(rc, a)
    BY <1>1, <2>2, Aside
  <2> HIDE DEF a
  <2>4. Good(a)
    BY <1>1, <2>3, QuietGood
  <2>5. Mild(a, rc')
    BY <2>1, <2>4, ReplantRequest DEF Good, Holding, GenOK
  <2> QED
    BY <2>4, <2>5, MildGood DEF RInv
<1>5. CASE StopAllTimer
  <2> DEFINE a == PostSafe(rc)
             b == [a EXCEPT !.timer = FALSE]
             n == b.tcnt + 1
             q == [b EXCEPT !.tcnt = n]
  <2>1. rc' = q
    BY Zenon, <1>5 DEF StopAllTimer, Become
  <2>2. "timer" \notin StateFields /\ "tcnt" \notin StateFields
    BY DEF StateFields
  <2>3. Quiet(rc, a) /\ Shape(a)
    BY <1>1, PostSafeQuiet DEF Quiet, Around
  <2> HIDE DEF a
  <2>4. Quiet(a, b) /\ Shape(b)
    BY <2>2, <2>3, Aside DEF Quiet, Around
  <2> HIDE DEF b, n
  <2>5. Quiet(b, q)
    BY <2>2, <2>4, Aside
  <2> HIDE DEF q
  <2> QED
    BY <1>1, <2>1, <2>3, <2>4, <2>5, QuietTwice, QuietGood DEF RInv
<1> QED
  BY <1>2, <1>3, <1>4, <1>5

\* A command that terminates a thread posts a safe event.
LEMMA TerminateKeeps ==
  ASSUME RInv, NEW t \in Threads, CommandTerminate(t)
  PROVE  RInv'
<1> DEFINE i == [grp |-> ProcOf[t], done |-> "terminate", arg |-> t]
           q == post_safe_event(rc, i)
<1>1. Good(rc) /\ Shape(rc) /\ Holding(rc, 0, 0, {}) /\ RestOK(rc)
  BY DEF RInv, Good, Holding
<1>2. rc' = q
  BY Zenon DEF CommandTerminate, Become
<1>3. i \in Item /\ i.done = "terminate"
  BY ThreadsFinite DEF Item
<1> HIDE DEF i
<1>4. Holding(q, 0, 0, {})
  BY <1>1, <1>3, PostedHolds
<1>5. q.active = rc.active /\ q.pc = rc.pc /\ q.run = rc.run
  BY <1>1, <1>3, PostSafeEvent DEF SameCtl, SameClients
<1> HIDE DEF q
<1> QED
  BY <1>1, <1>2, <1>4, <1>5 DEF RInv, Good, RestOK

\* A command of the memory service takes the lock and is called.
LEMMA MemoryKeeps ==
  ASSUME RInv, NEW p \in Procs, CommandMemory(p)
  PROVE  RInv'
<1> DEFINE c == [client |-> "memory", grp |-> p]
           u == <<c>>
           n == rc.lock + 1
           a == [rc EXCEPT !.lock = n]
           q == [a EXCEPT !.run = u]
<1>1. Good(rc) /\ Shape(rc) /\ Holding(rc, 0, 0, {}) /\ RestOK(rc)
  BY DEF RInv, Good, Holding
<1>2. rc.pc = "idle" /\ rc.run = <<>> /\ rc' = q
  BY Zenon DEF CommandMemory, Become, Idle, run_ctrl_lock
<1>3. c \in ClientT /\ c \in Mem /\ c \notin Replants /\ c.client = "memory"
  BY DEF ClientT, Mem, Replants
<1> HIDE DEF c
<1>4. /\ u \in Seq(ClientT) /\ Cardinality(Places(u, Mem)) = 1 /\ Range(u) = {c}
      /\ Cardinality(Places(u, Replants)) = 0
      /\ Cardinality(Places(<<>>, Mem)) = 0 /\ Cardinality(Places(<<>>, Replants)) = 0
  BY <1>3, OneClient DEF One
<1>5. n \in Int /\ n = rc.lock + 1 /\ rc.lock \in Int
  BY <1>1 DEF Shape
<1> HIDE DEF u, n
<1>6. q.run = u /\ q.lock = n /\ DOMAIN q = DOMAIN rc
      /\ \A g \in StateFields \ {"run", "lock"} : q[g] = rc[g]
  BY <1>1 DEF Shape, StateFields
<1> HIDE DEF q
<1>7. Shape(q)
  BY <1>1, <1>4, <1>5, <1>6 DEF Shape, ThreadShape, StateFields
<1>8. /\ q.waiting = rc.waiting /\ q.missed = rc.missed /\ q.list = rc.list
      /\ q.gen_posted = rc.gen_posted /\ q.gen_done = rc.gen_done /\ q.cache_lock = rc.cache_lock
      /\ q.gen_active = rc.gen_active /\ q.queue = rc.queue /\ q.enter_cnt = rc.enter_cnt
      /\ q.evals_active = rc.evals_active /\ q.evals_posted = rc.evals_posted
      /\ q.pc = rc.pc /\ q.active = rc.active
  BY <1>6 DEF StateFields
<1>9. Clients(q, Mem) = Clients(rc, Mem) + 1 /\ Clients(q, Replants) = Clients(rc, Replants)
      /\ Clients(rc, Mem) \in Nat
  <2>1. \A T : Clients(q, T) = Clients(rc, T) - Cardinality(Places(rc.run, T))
                               + Cardinality(Places(u, T))
    BY <1>1, <1>6, <1>7, <1>8, ClientsRun
  <2>2. Clients(rc, Mem) \in Nat /\ Clients(rc, Replants) \in Nat
    BY <1>1, ClientsNat
  <2> QED
    BY <1>2, <1>4, <2>1, <2>2
<1>10. LockOK(q, 0)
  <2>1. Held(q) = Held(rc) - One(rc.cache_lock) + One(rc.cache_lock)
                  - Clients(rc, Mem) + Clients(q, Mem)
    BY <1>1, <1>7, <1>8, HeldBut
  <2>2. Held(rc) \in Nat /\ rc.lock = Held(rc)
    BY <1>1, LockHeld DEF Holding
  <2>3. One(rc.cache_lock) \in Nat
    BY DEF One
  <2>4. q.lock = Held(q) + 0
    BY <1>5, <1>6, <1>9, <2>1, <2>2, <2>3
  <2> QED
    BY <1>7, <2>4, LockHeld
<1>11. GenOK(q, 0)
  BY <1>1, <1>8, <1>9 DEF Holding, GenOK, GenBase
<1>12. Theirs(q)
  BY <1>1, <1>3, <1>4, <1>6, <1>8 DEF Holding, Theirs
<1>13. Holding(q, 0, 0, {})
  BY <1>1, <1>6, <1>7, <1>8, <1>10, <1>11, <1>12, DeskHolds DEF StateFields
<1> QED
  BY <1>1, <1>2, <1>8, <1>13 DEF RInv, Good, RestOK

\* The lock of a proxy is given back.
LEMMA ProxyUnlocks ==
  ASSUME NEW r, Good(r), r.cache_lock
  PROVE  Good(run_ctrl_unlock([r EXCEPT !.cache_lock = FALSE]))
<1> DEFINE q == [r EXCEPT !.cache_lock = FALSE]
           v == run_ctrl_unlock(q)
<1>1. Shape(r) /\ Holding(r, 0, 0, {}) /\ RestOK(r)
  BY DEF Good, Holding
<1>2. ~q.cache_lock /\ DOMAIN q = DOMAIN r
      /\ \A g \in StateFields \ {"cache_lock"} : q[g] = r[g]
  BY <1>1 DEF Shape, StateFields
<1> HIDE DEF q
<1>3. Shape(q)
  BY <1>1, <1>2 DEF Shape, ThreadShape, StateFields
<1>4. /\ SameClients(r, q) /\ SameRound(r, q) /\ q.list = r.list /\ q.lock = r.lock
      /\ q.gen_posted = r.gen_posted /\ q.gen_done = r.gen_done /\ q.queue = r.queue
      /\ q.evals_posted = r.evals_posted /\ q.pc = r.pc /\ q.active = r.active /\ q.run = r.run
  BY <1>2 DEF StateFields, SameClients, SameRound
<1>5. GenOK(q, 0) /\ Theirs(q) /\ Clients(q, Mem) = Clients(r, Mem)
  BY <1>1, <1>4, RoundFrame DEF Holding
<1>6. LockOK(q, 1)
  <2>1. Held(q) = Held(r) - One(r.cache_lock) + One(q.cache_lock)
                  - Clients(r, Mem) + Clients(q, Mem)
    BY <1>1, <1>3, <1>4, HeldBut
  <2>2. Held(r) \in Nat /\ r.lock = Held(r) /\ Clients(r, Mem) \in Nat
    BY <1>1, LockHeld, ClientsNat DEF Holding
  <2>3. One(r.cache_lock) = 1 /\ One(q.cache_lock) = 0
    BY <1>2 DEF One
  <2> DEFINE h == Held(r)
             k == Held(q)
             c == Clients(r, Mem)
  <2>4. h \in Nat /\ c \in Nat /\ k = h - 1 + 0 - c + c /\ q.lock = h
    BY <1>4, <1>5, <2>1, <2>2, <2>3
  <2> HIDE DEF h, k, c
  <2>5. q.lock = k + 1
    BY <2>4
  <2> QED
    BY <1>3, <2>5, LockHeld DEF k
<1>7. Holding(q, 0 + 1, 0, {})
  BY <1>1, <1>2, <1>3, <1>4, <1>5, <1>6, DeskHolds DEF StateFields
<1>8. Holding(v, 0, 0, {}) /\ SameCtl(q, v) /\ SameClients(q, v)
  BY <1>7, UnlockHolds
<1> HIDE DEF v
<1>9. Good(v)
  BY <1>1, <1>4, <1>8 DEF Good, RestOK, SameCtl, SameClients
<1> QED
  BY <1>9 DEF v, q

\* The commands of a proxy, and the end of the channel.
LEMMA ProxyKeeps ==
  ASSUME RInv, context_cache_lock \/ context_cache_unlock \/ channel_closed
  PROVE  RInv'
<1>1. Good(rc) /\ Shape(rc) /\ Holding(rc, 0, 0, {}) /\ RestOK(rc)
  BY DEF RInv, Good, Holding
<1>2. CASE context_cache_lock
  <2> DEFINE n == rc.lock + 1
             a == [rc EXCEPT !.lock = n]
             q == [a EXCEPT !.cache_lock = TRUE]
  <2>1. ~rc.cache_lock /\ rc' = q
    BY Zenon, <1>2 DEF context_cache_lock, Become, run_ctrl_lock
  <2>2. n \in Int /\ n = rc.lock + 1 /\ rc.lock \in Int
    BY <1>1 DEF Shape
  <2> HIDE DEF n
  <2>3. q.cache_lock /\ q.lock = n /\ DOMAIN q = DOMAIN rc
        /\ \A g \in StateFields \ {"cache_lock", "lock"} : q[g] = rc[g]
    BY <1>1 DEF Shape, StateFields
  <2> HIDE DEF q
  <2>4. Shape(q)
    BY <1>1, <2>2, <2>3 DEF Shape, ThreadShape, StateFields
  <2>5. /\ SameClients(rc, q) /\ SameRound(rc, q) /\ q.list = rc.list
        /\ q.gen_posted = rc.gen_posted /\ q.gen_done = rc.gen_done /\ q.queue = rc.queue
        /\ q.evals_posted = rc.evals_posted /\ q.pc = rc.pc /\ q.active = rc.active
        /\ q.run = rc.run
    BY <2>3 DEF StateFields, SameClients, SameRound
  <2>6. GenOK(q, 0) /\ Theirs(q) /\ Clients(q, Mem) = Clients(rc, Mem)
    BY <1>1, <2>5, RoundFrame DEF Holding
  <2>7. LockOK(q, 0)
    <3>1. Held(q) = Held(rc) - One(rc.cache_lock) + One(q.cache_lock)
                    - Clients(rc, Mem) + Clients(q, Mem)
      BY <1>1, <2>4, <2>5, HeldBut
    <3>2. Held(rc) \in Nat /\ rc.lock = Held(rc) /\ Clients(rc, Mem) \in Nat
      BY <1>1, LockHeld, ClientsNat DEF Holding
    <3>3. One(rc.cache_lock) = 0 /\ One(q.cache_lock) = 1
      BY <2>1, <2>3 DEF One
    <3> DEFINE h == Held(rc)
               k == Held(q)
               c == Clients(rc, Mem)
    <3>4. h \in Nat /\ c \in Nat /\ k = h - 0 + 1 - c + c /\ q.lock = h + 1
      BY <2>2, <2>3, <2>6, <3>1, <3>2, <3>3
    <3> HIDE DEF h, k, c
    <3>5. q.lock = k + 0
      BY <3>4
    <3> QED
      BY <2>4, <3>5, LockHeld DEF k
  <2>8. Holding(q, 0, 0, {})
    BY <1>1, <2>3, <2>4, <2>5, <2>6, <2>7, DeskHolds DEF StateFields
  <2> QED
    BY <1>1, <2>1, <2>5, <2>8 DEF RInv, Good, RestOK
<1>3. CASE context_cache_unlock
  <2>1. rc.cache_lock /\ rc' = run_ctrl_unlock([rc EXCEPT !.cache_lock = FALSE])
    BY Zenon, <1>3 DEF context_cache_unlock, Become
  <2> QED
    BY <1>1, <2>1, ProxyUnlocks DEF RInv
<1>4. CASE channel_closed
  <2> DEFINE steps == {t \in Threads : rc.ctx[t].step_mode = "step"}
             C == [t \in Threads |-> IF t \in steps THEN [rc.ctx[t] EXCEPT !.step_mode = "resume"]
                                     ELSE rc.ctx[t]]
             q == [rc EXCEPT !.ctx = C]
  <2>1. rc' = IF rc.cache_lock THEN run_ctrl_unlock([q EXCEPT !.cache_lock = FALSE]) ELSE q
    BY Zenon, <1>4 DEF channel_closed, Become
  <2>2. DOMAIN C = Threads
        /\ \A t \in Threads : ThreadFields \subseteq DOMAIN C[t] /\ Alike(rc.ctx[t], C[t])
    BY <1>1 DEF Shape, ThreadShape, ThreadFields, Alike, Kept
  <2> HIDE DEF C
  <2>3. Around(rc, q) /\ q.pids = rc.pids /\ q.ctx = C
    BY <1>1, <2>2, NewThreads
  <2> HIDE DEF q
  <2>4. Good(q) /\ q.cache_lock = rc.cache_lock
    BY <1>1, <2>2, <2>3, QuietGood DEF Quiet, AllAlike, Around, Same
  <2> QED
    BY <2>1, <2>4, ProxyUnlocks DEF RInv
<1> QED
  BY <1>2, <1>3, <1>4

\* Commands keep the invariant.
LEMMA CommandsKeep == ASSUME RInv, Commands PROVE RInv'
<1>1. PICK t \in Threads : TRUE
  BY RunCtrlAssumption
<1> QED
  BY <1>1, AsksKeep, TerminateKeeps, MemoryKeeps, ProxyKeeps DEF Commands

-----------------------------------------------------------------------------
(* Cache clients.                                                          *)

\* Clients that the state knows of.
Known(r) == Range(r.run) \cup Range(r.waiting) \cup Range(r.missed)

\* Clients move between the state and the hands of the handler.
LEMMA ClientsMove ==
  ASSUME NEW r, NEW l \in Nat, NEW m \in Nat, NEW X, Holding(r, l, m, X), NEW q, Shape(q),
         NEW k \in Nat, NEW n \in Nat, \A g \in StateFields \ {"run", "waiting", "missed"} : q[g] = r[g],
         Known(q) \subseteq Known(r) \cup {c \in ClientT : c.client = "replant" => c.grp \in Range(r.evals_active)},
         Clients(q, Mem) + k = Clients(r, Mem) + l,
         Clients(q, Replants) + n = Clients(r, Replants) + m
  PROVE  Holding(q, k, n, X)
<1>1. Shape(r) /\ LockOK(r, l) /\ GenOK(r, m) /\ Theirs(r)
  BY DEF Holding
<1>2. /\ q.list = r.list /\ q.cache_lock = r.cache_lock /\ q.lock = r.lock
      /\ q.gen_posted = r.gen_posted /\ q.gen_done = r.gen_done /\ q.gen_active = r.gen_active
      /\ q.queue = r.queue /\ q.enter_cnt = r.enter_cnt /\ q.evals_active = r.evals_active
      /\ q.evals_posted = r.evals_posted
  BY DEF StateFields
<1>3. /\ Clients(r, Mem) \in Nat /\ Clients(r, Replants) \in Nat
      /\ Clients(q, Mem) \in Nat /\ Clients(q, Replants) \in Nat
  BY <1>1, ClientsNat
<1>4. LockOK(q, k)
  <2>1. Held(q) = Held(r) - One(r.cache_lock) + One(r.cache_lock)
                  - Clients(r, Mem) + Clients(q, Mem)
    BY <1>1, <1>2, HeldBut
  <2>2. Held(r) \in Nat /\ r.lock = Held(r) + l /\ One(r.cache_lock) \in Nat
    BY <1>1, LockHeld DEF One
  <2> DEFINE h == Held(r)
             e == Held(q)
             a == One(r.cache_lock)
             c == Clients(r, Mem)
             d == Clients(q, Mem)
  <2>3. /\ h \in Nat /\ c \in Nat /\ d \in Nat /\ a \in Nat /\ e = h - a + a - c + d
        /\ q.lock = h + l /\ d + k = c + l
    BY <1>2, <1>3, <2>1, <2>2
  <2> HIDE DEF h, e, a, c, d
  <2>4. q.lock = e + k
    BY <2>3
  <2> QED
    BY <2>4, LockHeld DEF e
<1>5. GenOK(q, n)
  <2>1. GenBase(q)
    BY <1>1, <1>2 DEF GenOK, GenBase
  <2>2. q.enter_cnt = Clients(q, Replants) + n
    <3> DEFINE c == Clients(r, Replants)
               d == Clients(q, Replants)
    <3>1. q.enter_cnt = c + m /\ d + n = c + m
      BY <1>1, <1>2 DEF GenOK
    <3> HIDE DEF c, d
    <3>2. q.enter_cnt = d + n
      BY <3>1
    <3> QED
      BY <3>2 DEF d
  <2> QED
    BY <1>1, <1>2, <2>1, <2>2 DEF GenOK
<1>6. Theirs(q)
  BY <1>1, <1>2 DEF Theirs, Known
<1> QED
  BY <1>2, <1>4, <1>5, <1>6, DeskHolds DEF StateFields

\* A client is memory's or the round's.
LEMMA ClientKinds ==
  ASSUME NEW c \in ClientT
  PROVE  /\ (c \in Mem <=> c.client = "memory") /\ (c \in Replants <=> c.client = "replant")
         /\ c.client \in {"memory", "replant"} /\ c.grp \in Procs
BY DEF ClientT, Mem, Replants

\* RetryClient: the data of a client has arrived.
LEMMA RetryClientKeeps == ASSUME RInv, RetryClient PROVE RInv'
<1>1. Good(rc) /\ Shape(rc) /\ Holding(rc, 0, 0, {}) /\ RestOK(rc)
  BY DEF RInv, Good, Holding
<1>2. PICK i \in DOMAIN rc.missed :
        rc' = [rc EXCEPT !.missed = RemoveAt(@, i), !.run = <<rc.missed[i]>>]
  BY Zenon DEF RetryClient, Become
<1> DEFINE s == RemoveAt(rc.missed, i)
           c == rc.missed[i]
           u == <<c>>
           a == [rc EXCEPT !.missed = s]
           q == [a EXCEPT !.run = u]
<1>3. rc.pc = "idle" /\ rc.run = <<>> /\ rc' = q
  BY Zenon, <1>2 DEF RetryClient, Idle
<1>4. rc.missed \in Seq(ClientT) /\ i \in 1 .. Len(rc.missed)
  BY <1>1, LenProperties DEF Shape
<1>5. /\ s \in Seq(ClientT) /\ c \in ClientT /\ u \in Seq(ClientT)
      /\ \A T : /\ Cardinality(Places(s, T)) = Cardinality(Places(rc.missed, T)) - One(c \in T)
                /\ Cardinality(Places(u, T)) = One(c \in T)
                /\ Cardinality(Places(<<>>, T)) = 0
  <2>1. c \in ClientT /\ s \in Seq(ClientT)
    BY <1>4, RemoveAtFacts, ElementOfSeq
  <2>2. \A T : Cardinality(Places(s, T)) = Cardinality(Places(rc.missed, T)) - One(c \in T)
    BY <1>4, PlacesRemove DEF One
  <2> QED
    BY <2>1, <2>2, OneClient
<1>6. Range(s) \subseteq Range(rc.missed) /\ Range(u) \subseteq Range(rc.missed)
  <2>1. Range(u) = {c} /\ c \in Range(rc.missed)
    BY <1>5, OneClient DEF Range
  <2>2. /\ Len(s) = Len(rc.missed) - 1 /\ Len(rc.missed) \in Nat /\ DOMAIN s = 1 .. Len(s)
        /\ DOMAIN rc.missed = 1 .. Len(rc.missed)
        /\ \A j \in 1 .. Len(rc.missed) - 1 : s[j] = IF j < i THEN rc.missed[j] ELSE rc.missed[j + 1]
    BY <1>4, <1>5, RemoveAtFacts, LenProperties
  <2> HIDE DEF s
  <2>3. \A j \in DOMAIN s : j \in DOMAIN rc.missed /\ j + 1 \in DOMAIN rc.missed
                            /\ (s[j] = rc.missed[j] \/ s[j] = rc.missed[j + 1])
    BY <2>2
  <2> QED
    BY <2>1, <2>3 DEF Range
<1> HIDE DEF s, u, c
<1>7. q.missed = s /\ q.run = u /\ DOMAIN q = DOMAIN rc
      /\ \A g \in StateFields \ {"run", "missed"} : q[g] = rc[g]
  BY <1>1 DEF Shape, StateFields
<1> HIDE DEF q
<1>8. Shape(q)
  BY <1>1, <1>5, <1>7 DEF Shape, ThreadShape, StateFields
<1>9. Known(q) \subseteq Known(rc)
  BY <1>6, <1>7 DEF Known, StateFields
<1>10. ASSUME NEW T PROVE Clients(q, T) = Clients(rc, T)
  <2> DEFINE w == Cardinality(Places(rc.waiting, T))
             e == Cardinality(Places(rc.missed, T))
             f == Cardinality(Places(s, T))
             g == Cardinality(Places(u, T))
             o == One(c \in T)
  <2>1. w \in Nat /\ e \in Nat /\ o \in Nat
    BY <1>1, ClientsNat DEF One
  <2>2. f = e - o /\ g = o /\ Cardinality(Places(<<>>, T)) = 0
    BY <1>5
  <2>3. Clients(rc, T) = 0 + w + e
    BY <1>3, <2>2 DEF Clients
  <2>4. Clients(q, T) = g + w + f
    BY <1>7 DEF Clients, StateFields
  <2> HIDE DEF w, e, f, g, o
  <2> QED
    BY <2>1, <2>2, <2>3, <2>4
<1>11. Holding(q, 0, 0, {})
  <2>1. Clients(q, Mem) + 0 = Clients(rc, Mem) + 0 /\ Clients(q, Replants) + 0 = Clients(rc, Replants) + 0
    BY <1>10
  <2> QED
    BY <1>1, <1>7, <1>8, <1>9, <2>1, ClientsMove
<1>12. q.pc = "idle" /\ q.active = rc.active
  BY <1>3, <1>7 DEF StateFields
<1> QED
  BY <1>1, <1>3, <1>11, <1>12 DEF RInv, Good, RestOK

\* There are n numbers from 1 to n.
LEMMA CountUpTo ==
  ASSUME NEW n \in Nat
  PROVE  Cardinality(1 .. n) = n
<1>1. 1 \in Int /\ n \in Int /\ (1 > n <=> n = 0) /\ n - 1 + 1 = n
  OBVIOUS
<1>2. Cardinality(1 .. n) = IF 1 > n THEN 0 ELSE n - 1 + 1
  BY <1>1, FS_Interval
<1> QED
  BY <1>1, <1>2

\* A round of replanting starts: its clients are called, and no event for a round
\* is left in the queue.
LEMMA RoundStarts ==
  ASSUME NEW r, Good(r), r.pc = "idle", r.run = <<>>, r.enter_cnt = 0,
         r.gen_active < r.gen_posted,
         \A i \in DOMAIN r.queue : r.queue[i].ev # "replant"
  PROVE  LET s == StartReplant(r)
         IN  Good([s EXCEPT !.run = [i \in DOMAIN s.evals_active |->
                      [client |-> "replant", grp |-> s.evals_active[i]]]])
<1> DEFINE v == r.evals_posted
           s == StartReplant(r)
           u == [i \in DOMAIN s.evals_active |-> [client |-> "replant", grp |-> s.evals_active[i]]]
           q == [s EXCEPT !.run = u]
           n == Len(v)
<1>1. Shape(r) /\ Holding(r, 0, 0, {}) /\ RestOK(r) /\ GenOK(r, 0) /\ GenBase(r) /\ Theirs(r)
      /\ LockOK(r, 0)
  BY DEF Good, Holding, GenOK
<1>2. n \in Nat /\ v \in Seq(Procs) /\ DOMAIN v = 1 .. n
  BY <1>1, LenProperties DEF Shape
<1>3. /\ s.gen_active = r.gen_posted /\ s.evals_active = v /\ s.evals_posted = <<>>
      /\ s.enter_cnt = n /\ DOMAIN s = DOMAIN r
      /\ \A g \in StateFields \ {"gen_active", "evals_active", "evals_posted", "enter_cnt"} :
            s[g] = r[g]
  <2> DEFINE a == [r EXCEPT !.gen_active = r.gen_posted, !.evals_active = r.evals_posted,
                            !.evals_posted = <<>>, !.enter_cnt = n]
  <2>1. a.gen_active = r.gen_posted /\ a.evals_active = v /\ a.evals_posted = <<>>
        /\ a.enter_cnt = n /\ DOMAIN a = DOMAIN r
        /\ \A g \in StateFields \ {"gen_active", "evals_active", "evals_posted", "enter_cnt"} :
              a[g] = r[g]
    <3> HIDE DEF n
    <3> QED
      BY <1>1 DEF Shape, StateFields
  <2>2. s = [a EXCEPT !.loc_active = r.loc_posted, !.loc_posted = [p \in Procs |-> FALSE]]
    BY DEF StartReplant
  <2> DEFINE x == r.loc_posted
             y == [p \in Procs |-> FALSE]
             b == [a EXCEPT !.loc_active = x]
  <2> HIDE DEF a, s, n, v, x, y
  <2>3. DOMAIN b = DOMAIN a /\ \A g \in StateFields : b[g] = a[g]
    BY <1>1, <2>1 DEF StateFields, Shape
  <2>4. s = [b EXCEPT !.loc_posted = y]
    BY <2>2 DEF x, y
  <2> HIDE DEF b
  <2>5. DOMAIN s = DOMAIN b /\ \A g \in StateFields : s[g] = b[g]
    BY <1>1, <2>1, <2>3, <2>4 DEF StateFields, Shape
  <2>6. DOMAIN s = DOMAIN a /\ \A g \in StateFields : s[g] = a[g]
    BY <2>3, <2>5
  <2> QED
    BY <2>1, <2>6 DEF StateFields
<1> HIDE DEF s
<1>4. u \in Seq(ClientT) /\ DOMAIN u = 1 .. n
      /\ \A i \in 1 .. n : u[i].client = "replant" /\ u[i].grp = v[i] /\ v[i] \in Procs
  <2>1. \A i \in 1 .. n : v[i] \in Procs
    BY <1>2, ElementOfSeq
  <2>2. u = [i \in 1 .. n |-> [client |-> "replant", grp |-> v[i]]]
    BY <1>2, <1>3
  <2> HIDE DEF u, n, v
  <2>3. \A i \in 1 .. n : [client |-> "replant", grp |-> v[i]] \in ClientT
    BY <2>1 DEF ClientT
  <2>4. DOMAIN u = 1 .. n /\ \A i \in 1 .. n : u[i] = [client |-> "replant", grp |-> v[i]]
    BY <2>2
  <2>5. u \in [1 .. n -> ClientT]
    BY <2>2, <2>3
  <2>6. u \in Seq(ClientT)
    BY <1>2, <2>5, SeqDef
  <2> QED
    BY <2>1, <2>4, <2>6
<1> HIDE DEF u
<1>5. q.run = u /\ DOMAIN q = DOMAIN r /\ \A g \in StateFields \ {"run"} : q[g] = s[g]
  BY <1>1, <1>3 DEF Shape, StateFields
<1> HIDE DEF q
<1>6. /\ q.gen_active = r.gen_posted /\ q.evals_active = v /\ q.evals_posted = <<>>
      /\ q.enter_cnt = n /\ q.waiting = r.waiting /\ q.missed = r.missed /\ q.queue = r.queue
      /\ q.gen_posted = r.gen_posted /\ q.gen_done = r.gen_done /\ q.list = r.list
      /\ q.cache_lock = r.cache_lock /\ q.lock = r.lock /\ q.pc = r.pc /\ q.active = r.active
      /\ q.ctx = r.ctx /\ q.pids = r.pids /\ q.bi = r.bi /\ q.sync = r.sync
  BY <1>3, <1>5 DEF StateFields
<1>7. Shape(q)
  BY <1>1, <1>2, <1>4, <1>5, <1>6 DEF Shape, ThreadShape, StateFields
<1>8. Clients(q, Mem) = Clients(r, Mem) /\ Clients(q, Replants) = n /\ Clients(r, Replants) = 0
  <2>1. Places(u, Mem) = {} /\ Places(u, Replants) = 1 .. n
    <3>1. \A i \in 1 .. n : u[i] \in ClientT
      BY <1>2, <1>4, LenProperties, ElementOfSeq
    <3> QED
      BY <1>4, <3>1, ClientKinds DEF Places
  <2>2. Cardinality({}) = 0 /\ Cardinality(1 .. n) = n
    <3>1. n \in Nat
      BY <1>2
    <3> HIDE DEF n
    <3> QED
      BY <3>1, CountUpTo, FS_EmptySet
  <2>3. Cardinality(Places(<<>>, Mem)) = 0 /\ Cardinality(Places(<<>>, Replants)) = 0
    BY PlacesEmpty
  <2>4. Clients(r, Replants) = 0 /\ Clients(r, Mem) \in Nat
    <3>1. r.enter_cnt = Clients(r, Replants) + 0 /\ Clients(r, Replants) \in Nat
      BY <1>1, ClientsNat DEF GenOK
    <3> QED
      BY <1>1, <3>1, ClientsNat
  <2>5. \A T : Clients(q, T) = Clients(r, T) - Cardinality(Places(r.run, T))
                               + Cardinality(Places(q.run, T))
    BY <1>1, <1>6, <1>7, ClientsRun
  <2>6. Clients(q, Mem) = Clients(r, Mem) - 0 + 0 /\ Clients(q, Replants) = 0 - 0 + n
    BY <1>5, <2>1, <2>2, <2>3, <2>4, <2>5
  <2> QED
    BY <1>2, <2>4, <2>6
<1>9. LockOK(q, 0)
  <2>1. Held(q) = Held(r) - One(r.cache_lock) + One(r.cache_lock)
                  - Clients(r, Mem) + Clients(r, Mem)
    BY <1>1, <1>6, <1>7, <1>8, HeldBut
  <2>2. Held(r) \in Nat /\ One(r.cache_lock) \in Nat /\ Clients(r, Mem) \in Nat
    BY <1>1, LockHeld, ClientsNat DEF One
  <2>3. Held(q) = Held(r)
    BY <2>1, <2>2
  <2> QED
    BY <1>1, <1>6, <1>7, <2>3, LockHeld
<1>10. GenOK(q, 0)
  <2>1. QueueOK(q.queue, r.gen_posted, r.gen_posted)
    BY <1>6 DEF QueueOK
  <2>2. r.gen_done < r.gen_posted /\ r.gen_posted \in Nat /\ r.gen_done \in Nat
    BY <1>1 DEF GenBase, Shape
  <2>3. GenBase(q)
    BY <1>6, <2>1, <2>2 DEF GenBase
  <2> QED
    BY <1>2, <1>6, <1>8, <2>2, <2>3 DEF GenOK
<1>11. Theirs(q)
  <2>1. \A c \in Range(r.waiting) \cup Range(r.missed) : c \notin Replants /\ c \in ClientT
    <3>1. Range(r.waiting) \subseteq ClientT /\ Range(r.missed) \subseteq ClientT
      BY <1>1, LenProperties, ElementOfSeq DEF Shape, Range
    <3> QED
      BY <1>1, <1>8, <3>1, NoClients
  <2>2. \A c \in Range(u) : c.grp \in Range(v)
    BY <1>2, <1>4 DEF Range
  <2> QED
    BY <1>5, <1>6, <2>1, <2>2, ClientKinds DEF Theirs
<1>12. Holding(q, 0, 0, {})
  BY <1>1, <1>6, <1>7, <1>9, <1>10, <1>11, DeskHolds
<1>13. Good(q)
  BY <1>1, <1>6, <1>12 DEF Good, RestOK
<1> QED
  BY <1>13 DEF q, u, s

\* ReplantEvent keeps the invariant: only the event of the last request starts a
\* round.
LEMMA ReplantKeeps == ASSUME RInv, ReplantEvent PROVE RInv'
<1> DEFINE v == Tail(rc.queue)
           r == PopEvent
           e == Head(rc.queue)
           s == StartReplant(r)
           q == [s EXCEPT !.run = [i \in DOMAIN s.evals_active |->
                      [client |-> "replant", grp |-> s.evals_active[i]]]]
<1>1. Good(rc) /\ Shape(rc) /\ GenBase(rc)
  BY DEF RInv, Good, Holding, GenOK
<1>2. /\ rc.pc = "idle" /\ rc.run = <<>> /\ rc.queue # <<>> /\ e.ev = "replant"
      /\ rc' = IF ~StartsReplant(r, e.gen) THEN r ELSE q
  BY Zenon DEF ReplantEvent, HeadIs, Idle, Become
<1>3. rc.queue \in Seq(Event) /\ QueueKept(rc.queue, v) /\ v \in Seq(Event)
  BY <1>1, <1>2, QueueTail DEF Shape, QueueKept
<1>4. r.queue = v /\ DOMAIN r = DOMAIN rc /\ \A g \in StateFields \ {"queue"} : r[g] = rc[g]
  <2> HIDE DEF v
  <2> QED
    BY <1>1 DEF Shape, StateFields, PopEvent, v
<1> HIDE DEF r
<1>5. Shape(r)
  BY <1>1, <1>3, <1>4 DEF Shape, ThreadShape, StateFields
<1>6. Quiet(rc, r)
  BY <1>3, <1>4, <1>5 DEF Quiet, Around, Same, SameClients, SameCtl, SameRound, AllAlike, Alike,
                          Kept, StateFields
<1>7. Good(r)
  BY <1>1, <1>6, QuietGood
<1>8. CASE StartsReplant(r, e.gen)
  <2>1. e.gen = r.gen_posted /\ r.enter_cnt = 0
    BY <1>8 DEF StartsReplant
  <2>2. /\ r.gen_active = rc.gen_active /\ r.gen_posted = rc.gen_posted /\ r.pc = "idle"
        /\ r.run = <<>>
    BY <1>2, <1>4 DEF StateFields
  <2>3. /\ Len(rc.queue) \in Nat \ {0} /\ DOMAIN rc.queue = 1 .. Len(rc.queue)
        /\ DOMAIN v = 1 .. Len(rc.queue) - 1 /\ \A i \in DOMAIN v : v[i] = rc.queue[i + 1]
        /\ e = rc.queue[1]
    BY <1>2, <1>3, TailPlaces
  <2>4. r.gen_active < r.gen_posted
    BY <1>1, <1>2, <2>1, <2>2, <2>3 DEF GenBase, QueueOK
  <2>5. ASSUME NEW i \in DOMAIN v, v[i].ev = "replant" PROVE FALSE
    <3>1. i + 1 \in DOMAIN rc.queue /\ 1 \in DOMAIN rc.queue /\ 1 < i + 1 /\ v[i] = rc.queue[i + 1]
      BY <2>3
    <3>2. e.gen < v[i].gen /\ v[i].gen <= rc.gen_posted
      BY <1>1, <1>2, <2>3, <2>5, <3>1 DEF GenBase, QueueOK
    <3>3. v[i].gen \in Nat /\ rc.gen_posted \in Nat
      <4>1. rc.queue[i + 1] \in Event
        BY <1>3, <2>3, <3>1, ElementOfSeq
      <4> QED
        BY <1>1, <3>1, <4>1 DEF Shape, Event
    <3> QED
      BY <2>1, <2>2, <3>2, <3>3
  <2>6. Good(q)
    BY <1>4, <1>7, <2>1, <2>2, <2>4, <2>5, RoundStarts
  <2> HIDE DEF q
  <2> QED
    BY <1>2, <1>8, <2>6 DEF RInv
<1> QED
  BY <1>2, <1>7, <1>8 DEF RInv

\* A client is taken from those about to be called.
LEMMA ClientTaken ==
  ASSUME NEW r, Good(r), r.run # <<>>
  PROVE  LET q == [r EXCEPT !.run = Tail(@)]
             c == Head(r.run)
         IN  /\ c \in ClientT /\ (c.client = "replant" => c.grp \in Range(r.evals_active))
             /\ \A g \in StateFields \ {"run"} : q[g] = r[g]
             /\ Holding(q, One(c.client = "memory"), One(c.client = "replant"), {})
<1> DEFINE u == r.run
           v == Tail(u)
           c == Head(u)
           q == [r EXCEPT !.run = v]
           k == One(c \in Mem)
           n == One(c \in Replants)
<1>1. Shape(r) /\ Holding(r, 0, 0, {}) /\ RestOK(r) /\ Theirs(r) /\ u \in Seq(ClientT)
  BY DEF Good, Holding, Shape
<1>2. v \in Seq(ClientT) /\ c \in ClientT
      /\ \A T : Cardinality(Places(v, T)) = Cardinality(Places(u, T)) - One(c \in T)
  <2>1. v \in Seq(ClientT) /\ c \in ClientT
    BY <1>1, TailPlaces
  <2>2. \A T : Cardinality(Places(v, T)) = Cardinality(Places(u, T)) - One(c \in T)
    BY <1>1, PlacesTail DEF One
  <2> QED
    BY <2>1, <2>2
<1>3. c \in Range(u) /\ Range(v) \subseteq Range(u)
  <2>1. /\ Len(u) \in Nat \ {0} /\ DOMAIN u = 1 .. Len(u) /\ DOMAIN v = 1 .. Len(u) - 1
        /\ \A i \in DOMAIN v : v[i] = u[i + 1] /\ c = u[1]
    BY <1>1, TailPlaces
  <2>2. c = u[1]
    BY <1>1, TailPlaces
  <2> HIDE DEF u, v, c
  <2>3. 1 \in DOMAIN u /\ \A i \in DOMAIN v : i + 1 \in DOMAIN u /\ v[i] = u[i + 1]
    BY <2>1
  <2> QED
    BY <2>2, <2>3 DEF Range
<1>4. c.client = "replant" => c.grp \in Range(r.evals_active)
  BY <1>1, <1>3 DEF Theirs
<1> HIDE DEF v, c
<1>5. q.run = v /\ DOMAIN q = DOMAIN r /\ \A g \in StateFields \ {"run"} : q[g] = r[g]
  BY <1>1 DEF Shape, StateFields
<1> HIDE DEF q
<1>6. Shape(q) /\ q.waiting = r.waiting /\ q.missed = r.missed
  BY <1>1, <1>2, <1>5 DEF Shape, ThreadShape, StateFields
<1>7. ASSUME NEW T PROVE Clients(q, T) + One(c \in T) = Clients(r, T) + 0
  <2> DEFINE a == Cardinality(Places(u, T))
             b == Cardinality(Places(v, T))
             d == Clients(r, T)
             e == Clients(q, T)
             o == One(c \in T)
  <2>1. a \in Nat /\ d \in Nat /\ o \in Nat
    BY <1>1, ClientsNat DEF One
  <2>2. b = a - o
    BY <1>2
  <2>3. e = d - a + b
    BY <1>1, <1>5, <1>6, ClientsRun
  <2> HIDE DEF a, b, d, e, o
  <2>4. e + o = d + 0
    BY <2>1, <2>2, <2>3
  <2> QED
    BY <2>4 DEF d, e, o
<1>8. Known(q) \subseteq Known(r)
  BY <1>3, <1>5, <1>6 DEF Known
<1>9. k \in Nat /\ n \in Nat
  BY DEF One
<1>10. Holding(q, k, n, {})
  BY <1>1, <1>5, <1>6, <1>7, <1>8, <1>9, ClientsMove
<1>11. k = One(c.client = "memory") /\ n = One(c.client = "replant")
  BY <1>2, ClientKinds DEF One
<1>12. Holding(q, One(c.client = "memory"), One(c.client = "replant"), {})
  BY <1>10, <1>11
<1> QED
  BY <1>2, <1>4, <1>5, <1>12 DEF q, v, c

\* A client is put down where it waits.
LEMMA ClientParked ==
  ASSUME NEW r, NEW c \in ClientT, NEW f \in {"waiting", "missed"},
         c.client = "replant" => c.grp \in Range(r.evals_active),
         Holding(r, One(c.client = "memory"), One(c.client = "replant"), {}), r.pc = "idle", ~r.active
  PROVE  Good([r EXCEPT ![f] = Append(@, c)])
<1> DEFINE u == r[f]
           v == Append(u, c)
           q == [r EXCEPT ![f] = v]
           k == One(c \in Mem)
           n == One(c \in Replants)
<1>1. Shape(r) /\ u \in Seq(ClientT)
  BY DEF Holding, Shape
<1>2. v \in Seq(ClientT) /\ \A T : Cardinality(Places(v, T)) = Cardinality(Places(u, T)) + One(c \in T)
  BY <1>1, AppendProperties, PlacesAppend DEF One
<1>3. Range(v) \subseteq Range(u) \cup {c}
  <2>1. /\ Len(u) \in Nat /\ DOMAIN u = 1 .. Len(u) /\ DOMAIN v = 1 .. Len(u) + 1
        /\ \A i \in DOMAIN u : v[i] = u[i]
        /\ v[Len(u) + 1] = c
    BY <1>1, AppendPlaces
  <2> HIDE DEF u, v
  <2>2. \A i \in DOMAIN v : i \in DOMAIN u \/ i = Len(u) + 1
    BY <2>1
  <2> QED
    BY <2>1, <2>2 DEF Range
<1> HIDE DEF v
<1>4. q[f] = v /\ DOMAIN q = DOMAIN r /\ \A g \in StateFields \ {f} : q[g] = r[g]
  BY <1>1 DEF Shape, StateFields
<1> HIDE DEF q
<1>5. Shape(q) /\ q.pc = "idle" /\ q.active = r.active /\ q.run = r.run
  BY <1>1, <1>2, <1>4 DEF Shape, ThreadShape, StateFields
<1>6. ASSUME NEW T PROVE Clients(q, T) + 0 = Clients(r, T) + One(c \in T)
  <2> DEFINE a == Cardinality(Places(r.run, T))
             b == Cardinality(Places(r.waiting, T))
             d == Cardinality(Places(r.missed, T))
             e == Cardinality(Places(v, T))
             o == One(c \in T)
  <2>1. a \in Nat /\ b \in Nat /\ d \in Nat /\ o \in Nat
    BY <1>1, ClientsNat DEF One
  <2>2. Clients(r, T) = a + b + d
    BY DEF Clients
  <2>3. CASE f = "waiting"
    <3>1. e = b + o
      BY <1>2, <2>3
    <3>2. Clients(q, T) = a + e + d
      BY <1>4, <1>5, <2>3 DEF Clients, StateFields
    <3> HIDE DEF a, b, d, e, o
    <3>3. Clients(q, T) + 0 = Clients(r, T) + o
      BY <2>1, <2>2, <3>1, <3>2
    <3> QED
      BY <3>3 DEF o
  <2>4. CASE f = "missed"
    <3>1. e = d + o
      BY <1>2, <2>4
    <3>2. Clients(q, T) = a + b + e
      BY <1>4, <1>5, <2>4 DEF Clients, StateFields
    <3> HIDE DEF a, b, d, e, o
    <3>3. Clients(q, T) + 0 = Clients(r, T) + o
      BY <2>1, <2>2, <3>1, <3>2
    <3> QED
      BY <3>3 DEF o
  <2> QED
    BY <2>3, <2>4
<1>7. Known(q) \subseteq Known(r) \cup {x \in ClientT : x.client = "replant" => x.grp \in Range(r.evals_active)}
  BY <1>3, <1>4, <1>5 DEF Known, StateFields
<1>8. k \in Nat /\ n \in Nat /\ k = One(c.client = "memory") /\ n = One(c.client = "replant")
  BY ClientKinds DEF One
<1>9. Holding(q, 0, 0, {})
  <2>1. Clients(q, Mem) + 0 = Clients(r, Mem) + k /\ Clients(q, Replants) + 0 = Clients(r, Replants) + n
    BY <1>6
  <2>2. \A g \in StateFields \ {"run", "waiting", "missed"} : q[g] = r[g]
    BY <1>4
  <2>3. Holding(r, k, n, {})
    BY <1>8
  <2> HIDE DEF k, n
  <2> QED
    BY <1>5, <1>7, <1>8, <2>1, <2>2, <2>3, ClientsMove
<1>10. Good(q)
  BY <1>5, <1>9 DEF Good, RestOK
<1> QED
  BY <1>10 DEF q, v

\* A client finds threads that run: it posts a safe event and waits.
LEMMA ClientWaits ==
  ASSUME NEW r, NEW c \in ClientT, c.client = "replant" => c.grp \in Range(r.evals_active),
         Holding(r, One(c.client = "memory"), One(c.client = "replant"), {}), r.pc = "idle", ~r.active,
         \E i \in DOMAIN Needs(r, c) : ~IsAllStopped(r, Needs(r, c)[i])
  PROVE  Good(WaitAllStopped(r, c))
<1> DEFINE needs == Needs(r, c)
           running == {i \in DOMAIN needs : ~IsAllStopped(r, needs[i])}
           g == needs[Min(running)]
           i == [grp |-> g, done |-> "none"]
           s == post_safe_event(r, i)
<1>1. Shape(r) /\ c.grp \in Procs
  BY ClientKinds DEF Holding
<1>2. needs \in Seq(Procs)
  BY <1>1 DEF Needs, Shape
<1>3. running \subseteq DOMAIN needs /\ DOMAIN needs \subseteq Nat /\ running # {}
  BY <1>2, LenProperties
<1>4. Min(running) \in DOMAIN needs
  BY <1>3, MinNat
<1>5. g \in Procs
  <2> HIDE DEF running
  <2> QED
    BY <1>2, <1>4, LenProperties, ElementOfSeq
<1>6. WaitAllStopped(r, c) = [s EXCEPT !.waiting = Append(@, c)]
  BY DEF WaitAllStopped
<1> HIDE DEF g
<1>7. i \in Item /\ i.done = "none"
  BY <1>5 DEF Item
<1> HIDE DEF i
<1> DEFINE k == One(c.client = "memory")
           n == One(c.client = "replant")
<1>8. k \in Nat /\ n \in Nat
  BY DEF One
<1>9. Holding(s, k, n, {})
  <2> HIDE DEF k, n
  <2> QED
    BY <1>7, <1>8, PostedHolds DEF k, n
<1>10. s.pc = "idle" /\ ~s.active /\ s.evals_active = r.evals_active
  BY <1>1, <1>7, PostSafeEvent DEF SameCtl, SameRound
<1> HIDE DEF s
<1>11. Good([s EXCEPT !["waiting"] = Append(@, c)])
  BY <1>9, <1>10, ClientParked
<1> QED
  BY <1>6, <1>11

\* A client of the round that finds the threads of its group stopped.
LEMMA ClientEvaluates ==
  ASSUME NEW r, NEW c \in ClientT, c.client = "replant", c.grp \in Range(r.evals_active),
         Holding(r, 0, 1, {}), r.pc = "idle", ~r.active,
         \A i \in DOMAIN Needs(r, c) : IsAllStopped(r, Needs(r, c)[i]), NEW ok
  PROVE  LET q == Evaluated(r, c.grp, ok)
         IN  Holding(q, 0, 1, {}) /\ q.pc = "idle" /\ ~q.active /\ q.evals_active = r.evals_active
<1> DEFINE p == c.grp
           q == Evaluated(r, p, ok)
<1>1. Shape(r) /\ p \in Procs
  BY ClientKinds DEF Holding
<1>2. IsAllStopped(r, p)
  BY DEF Needs, Range
<1>3. r.gen_posted # r.gen_done
  <2>1. Clients(r, Replants) \in Nat /\ r.gen_posted \in Nat /\ r.gen_active \in Nat /\ r.gen_done \in Nat
    BY <1>1, ClientsNat DEF Shape
  <2>2. r.enter_cnt > 0
    BY <2>1 DEF Holding, GenOK
  <2> QED
    BY <2>1, <2>2 DEF Holding, GenOK, GenBase
<1>4. Holding(q, 0, 1, {}) /\ \A g \in StateFields \ {"bi"} : q[g] = r[g]
  <2> HIDE DEF p
  <2> QED
    BY <1>1, <1>2, <1>3, EvaluatedHolds
<1> HIDE DEF q
<1>5. q.pc = "idle" /\ ~q.active /\ q.evals_active = r.evals_active
  BY <1>4 DEF StateFields
<1> QED
  BY <1>4, <1>5 DEF q

\* ClientStep keeps the invariant.
LEMMA ClientStepKeeps == ASSUME RInv, ClientStep PROVE RInv'
<1> DEFINE c == Head(rc.run)
           r == [rc EXCEPT !.run = Tail(@)]
           p == c.grp
           busy == \E i \in DOMAIN Needs(r, c) : ~IsAllStopped(r, Needs(r, c)[i])
<1>1. Good(rc) /\ RestOK(rc)
  BY DEF RInv, Good
<1>2. rc.pc = "idle" /\ rc.run # <<>> /\ Client = c
  BY Zenon DEF ClientStep, Client
<1>3. \/ busy /\ rc' = WaitAllStopped(r, c)
      \/ ~busy /\ c.client = "replant" /\ \E ok : rc' = Strict(ReplantDone, Evaluated(r, p, ok))
      \/ ~busy /\ c.client # "replant" /\ rc' = run_ctrl_unlock(r)
      \/ ~busy /\ c.client = "replant" /\ rc' = [Evaluated(r, p, {}) EXCEPT !.missed = Append(@, c)]
      \/ ~busy /\ c.client # "replant" /\ rc' = [r EXCEPT !.missed = Append(@, c)]
  BY DEF ClientStep, Client, Become
<1>4. /\ c \in ClientT /\ (c.client = "replant" => c.grp \in Range(rc.evals_active))
      /\ \A g \in StateFields \ {"run"} : r[g] = rc[g]
      /\ Holding(r, One(c.client = "memory"), One(c.client = "replant"), {})
  BY <1>1, <1>2, ClientTaken
<1> HIDE DEF r, c
<1>5. /\ r.pc = "idle" /\ ~r.active
      /\ (c.client = "replant" => c.grp \in Range(r.evals_active))
      /\ (c.client # "replant" => c.client = "memory")
  BY <1>1, <1>2, <1>4, ClientKinds DEF StateFields, RestOK
<1>6. CASE busy /\ rc' = WaitAllStopped(r, c)
  BY <1>4, <1>5, <1>6, ClientWaits DEF RInv
<1>7. ASSUME ~busy, c.client = "replant", NEW ok, rc' = Strict(ReplantDone, Evaluated(r, p, ok))
      PROVE  RInv'
  <2> DEFINE e == Evaluated(r, p, ok)
  <2>1. Holding(r, 0, 1, {})
    BY <1>4, <1>7 DEF One
  <2>2. Holding(e, 0, 1, {}) /\ e.pc = "idle" /\ ~e.active
    BY <1>4, <1>5, <1>7, <2>1, ClientEvaluates
  <2>3. rc' = ReplantDone(e)
    <3> HIDE DEF e
    <3> QED
      BY Zenon, <1>7 DEF Strict, e
  <2> HIDE DEF e
  <2> QED
    BY <2>2, <2>3, RoundEnds DEF RInv
<1>8. CASE c.client # "replant" /\ rc' = run_ctrl_unlock(r)
  <2>1. Holding(r, 0 + 1, 0, {})
    BY <1>4, <1>5, <1>8 DEF One
  <2>2. Holding(run_ctrl_unlock(r), 0, 0, {}) /\ SameCtl(r, run_ctrl_unlock(r))
    BY <2>1, UnlockHolds
  <2> QED
    BY <1>5, <1>8, <2>2 DEF RInv, Good, RestOK, SameCtl
<1>9. CASE ~busy /\ c.client = "replant" /\ rc' = [Evaluated(r, p, {}) EXCEPT !.missed = Append(@, c)]
  <2> DEFINE e == Evaluated(r, p, {})
  <2>1. Holding(r, 0, 1, {})
    BY <1>4, <1>9 DEF One
  <2>2. Holding(e, 0, 1, {}) /\ e.pc = "idle" /\ ~e.active /\ e.evals_active = r.evals_active
    BY <1>4, <1>5, <1>9, <2>1, ClientEvaluates
  <2> HIDE DEF e
  <2>3. Holding(e, One(c.client = "memory"), One(c.client = "replant"), {})
    BY <1>9, <2>2 DEF One
  <2>4. Good([e EXCEPT !["missed"] = Append(@, c)])
    BY <1>4, <1>5, <2>2, <2>3, ClientParked
  <2> QED
    BY <1>9, <2>4 DEF RInv, e
<1>10. CASE rc' = [r EXCEPT !.missed = Append(@, c)]
  <2>1. Good([r EXCEPT !["missed"] = Append(@, c)])
    BY <1>4, <1>5, ClientParked
  <2> QED
    BY <1>10, <2>1 DEF RInv
<1> QED
  BY <1>3, <1>6, <1>7, <1>8, <1>9, <1>10

-----------------------------------------------------------------------------
(* run_safe_events: the loop.                                              *)

\* Nobody is waited for, and the group is marked: its threads stand still.
LEMMA LoopStopped ==
  ASSUME NEW r, NEW l, NEW m, NEW X, Holding(r, l, m, X), r.pc = "loop", r.pids = 0, NEW p \in Procs,
         \E t \in ThreadsOf(p) : r.ctx[t].stop_group_mark
  PROVE  IsAllStopped(r, p)
<1>1. Waits(r) = {}
  <2>1. IsFiniteSet(Waits(r)) /\ Cardinality(Waits(r)) = 0
    BY ThreadsFinite DEF Holding, PendingOK, Waits
  <2> QED
    BY <2>1, FS_EmptySet
<1>2. PICK t \in ThreadsOf(p) : r.ctx[t].stop_group_mark
  OBVIOUS
<1>3. \A u \in ThreadsOf(p) : r.ctx[u].linked => r.ctx[u].stop_group_mark
  BY <1>2 DEF Holding, LoopOK, ThreadsOf
<1>4. \A u \in ThreadsOf(p) : ~Moves(r.ctx[u])
  BY <1>1 DEF Holding, LoopOK, ThreadsOf
<1> QED
  BY <1>3, <1>4 DEF IsAllStopped, Moves

\* No thread of a group that stands still may run into the breakpoint, or has.
LEMMA NobodyNear ==
  ASSUME NEW r, BreakOK(r), NEW p \in Procs, IsAllStopped(r, p), NEW t \in ThreadsOf(p)
  PROVE  ~Loose(r.ctx[t]) /\ ~Trapped(r.ctx[t])
<1>1. t \in Threads
  BY ThreadsFinite
<1> QED
  BY <1>1, LooseMoves DEF IsAllStopped, BreakOK, TrapOK, Trapped

\* A safe event is taken from the list.
LEMMA EventTaken ==
  ASSUME NEW r, Good(r), r.list # <<>>
  PROVE  LET i == Head(r.list)
             X == {t \in Threads : i \in Goes(t)}
             q == [r EXCEPT !.list = Tail(@), !.active = TRUE]
         IN  /\ i \in Item /\ Holding(q, 0 + 1, 0, X) /\ q.active
             /\ \A g \in StateFields \ {"list", "active"} : q[g] = r[g]
<1> DEFINE u == r.list
           v == Tail(u)
           i == Head(u)
           X == {t \in Threads : i \in Goes(t)}
           a == [r EXCEPT !.list = v]
           q == [a EXCEPT !.active = TRUE]
<1>1. Shape(r) /\ Holding(r, 0, 0, {}) /\ u \in Seq(Item)
  BY DEF Good, Holding, Shape
<1>2. v \in Seq(Item) /\ i \in Item /\ Len(v) = Len(u) - 1 /\ Len(u) \in Nat
  BY <1>1, TailPlaces, HeadTailProperties, LenProperties
<1>3. \A t \in Threads : Cardinality(Places(v, Goes(t))) = Cardinality(Places(u, Goes(t))) - One(t \in X)
  BY <1>1, PlacesTail DEF One
<1> HIDE DEF v, i
<1>4. q.list = v /\ q.active /\ DOMAIN q = DOMAIN r
      /\ \A g \in StateFields \ {"list", "active"} : q[g] = r[g]
  BY <1>1 DEF Shape, StateFields
<1> HIDE DEF q
<1>5. Shape(q)
  BY <1>1, <1>2, <1>4 DEF Shape, ThreadShape, StateFields
<1>6. /\ q.ctx = r.ctx /\ q.pids = r.pids /\ q.pc = r.pc /\ q.sync = r.sync /\ q.bi = r.bi
      /\ q.lock = r.lock /\ q.cache_lock = r.cache_lock /\ q.gen_posted = r.gen_posted
      /\ q.gen_done = r.gen_done /\ q.queue = r.queue /\ q.evals_posted = r.evals_posted
      /\ SameClients(r, q) /\ SameRound(r, q)
  BY <1>4 DEF StateFields, SameClients, SameRound
<1>7. PendingOK(q) /\ LoopOK(q) /\ SyncOK(q)
  BY <1>1, <1>6, ThreadsFrame DEF Holding
<1>8. GenOK(q, 0) /\ Theirs(q) /\ Clients(q, Mem) = Clients(r, Mem)
  BY <1>1, <1>6, RoundFrame DEF Holding
<1>9. BreakOK(q)
  BY <1>1, <1>6, InstructionSame DEF Holding, BreakOK
<1>10. SteppingOK(q, X)
  <2>1. \A p \in Procs : q.bi[p].stepping = Cardinality(Over(q, p))
    BY <1>1, <1>6 DEF Holding, SteppingOK, Over
  <2>2. ASSUME NEW t \in Threads
        PROVE  Cardinality(Places(q.list, Goes(t))) + One(t \in X) = One(q.ctx[t].stepping_over)
    <3> DEFINE x == Cardinality(Places(u, Goes(t)))
               y == Cardinality(Places(v, Goes(t)))
               o == One(t \in X)
               s == One(r.ctx[t].stepping_over)
    <3>1. x \in Nat
      BY <1>1, PlacesFinite
    <3>2. o \in Nat /\ s \in Nat /\ x + One(t \in {}) = s /\ y = x - o
      BY <1>1, <1>3 DEF Holding, SteppingOK, One
    <3>3. One(t \in {}) = 0
      BY DEF One
    <3> HIDE DEF x, y, o, s
    <3>4. y + o = s
      BY <3>1, <3>2, <3>3
    <3> QED
      BY <1>4, <1>6, <3>4 DEF y, o, s
  <2> QED
    BY <2>1, <2>2 DEF SteppingOK
<1>11. LockOK(q, 0 + 1)
  <2> DEFINE a1 == One(r.cache_lock)
             b1 == One(r.gen_posted # r.gen_done)
             c1 == Clients(r, Mem)
             k == Len(u)
  <2>1. a1 \in Nat /\ b1 \in Nat /\ c1 \in Nat /\ k \in Nat
    BY <1>1, <1>2, ClientsNat DEF One
  <2>2. r.lock = k + a1 + b1 + c1 + 0
    BY <1>1 DEF Holding, LockOK
  <2>3. Held(q) = Len(v) + a1 + b1 + c1
    BY <1>4, <1>6, <1>8 DEF Held
  <2>4. Len(v) = k - 1
    BY <1>2
  <2> HIDE DEF a1, b1, c1, k
  <2>5. r.lock = Held(q) + 1
    BY <2>1, <2>2, <2>3, <2>4
  <2> QED
    BY <1>5, <1>6, <2>5, LockHeld
<1>12. Holding(q, 0 + 1, 0, X)
  BY <1>5, <1>7, <1>8, <1>9, <1>10, <1>11 DEF Holding
<1> QED
  BY <1>2, <1>4, <1>12 DEF q, v, i

\* Somebody steps over the instruction of a thread whose safe event is at hand.
LEMMA SteppingAtHand ==
  ASSUME NEW r, Shape(r), NEW t \in Threads, NEW X, t \in X, SteppingOK(r, X)
  PROVE  r.ctx[t].stepping_over /\ r.bi[ProcOf[t]].stepping > 0 /\ r.bi[ProcOf[t]].stepping \in Nat
<1> DEFINE p == ProcOf[t]
           n == Cardinality(Places(r.list, Goes(t)))
<1>1. n \in Nat
  <2>1. r.list \in Seq(Item)
    BY DEF Shape
  <2> QED
    BY <2>1, PlacesFinite
<1>2. n + 1 = One(r.ctx[t].stepping_over)
  BY DEF SteppingOK, One
<1> HIDE DEF n
<1>3. r.ctx[t].stepping_over
  BY <1>1, <1>2 DEF One
<1>4. p \in Procs /\ t \in Over(r, p) /\ Over(r, p) \subseteq Threads
  BY <1>3, ThreadsFinite DEF Over
<1>5. IsFiniteSet(Over(r, p)) /\ Cardinality(Over(r, p)) \in Nat
  BY <1>4, ThreadsFinite
<1>6. Cardinality(Over(r, p)) # 0
  BY <1>4, <1>5, FS_EmptySet
<1>7. r.bi[p].stepping = Cardinality(Over(r, p))
  BY <1>4 DEF SteppingOK
<1> QED
  BY <1>3, <1>5, <1>6, <1>7

\* While the threads of its process stand still and one of them is on its way over
\* the instruction, the instruction may be taken out.
LEMMA OutHolds ==
  ASSUME NEW r, NEW l, NEW m, Holding(r, l, m, {}), NEW p \in Procs, IsAllStopped(r, p),
         r.bi[p].stepping > 0, NEW v \in BOOLEAN, v => r.bi[p].planted
  PROVE  LET s == [r EXCEPT !.bi[p].planted = v]
         IN  /\ Holding(s, l, m, {}) /\ Shape(s) /\ DOMAIN s = DOMAIN r
             /\ \A g \in StateFields \ {"bi"} : s[g] = r[g]
<1> DEFINE b == [r.bi[p] EXCEPT !.planted = v]
           s == [r EXCEPT !.bi[p] = b]
<1>1. Shape(r) /\ r.bi[p] \in InstructionT
  BY InstructionFields DEF Holding
<1>2. /\ b \in InstructionT /\ (b.planted => r.bi[p].planted)
      /\ b.exists = r.bi[p].exists /\ b.valid = r.bi[p].valid /\ b.ref = r.bi[p].ref
      /\ b.stepping = r.bi[p].stepping
  BY <1>1 DEF InstructionT
<1>3. [r EXCEPT !.bi[p].planted = v] = s
  OBVIOUS
<1> HIDE DEF b
<1>4. /\ Shape(s) /\ DOMAIN s = DOMAIN r /\ s.bi[p] = b
      /\ \A g \in StateFields \ {"bi"} : s[g] = r[g]
      /\ \A x \in Procs \ {p} : s.bi[x] = r.bi[x]
  BY <1>1, <1>2, NewInstructionRecord
<1> HIDE DEF s
<1>5. Instructed(r, s)
  <2>1. /\ s.ctx = r.ctx /\ s.gen_posted = r.gen_posted /\ s.gen_done = r.gen_done
    BY <1>4 DEF StateFields
  <2>2. InstructionOK(s, p)
    <3>1. InstructionOK(r, p)
      BY <1>1 DEF Holding, BreakOK
    <3>2. \A x \in ThreadsOf(p) : ~Loose(s.ctx[x]) /\ ~Trapped(s.ctx[x])
      BY <1>1, <2>1, NobodyNear DEF Holding
    <3> QED
      BY <1>2, <1>4, <2>1, <3>1, <3>2 DEF InstructionOK
  <2>3. \A x \in Procs \ {p} : InstructionOK(s, x)
    BY <1>4, <2>1, InstructionSame DEF Holding, BreakOK
  <2>4. \A x \in Procs : s.bi[x].stepping = r.bi[x].stepping
    BY <1>2, <1>4
  <2> QED
    BY <1>4, <2>2, <2>3, <2>4 DEF Instructed
<1>6. PendingOK(s) /\ LoopOK(s) /\ SyncOK(s) /\ LockOK(s, l) /\ GenOK(s, m) /\ Theirs(s)
      /\ SteppingOK(s, {}) /\ BreakOK(s)
  <2>1. /\ s.ctx = r.ctx /\ s.gen_posted = r.gen_posted /\ s.gen_done = r.gen_done
        /\ s.pids = r.pids /\ s.pc = r.pc /\ s.sync = r.sync /\ s.list = r.list
        /\ s.cache_lock = r.cache_lock /\ s.lock = r.lock /\ SameClients(r, s) /\ SameRound(r, s)
        /\ s.queue = r.queue /\ s.evals_posted = r.evals_posted
    BY <1>4 DEF StateFields, SameClients, SameRound
  <2>2. PendingOK(s) /\ LoopOK(s) /\ SyncOK(s)
    BY <2>1, ThreadsFrame DEF Holding
  <2>3. GenOK(s, m) /\ Theirs(s) /\ LockOK(s, l)
    BY <2>1, RoundFrame, LockFrame DEF Holding
  <2>4. SteppingOK(s, {})
    BY <1>5, <2>1 DEF Instructed, Holding, SteppingOK, Over
  <2>5. BreakOK(s)
    BY <1>5, <2>1 DEF Instructed, BreakOK, Holding
  <2> QED
    BY <2>2, <2>3, <2>4, <2>5
<1>7. Holding(s, l, m, {})
  BY <1>4, <1>6 DEF Holding
<1> QED
  BY <1>3, <1>4, <1>7

\* The instruction is taken out to let one thread step, while the others of its
\* process stand still.
LEMMA TakenOutHolds ==
  ASSUME NEW r, NEW l, NEW m, Holding(r, l, m, {}), NEW t \in Threads, IsAllStopped(r, ProcOf[t]),
         r.bi[ProcOf[t]].stepping > 0
  PROVE  LET q == [r EXCEPT !.bi[ProcOf[t]].planted = FALSE, !.ctx[t].safe_single_step = TRUE]
         IN  /\ Holding(q, l, m, {}) /\ SameCtl(r, q) /\ SameClients(r, q) /\ Shape(q)
             /\ q.ctx[t].safe_single_step /\ (q.ctx[t].exited <=> r.ctx[t].exited)
<1> DEFINE p == ProcOf[t]
           s == [r EXCEPT !.bi[p].planted = FALSE]
           c == s.ctx[t]
           d == [c EXCEPT !.safe_single_step = TRUE]
           q == [s EXCEPT !.ctx[t] = d]
<1>1. p \in Procs
  BY ThreadsFinite
<1>3. [r EXCEPT !.bi[ProcOf[t]].planted = FALSE, !.ctx[t].safe_single_step = TRUE] = q
  OBVIOUS
<1>4. /\ Holding(s, l, m, {}) /\ Shape(s) /\ DOMAIN s = DOMAIN r
      /\ \A g \in StateFields \ {"bi"} : s[g] = r[g]
  BY <1>1, OutHolds
<1> HIDE DEF s
<1>6. PendingOK(s) /\ LoopOK(s) /\ SyncOK(s) /\ LockOK(s, l) /\ GenOK(s, m) /\ Theirs(s)
      /\ SteppingOK(s, {}) /\ BreakOK(s)
  BY <1>4 DEF Holding
<1>7. /\ ThreadFields \subseteq DOMAIN d /\ d.safe_single_step
      /\ \A f \in ThreadFields \ {"safe_single_step"} : d[f] = c[f]
  BY <1>4 DEF Shape, ThreadShape, ThreadFields
<1> HIDE DEF d
<1>8. /\ Around(s, q) /\ q.pids = s.pids /\ q.ctx[t] = d
      /\ \A x \in Threads \ {t} : q.ctx[x] = s.ctx[x]
  BY <1>4, <1>7, NewThreadRecord
<1> HIDE DEF q
<1>9. Shape(q) /\ SameCtl(s, q) /\ SameClients(s, q) /\ q.bi = s.bi /\ q.list = s.list
      /\ q.gen_posted = s.gen_posted /\ q.gen_done = s.gen_done
  BY <1>8 DEF Around, Same, SameRound
<1>10. PendingOK(q) /\ LoopOK(q) /\ SyncOK(q)
  <2>1. \A x \in Threads : \A f \in ThreadFields \ {"k", "safe_single_step", "stepping_over"} :
          q.ctx[x][f] = s.ctx[x][f]
    BY <1>7, <1>8
  <2> QED
    BY <1>4, <1>6, <1>8, <1>9, <2>1, WaitsSame DEF SameCtl
<1>11. LockOK(q, l) /\ GenOK(q, m) /\ Theirs(q)
  <2>1. q.queue \in Seq(Event) /\ GenBase(q)
    BY <1>4, <1>6, <1>8, AroundAsks DEF GenOK, Asks, Shape
  <2>2. /\ SameClients(s, q) /\ SameRound(s, q) /\ q.cache_lock = s.cache_lock /\ q.lock = s.lock
        /\ q.enter_cnt = s.enter_cnt /\ q.gen_active = s.gen_active
        /\ q.evals_active = s.evals_active
    BY <1>8 DEF Around, Same, SameRound
  <2>3. Clients(q, Replants) = Clients(s, Replants)
    BY <2>2 DEF Clients, SameClients
  <2>4. LockOK(q, l)
    BY <1>6, <1>9, <2>2, LockFrame
  <2>5. Theirs(q)
    BY <1>6, <2>2 DEF Theirs, SameClients
  <2> QED
    BY <1>6, <1>9, <2>1, <2>2, <2>3, <2>4, <2>5 DEF GenOK
<1>12. Tamer(c, d) /\ (d.stepping_over <=> c.stepping_over) /\ (d.exited <=> c.exited)
  BY <1>7 DEF Tamer, Loose, Trapped, TrapOK, ThreadFields
<1>13. \A x \in Threads : Tamer(s.ctx[x], q.ctx[x]) /\ (q.ctx[x].stepping_over <=> s.ctx[x].stepping_over)
  BY <1>8, <1>12 DEF Tamer
<1>14. BreakOK(q) /\ SteppingOK(q, {})
  BY <1>6, <1>9, <1>13, BreakKept, SteppingKept
<1>15. Holding(q, l, m, {})
  BY <1>9, <1>10, <1>11, <1>14 DEF Holding
<1>16. SameCtl(r, q) /\ SameClients(r, q) /\ s.ctx = r.ctx
  BY <1>4, <1>9 DEF StateFields, SameCtl, SameClients
<1> QED
  BY <1>3, <1>7, <1>8, <1>9, <1>12, <1>15, <1>16

\* The instruction cannot be taken out, or the thread cannot make its step.
LEMMA SkipErrorHolds ==
  ASSUME NEW r, Holding(r, 1, 0, {}), NEW t \in Threads, IsAllStopped(r, ProcOf[t]),
         r.bi[ProcOf[t]].stepping > 0, NEW fails
  PROVE  LET q == SkipError(r, t, fails)
         IN  Holding(q, 1, 0, {}) /\ SameCtl(r, q) /\ SameClients(r, q)
<1> DEFINE p == ProcOf[t]
           v == r.bi[p].planted /\ fails = "remove"
           s == [r EXCEPT !.bi[p].planted = v]
           a == [s EXCEPT !.ctx[t].stopped_by_bp = FALSE]
           b == [a EXCEPT !.ctx[t].pending_intercept = TRUE]
           q == [b EXCEPT !.ctx[t].stopped_by_exception = TRUE]
<1>1. SkipError(r, t, fails) = q
  BY DEF SkipError
<1>2. p \in Procs /\ v \in BOOLEAN /\ (v => r.bi[p].planted)
  BY ThreadsFinite
<1> HIDE DEF v
<1>3. /\ Holding(s, 1, 0, {}) /\ Shape(s) /\ \A g \in StateFields \ {"bi"} : s[g] = r[g]
  BY <1>2, OutHolds
<1> HIDE DEF s
<1>4. SameCtl(r, s) /\ SameClients(r, s) /\ GenBase(s)
  BY <1>3 DEF StateFields, SameCtl, SameClients, Holding, GenOK
<1>5. /\ "pending_intercept" \notin ThreadFields /\ "stopped_by_bp" \notin ThreadFields
      /\ "stopped_by_exception" \notin ThreadFields
  BY DEF ThreadFields
<1>6. Quiet(s, b)
  BY Zenon, <1>3, <1>5, ThreadAsideTwice
<1> HIDE DEF a, b
<1>7. Quiet(b, q)
  BY <1>5, <1>6, ThreadAside DEF Quiet, Around
<1> HIDE DEF q
<1>8. Quiet(s, q)
  BY <1>6, <1>7, QuietTwice
<1>9. Holding(q, 1, 0, {}) /\ SameCtl(s, q) /\ SameClients(s, q)
  BY <1>3, <1>4, <1>8, QuietMild, MildHolds DEF Quiet, Around, Same
<1> QED
  BY <1>1, <1>4, <1>9 DEF SameCtl, SameClients

\* safe_skip_breakpoint: a thread starts to step over the instruction.
LEMMA SkipEventHolds ==
  ASSUME NEW r, NEW t \in Threads, Holding(r, 1, 0, {t}), r.active, r.pc = "loop",
         IsAllStopped(r, ProcOf[t]), NEW fails
  PROVE  LET q == safe_skip_breakpoint(r, t, fails)
         IN  Holding(q, 1, 0, {}) /\ SameCtl(r, q) /\ SameClients(r, q)
<1> DEFINE p == ProcOf[t]
           i == [grp |-> p, done |-> "restore", arg |-> t]
           a == post_safe_event(r, i)
           x == [a EXCEPT !.bi[p].planted = FALSE, !.ctx[t].safe_single_step = TRUE]
           y == Ptrace(x, t, TRUE)
           e == SkipError(a, t, fails)
           q == safe_skip_breakpoint(r, t, fails)
<1>1. q = a \/ (~r.ctx[t].exited /\ q = y) \/ q = e
  <2>1. ASSUME NEW w PROVE Strict(LAMBDA z : Ptrace(z, t, TRUE), w) = Ptrace(w, t, TRUE)
    BY Zenon DEF Strict
  <2> QED
    BY Zenon, <2>1 DEF safe_skip_breakpoint
<1>2. Shape(r) /\ SteppingOK(r, {t})
  BY DEF Holding
<1>3. i \in Item /\ i.done = "restore" /\ i.arg = t
  BY ThreadsFinite DEF Item
<1> HIDE DEF i
<1>4. Holding(a, 1, 0, {})
  <2>1. {} = {t} \ {i.arg} /\ i.arg \in {t}
    BY <1>3
  <2> QED
    BY <1>3, <2>1, PostedHolds
<1>5. Shape(a) /\ a.ctx = r.ctx /\ a.bi = r.bi /\ SameClients(r, a) /\ SameCtl(r, a)
  BY <1>2, <1>3, PostSafeEvent
<1> HIDE DEF a
<1>a. a.bi[p].stepping > 0
  BY <1>2, <1>5, SteppingAtHand
<1>b. IsAllStopped(a, p)
  BY <1>5 DEF IsAllStopped
<1>c. Holding(e, 1, 0, {}) /\ SameCtl(r, e) /\ SameClients(r, e)
  <2>1. Holding(e, 1, 0, {}) /\ SameCtl(a, e) /\ SameClients(a, e)
    BY <1>4, <1>a, <1>b, SkipErrorHolds
  <2> QED
    BY <1>5, <2>1 DEF SameCtl, SameClients
<1> HIDE DEF e
<1>6. CASE ~r.ctx[t].exited /\ q = y
  <2>3. /\ Holding(x, 1, 0, {}) /\ SameCtl(a, x) /\ SameClients(a, x) /\ Shape(x)
        /\ x.ctx[t].safe_single_step /\ (x.ctx[t].exited <=> a.ctx[t].exited)
    BY <1>4, <1>a, <1>b, TakenOutHolds
  <2> HIDE DEF x
  <2>4. Released(x, y, t)
    BY <2>3, PtraceReleases
  <2> HIDE DEF y, q
  <2>5. ~Loose(y.ctx[t])
    BY <2>3, <2>4 DEF Released, Kept, Loose
  <2>6. (x.active <=> x.pc = "loop") /\ ~x.ctx[t].exited
    BY <1>5, <1>6, <2>3 DEF SameCtl
  <2>7. Holding(y, 1, 0, {})
    BY <2>3, <2>4, <2>5, <2>6, ReleasedHolds
  <2>8. SameCtl(r, y) /\ SameClients(r, y)
    BY <1>5, <2>3, <2>4 DEF Released, Around, Same, SameCtl, SameClients
  <2>9. Holding(q, 1, 0, {}) /\ SameCtl(r, q) /\ SameClients(r, q)
    BY <1>6, <2>7, <2>8
  <2> QED
    BY <2>9 DEF q
<1> HIDE DEF q, y
<1>7. Holding(q, 1, 0, {}) /\ SameCtl(r, q) /\ SameClients(r, q)
  BY <1>1, <1>4, <1>5, <1>6, <1>c DEF q
<1> QED
  BY <1>7 DEF q

\* A thread is over the breakpoint: the last one plants the instruction again.
LEMMA PutBackHolds ==
  ASSUME NEW r, NEW t \in Threads, Holding(r, 1, 0, {t}), IsAllStopped(r, ProcOf[t])
  PROVE  LET p == ProcOf[t]
             b == r.bi[p]
             q == [r EXCEPT !.ctx[t] = [@ EXCEPT !.stepping_over = FALSE, !.skips = 0],
                            !.bi[p] = [b EXCEPT
                               !.stepping = b.stepping - 1,
                               !.planted = \/ b.planted
                                           \/ b.stepping = 1 /\ b.valid /\ b.ref # "none"
                                              /\ ~ProcExited(r, p)]]
         IN  Holding(q, 1, 0, {}) /\ SameCtl(r, q) /\ SameClients(r, q)
<1> DEFINE p == ProcOf[t]
           b == r.bi[p]
           P == b.stepping = 1 /\ b.valid /\ b.ref # "none" /\ ~ProcExited(r, p)
           c == r.ctx[t]
           d == [c EXCEPT !.stepping_over = FALSE, !.skips = 0]
           s == [r EXCEPT !.ctx[t] = d]
           e == [b EXCEPT !.stepping = b.stepping - 1, !.planted = b.planted \/ P]
           q == [s EXCEPT !.bi[p] = e]
           z == [r EXCEPT !.ctx[t] = [@ EXCEPT !.stepping_over = FALSE, !.skips = 0],
                          !.bi[p] = e]
<1>1. z = q
  OBVIOUS
<1>2. Shape(r) /\ p \in Procs /\ GenBase(r) /\ SteppingOK(r, {t}) /\ BreakOK(r)
  BY ThreadsFinite DEF Holding, GenOK
<1>3. c.stepping_over /\ b.stepping > 0 /\ b.stepping \in Nat
  BY <1>2, SteppingAtHand
<1>4. /\ ThreadFields \subseteq DOMAIN d /\ ~d.stepping_over
      /\ \A f \in ThreadFields \ {"stepping_over"} : d[f] = c[f]
  BY <1>2 DEF Shape, ThreadShape, ThreadFields
<1> HIDE DEF d
<1>5. /\ Around(r, s) /\ s.pids = r.pids /\ s.ctx[t] = d
      /\ \A x \in Threads \ {t} : s.ctx[x] = r.ctx[x]
  BY <1>2, <1>4, NewThreadRecord
<1> HIDE DEF s
<1>6. Shape(s) /\ s.bi = r.bi /\ s.list = r.list /\ SameCtl(r, s) /\ SameClients(r, s)
      /\ s.gen_posted = r.gen_posted /\ s.gen_done = r.gen_done /\ Asks(r, s)
  BY <1>2, <1>5, AroundAsks DEF Around, Same, SameRound
<1>7. /\ b \in InstructionT /\ b.planted \in BOOLEAN
  BY <1>2, InstructionFields
<1>8. /\ e \in InstructionT /\ e.stepping = b.stepping - 1 /\ (e.planted <=> b.planted \/ P)
      /\ e.exists = b.exists /\ e.valid = b.valid /\ e.ref = b.ref
  <2> DEFINE n == b.stepping - 1
             y == b.planted \/ P
             f == [b EXCEPT !.stepping = n]
  <2>1. n \in Int /\ n = b.stepping - 1 /\ y \in BOOLEAN /\ (y <=> b.planted \/ P)
    BY <1>3, <1>7
  <2>2. e = [f EXCEPT !.planted = y]
    OBVIOUS
  <2> HIDE DEF b, n, P
  <2>3. f \in InstructionT /\ f.stepping = n /\ f.planted = b.planted
        /\ f.exists = b.exists /\ f.valid = b.valid /\ f.ref = b.ref
    BY <1>7, <2>1 DEF InstructionT
  <2> HIDE DEF f, y, e
  <2>5. e \in InstructionT /\ e.planted = y /\ e.stepping = f.stepping
        /\ e.exists = f.exists /\ e.valid = f.valid /\ e.ref = f.ref
    BY <2>1, <2>2, <2>3 DEF InstructionT
  <2> QED
    BY <2>1, <2>3, <2>5
<1> HIDE DEF e
<1>9. /\ Shape(q) /\ q.bi[p] = e /\ \A g \in StateFields \ {"bi"} : q[g] = s[g]
      /\ \A x \in Procs \ {p} : q.bi[x] = s.bi[x]
  BY <1>2, <1>6, <1>8, NewInstructionRecord
<1> HIDE DEF q, z
<1>10. /\ q.ctx = s.ctx /\ q.gen_posted = s.gen_posted /\ q.gen_done = s.gen_done
       /\ q.pids = s.pids /\ q.pc = s.pc /\ q.sync = s.sync /\ q.list = s.list
       /\ q.cache_lock = s.cache_lock /\ q.lock = s.lock /\ SameClients(s, q) /\ SameRound(s, q)
       /\ q.queue = s.queue /\ q.evals_posted = s.evals_posted /\ SameCtl(s, q)
  BY <1>9 DEF StateFields, SameClients, SameRound, SameCtl
<1>11. LockOK(q, 1) /\ GenOK(q, 0) /\ Theirs(q)
  <2>1. LockOK(s, 1) /\ GenOK(s, 0) /\ Theirs(s)
    BY <1>2, <1>6, BooksKept DEF Holding
  <2> QED
    BY <1>10, <2>1, RoundFrame, LockFrame
<1>12. PendingOK(q) /\ LoopOK(q) /\ SyncOK(q)
  <2>1. \A x \in Threads : \A f \in ThreadFields \ {"k", "safe_single_step", "stepping_over"} :
          q.ctx[x][f] = r.ctx[x][f]
    BY <1>4, <1>5, <1>10
  <2>2. q.pids = r.pids /\ q.pc = r.pc /\ q.sync = r.sync
    BY <1>5, <1>6, <1>10 DEF SameCtl
  <2> QED
    BY <1>2, <2>1, <2>2, WaitsSame DEF Holding
<1>13. SteppingOK(q, {})
  <2>1. \A x \in Threads \ {t} : (q.ctx[x].stepping_over <=> r.ctx[x].stepping_over)
    BY <1>5, <1>10
  <2>2. ~q.ctx[t].stepping_over /\ q.list = r.list
    BY <1>4, <1>5, <1>6, <1>10
  <2>3. \A x \in Procs \ {p} : q.bi[x].stepping = r.bi[x].stepping
    BY <1>6, <1>9
  <2>4. q.bi[p].stepping = r.bi[p].stepping - 1
    BY <1>8, <1>9
  <2> QED
    BY <1>2, <2>1, <2>2, <2>3, <2>4, SteppingLess
<1>14. \A x \in Threads : /\ (s.ctx[x].linked <=> r.ctx[x].linked) /\ (s.ctx[x].exited <=> r.ctx[x].exited)
                          /\ Loose(s.ctx[x]) => Loose(r.ctx[x])
                          /\ Trapped(s.ctx[x]) => Trapped(r.ctx[x])
                          /\ TrapOK(r.ctx[x]) => TrapOK(s.ctx[x])
  <2>1. /\ (d.linked <=> c.linked) /\ (d.exited <=> c.exited) /\ (Loose(d) => Loose(c))
        /\ (Trapped(d) => Trapped(c)) /\ (TrapOK(c) => TrapOK(d))
    BY <1>4 DEF Loose, Trapped, TrapOK, ThreadFields
  <2> QED
    BY <1>5, <2>1
<1>15. \A x \in Procs : ThreadsOf(x) \subseteq Threads /\ (ProcExited(r, x) => ProcExited(q, x))
  <2>1. \A x \in Procs : ThreadsOf(x) \subseteq Threads
    BY ThreadsFinite
  <2> QED
    BY <1>10, <1>14, <2>1 DEF ProcExited, IsLinked
<1>16. InstructionOK(q, p)
  <2>1. InstructionOK(r, p)
    BY <1>2 DEF BreakOK
  <2>2. \A x \in ThreadsOf(p) : ~Loose(q.ctx[x]) /\ ~Trapped(q.ctx[x])
    BY <1>2, <1>10, <1>14, <1>15, NobodyNear
  <2>3. q.gen_posted = r.gen_posted /\ q.gen_done = r.gen_done
    BY <1>6, <1>10
  <2>4. e.planted => e.exists
    BY <1>3, <1>8, <2>1 DEF InstructionOK
  <2>5. e.stepping > 0 => e.exists
    BY <1>3, <1>8, <2>1 DEF InstructionOK
  <2>6. e.valid /\ e.ref = "live" => e.planted \/ e.stepping > 0 \/ ProcExited(q, p)
    <3>1. b.stepping = 1 \/ b.stepping - 1 > 0
      BY <1>3
    <3> QED
      BY <1>2, <1>8, <1>15, <3>1
  <2>7. ~e.valid => q.gen_posted # q.gen_done
    BY <1>8, <2>1, <2>3 DEF InstructionOK
  <2> QED
    BY <1>9, <2>2, <2>4, <2>5, <2>6, <2>7 DEF InstructionOK
<1>17. ASSUME NEW x \in Procs \ {p} PROVE InstructionOK(q, x)
  <2>1. InstructionOK(r, x) /\ q.bi[x] = r.bi[x] /\ q.gen_posted = r.gen_posted /\ q.gen_done = r.gen_done
    BY <1>2, <1>6, <1>9, <1>10 DEF BreakOK
  <2>2. \A y \in ThreadsOf(x) : (Loose(q.ctx[y]) => Loose(r.ctx[y]))
                                /\ (Trapped(q.ctx[y]) => Trapped(r.ctx[y]))
    BY <1>10, <1>14, <1>15
  <2> QED
    BY <1>15, <2>1, <2>2 DEF InstructionOK
<1>18. BreakOK(q)
  <2>1. \A x \in Threads : TrapOK(q.ctx[x])
    BY <1>2, <1>10, <1>14 DEF BreakOK
  <2> QED
    BY <1>16, <1>17, <2>1 DEF BreakOK
<1>19. Holding(q, 1, 0, {})
  BY <1>9, <1>11, <1>12, <1>13, <1>18 DEF Holding
<1>20. SameCtl(r, q) /\ SameClients(r, q)
  BY <1>6, <1>10 DEF SameCtl, SameClients
<1>21. Holding(z, 1, 0, {}) /\ SameCtl(r, z) /\ SameClients(r, z)
  BY <1>1, <1>19, <1>20
<1> QED
  BY <1>21 DEF z, e

\* safe_restore_breakpoint: a thread has made its step, or has to try again.
LEMMA RestoreEventHolds ==
  ASSUME NEW r, NEW t \in Threads, Holding(r, 1, 0, {t}), r.active, r.pc = "loop",
         IsAllStopped(r, ProcOf[t]), NEW fails
  PROVE  LET q == safe_restore_breakpoint(r, t, fails)
         IN  Holding(q, 1, 0, {}) /\ SameCtl(r, q) /\ SameClients(r, q)
<1> DEFINE p == ProcOf[t]
           b == r.bi[p]
           n == r.ctx[t].skips + 1
           a == [r EXCEPT !.ctx[t].skips = n]
           x == safe_skip_breakpoint(a, t, fails)
           y == [r EXCEPT !.ctx[t] = [@ EXCEPT !.stepping_over = FALSE, !.skips = 0],
                          !.bi[p] = [b EXCEPT
                             !.stepping = b.stepping - 1,
                             !.planted = \/ b.planted
                                         \/ b.stepping = 1 /\ b.valid /\ b.ref # "none"
                                            /\ ~ProcExited(r, p)]]
           q == safe_restore_breakpoint(r, t, fails)
<1>1. q = x \/ q = y
  BY DEF safe_restore_breakpoint
<1>2. Shape(r) /\ GenBase(r)
  BY DEF Holding, GenOK
<1>3. "skips" \notin ThreadFields
  BY DEF ThreadFields
<1> HIDE DEF n
<1>4. Quiet(r, a)
  BY <1>2, <1>3, ThreadAside
<1> HIDE DEF a
<1>5. Holding(a, 1, 0, {t}) /\ SameCtl(r, a) /\ SameClients(r, a)
  BY <1>2, <1>4, QuietMild, MildHolds DEF Quiet, Around, Same
<1>6. IsAllStopped(a, p)
  <2>1. ThreadsOf(p) \subseteq Threads
    BY ThreadsFinite
  <2> QED
    BY <1>4, <2>1 DEF IsAllStopped, Quiet, AllAlike, Alike, Kept
<1>7. Holding(x, 1, 0, {}) /\ SameCtl(a, x) /\ SameClients(a, x)
  BY <1>5, <1>6, SkipEventHolds DEF SameCtl
<1>8. Holding(y, 1, 0, {}) /\ SameCtl(r, y) /\ SameClients(r, y)
  BY PutBackHolds
<1> HIDE DEF x, y, q
<1>9. Holding(q, 1, 0, {}) /\ SameCtl(r, q) /\ SameClients(r, q)
  BY <1>1, <1>5, <1>7, <1>8 DEF SameCtl, SameClients
<1> QED
  BY <1>9 DEF q

\* event_terminate: a thread that is to be terminated is asked to go on.
LEMMA TerminateEvent ==
  ASSUME NEW r, Shape(r), NEW t \in Threads
  PROVE  Quiet(r, event_terminate(r, t))
<1> DEFINE a == [[r EXCEPT !.ctx[t].pending_intercept = FALSE] EXCEPT !.ctx[t].step_mode = "terminate"]
           q == resume_context_tree(a, t)
<1>1. event_terminate(r, t) = r \/ event_terminate(r, t) = q
  BY DEF event_terminate
<1>2. "pending_intercept" \notin ThreadFields /\ "step_mode" \notin ThreadFields
  BY DEF ThreadFields
<1>3. Quiet(r, a)
  BY Zenon, <1>2, ThreadAsideTwice
<1> HIDE DEF a
<1>4. Quiet(a, q)
  BY <1>3, ResumeTree DEF Quiet, Around
<1> HIDE DEF q
<1> QED
  BY <1>1, <1>3, <1>4, QuietTwice, QuietSame

\* The handler of a safe event, for a group that stands still.
LEMMA RunDoneHolds ==
  ASSUME NEW r, NEW i \in Item, Holding(r, 1, 0, {t \in Threads : i \in Goes(t)}), r.active,
         r.pc = "loop", IsAllStopped(r, i.grp), NEW fails
  PROVE  LET q == RunDone(r, i, fails)
         IN  Holding(q, 1, 0, {}) /\ SameCtl(r, q) /\ SameClients(r, q)
<1> DEFINE X == {t \in Threads : i \in Goes(t)}
           q == RunDone(r, i, fails)
<1>1. Shape(r) /\ GenBase(r)
  BY DEF Holding, GenOK
<1>2. /\ i.done \in {"none", "terminate", "skip", "restore"}
      /\ i.done # "none" => i.arg \in Threads /\ i.grp = ProcOf[i.arg]
      /\ X = IF i.done \in {"skip", "restore"} THEN {i.arg} ELSE {}
  <2>1. PICK u \in Threads : TRUE
    BY RunCtrlAssumption
  <2>2. /\ i.done \in {"none", "terminate", "skip", "restore"}
        /\ i.done # "none" => i.arg \in Threads /\ i.grp = ProcOf[i.arg]
    BY <2>1, GoesFacts
  <2>3. \A t \in Threads : i \in Goes(t) <=> i.done \in {"skip", "restore"} /\ i.arg = t
    BY GoesFacts
  <2> QED
    BY <2>2, <2>3
<1>3. CASE i.done = "none"
  <2>1. q = r
    BY <1>3 DEF RunDone
  <2> QED
    BY <1>2, <1>3, <2>1 DEF SameCtl, SameClients
<1>4. CASE i.done = "terminate"
  <2>1. q = event_terminate(r, i.arg)
    BY <1>4 DEF RunDone
  <2>2. Quiet(r, q)
    BY <1>1, <1>2, <1>4, <2>1, TerminateEvent
  <2> HIDE DEF q
  <2>3. Holding(q, 1, 0, {}) /\ SameCtl(r, q) /\ SameClients(r, q)
    BY <1>1, <1>2, <1>4, <2>2, QuietMild, MildHolds DEF Quiet, Around, Same
  <2> QED
    BY <2>3 DEF q
<1>5. CASE i.done = "skip"
  <2>1. q = safe_skip_breakpoint(r, i.arg, fails) /\ Holding(r, 1, 0, {i.arg})
    BY <1>2, <1>5 DEF RunDone
  <2>2. Holding(q, 1, 0, {}) /\ SameCtl(r, q) /\ SameClients(r, q)
    <3> HIDE DEF q
    <3> QED
      BY <1>2, <1>5, <2>1, SkipEventHolds
  <2> QED
    BY <2>2
<1>6. CASE i.done = "restore"
  <2>1. q = safe_restore_breakpoint(r, i.arg, fails) /\ Holding(r, 1, 0, {i.arg})
    BY <1>2, <1>6 DEF RunDone
  <2>2. Holding(q, 1, 0, {}) /\ SameCtl(r, q) /\ SameClients(r, q)
    <3> HIDE DEF q
    <3> QED
      BY <1>2, <1>6, <2>1, RestoreEventHolds
  <2> QED
    BY <2>2
<1> QED
  BY <1>2, <1>3, <1>4, <1>5, <1>6

\* The handler of a safe event is done, and its lock is released.
LEMMA EventDone ==
  ASSUME NEW r, Holding(r, 0 + 1, 0, {}), r.pc # "idle" => r.run = <<>>
  PROVE  Good(run_ctrl_unlock([r EXCEPT !.active = FALSE]))
<1> DEFINE q == [r EXCEPT !.active = FALSE]
           v == run_ctrl_unlock(q)
<1>1. Shape(r)
  BY DEF Holding
<1>2. ~q.active /\ DOMAIN q = DOMAIN r /\ \A g \in StateFields \ {"active"} : q[g] = r[g]
  BY <1>1 DEF Shape, StateFields
<1> HIDE DEF q
<1>3. Shape(q)
  BY <1>1, <1>2 DEF Shape, ThreadShape, StateFields
<1>4. /\ q.lock = r.lock /\ q.cache_lock = r.cache_lock /\ q.gen_posted = r.gen_posted
      /\ q.gen_done = r.gen_done /\ q.queue = r.queue /\ q.evals_posted = r.evals_posted
      /\ SameClients(r, q) /\ SameRound(r, q) /\ q.list = r.list /\ q.pc = r.pc /\ q.run = r.run
  BY <1>2 DEF StateFields, SameClients, SameRound
<1>5. GenOK(q, 0) /\ Theirs(q) /\ LockOK(q, 0 + 1)
  BY <1>4, RoundFrame, LockFrame DEF Holding
<1>6. Holding(q, 0 + 1, 0, {})
  BY <1>2, <1>3, <1>4, <1>5, DeskHolds DEF StateFields
<1>7. Holding(v, 0, 0, {}) /\ SameCtl(q, v) /\ SameClients(q, v)
  BY <1>6, UnlockHolds
<1> HIDE DEF v
<1>8. Good(v)
  BY <1>2, <1>4, <1>7 DEF Good, RestOK, SameCtl, SameClients
<1> QED
  BY <1>8 DEF v, q

\* cache_notify: the clients that wait for the safe events are called.
LEMMA NotifyGood ==
  ASSUME NEW r, Good(r), r.pc = "loop"
  PROVE  Good(NotifySafeEvents(r))
<1> DEFINE a == [r EXCEPT !.pc = "idle"]
           w == r.waiting
           b == [a EXCEPT !.run = w]
           q == [b EXCEPT !.waiting = <<>>]
<1>1. NotifySafeEvents(r) = q
  BY Zenon DEF NotifySafeEvents
<1>2. Shape(r) /\ RestOK(r) /\ r.run = <<>> /\ Holding(r, 0, 0, {})
  BY DEF Good, Holding, RestOK
<1>3. a.pc = "idle" /\ DOMAIN a = DOMAIN r /\ \A g \in StateFields \ {"pc"} : a[g] = r[g]
  BY <1>2 DEF Shape, StateFields
<1> HIDE DEF a
<1>4. Shape(a)
  BY <1>2, <1>3 DEF Shape, ThreadShape, StateFields
<1>5. SyncOK(a)
  BY <1>3 DEF SyncOK
<1>6. Holding(a, 0, 0, {})
  BY <1>2, <1>3, <1>4, <1>5, CtlHolds
<1>7. w \in Seq(ClientT) /\ a.waiting = w /\ a.run = <<>> /\ a.active = r.active
  BY <1>2, <1>3 DEF Shape, StateFields
<1> HIDE DEF w
<1>8. /\ q.run = w /\ q.waiting = <<>> /\ DOMAIN q = DOMAIN a
      /\ \A g \in StateFields \ {"run", "waiting"} : q[g] = a[g]
  BY <1>4 DEF Shape, StateFields
<1> HIDE DEF q
<1>9. Shape(q)
  <2>1. <<>> \in Seq(ClientT)
    OBVIOUS
  <2> QED
    BY <1>4, <1>7, <1>8, <2>1 DEF Shape, ThreadShape, StateFields
<1>10. q.missed = a.missed /\ q.pc = "idle" /\ q.active = a.active
  BY <1>3, <1>8 DEF StateFields
<1>11. Known(q) \subseteq Known(a)
  <2>1. Range(<<>>) = {}
    BY DEF Range
  <2> QED
    BY <1>7, <1>8, <1>10, <2>1 DEF Known
<1>12. ASSUME NEW T PROVE Clients(q, T) + 0 = Clients(a, T) + 0
  <2> DEFINE x == Cardinality(Places(w, T))
             y == Cardinality(Places(a.missed, T))
             z == Cardinality(Places(<<>>, T))
  <2>1. x \in Nat /\ y \in Nat /\ z \in Nat
    BY <1>4, <1>7, ClientsNat, PlacesEmpty
  <2>2. Clients(q, T) = x + z + y
    BY <1>8, <1>10 DEF Clients
  <2>3. Clients(a, T) = z + x + y
    BY <1>7 DEF Clients
  <2> HIDE DEF x, y, z
  <2> QED
    BY <2>1, <2>2, <2>3
<1>13. Holding(q, 0, 0, {})
  BY <1>6, <1>8, <1>9, <1>11, <1>12, ClientsMove
<1>14. Good(q)
  BY <1>2, <1>7, <1>10, <1>13 DEF Good, RestOK
<1> QED
  BY <1>1, <1>14

\* SafeEventLoop keeps the invariant.
LEMMA SafeEventLoopKeeps == ASSUME RInv, SafeEventLoop PROVE RInv'
<1> DEFINE i == Head(rc.list)
           a == [rc EXCEPT !.list = Tail(@), !.active = TRUE]
           tick == [rc EXCEPT !.timer = TRUE]
<1>1. Good(rc) /\ Shape(rc) /\ RestOK(rc) /\ Holding(rc, 0, 0, {})
  BY DEF RInv, Good, Holding
<1>2. rc.pc = "loop" /\ rc.run = <<>>
  BY <1>1 DEF SafeEventLoop, RestOK
<1>3. \/ \E fails \in {"none", "remove", "step"} : CanRunSafeEvent(rc) /\ rc' = RunHead(rc, fails)
      \/ \E x \in {rc, PostSafe(rc), tick} : rc' = NotifySafeEvents(x)
  BY DEF SafeEventLoop, Become
<1>4. ASSUME NEW fails, CanRunSafeEvent(rc), rc' = RunHead(rc, fails)
      PROVE  RInv'
  <2> DEFINE d == RunDone(a, i, fails)
  <2>1. rc.list # <<>> /\ rc.pids = 0 /\ \E t \in ThreadsOf(i.grp) : rc.ctx[t].stop_group_mark
    BY <1>4 DEF CanRunSafeEvent, Marked
  <2> DEFINE X == {t \in Threads : i \in Goes(t)}
  <2>2. /\ i \in Item /\ Holding(a, 0 + 1, 0, X) /\ a.active
        /\ \A g \in StateFields \ {"list", "active"} : a[g] = rc[g]
    BY <1>1, <2>1, EventTaken
  <2>3. rc' = run_ctrl_unlock([d EXCEPT !.active = FALSE])
    <3> DEFINE After(r) == run_ctrl_unlock([r EXCEPT !.active = FALSE])
    <3>1. ASSUME NEW w PROVE Strict(LAMBDA r : After(r), w) = After(w)
      <4> HIDE DEF After
      <4> QED BY Zenon DEF Strict
    <3>2. rc' = Strict(LAMBDA r : After(r), d)
      BY Zenon, <1>4 DEF RunHead
    <3> HIDE DEF d
    <3> QED
      BY Zenon, <3>1, <3>2
  <2> HIDE DEF a, i
  <2>4. i.grp \in Procs
    <3>1. PICK u \in Threads : TRUE
      BY RunCtrlAssumption
    <3> QED
      BY <2>2, <3>1, GoesFacts
  <2>5. a.ctx = rc.ctx /\ a.pc = "loop" /\ a.run = <<>>
    BY <1>2, <2>2 DEF StateFields
  <2>6. IsAllStopped(a, i.grp)
    <3>1. IsAllStopped(rc, i.grp)
      BY <1>1, <1>2, <2>1, <2>4, LoopStopped
    <3> QED
      BY <2>5, <3>1 DEF IsAllStopped
  <2>7. Holding(d, 1, 0, {}) /\ SameCtl(a, d) /\ SameClients(a, d)
    BY <2>2, <2>5, <2>6, RunDoneHolds
  <2> HIDE DEF d
  <2>8. Good(run_ctrl_unlock([d EXCEPT !.active = FALSE]))
    <3>1. d.run = <<>> /\ Holding(d, 0 + 1, 0, {})
      BY <2>5, <2>7 DEF SameClients
    <3> QED
      BY <3>1, EventDone
  <2> QED
    BY <2>3, <2>8 DEF RInv
<1>5. ASSUME NEW x \in {rc, PostSafe(rc), tick}, rc' = NotifySafeEvents(x)
      PROVE  RInv'
  <2>1. Quiet(rc, rc) /\ Quiet(rc, PostSafe(rc))
    BY <1>1, QuietSame, PostSafeQuiet
  <2>2. Quiet(rc, tick)
    <3>1. "timer" \notin StateFields
      BY DEF StateFields
    <3> QED
      BY <1>1, <3>1, Aside
  <2> HIDE DEF tick
  <2>3. Quiet(rc, x)
    BY <1>5, <2>1, <2>2
  <2>4. Good(x) /\ x.pc = "loop"
    BY <1>1, <1>2, <2>3, QuietGood DEF Quiet, Around, Same, SameCtl
  <2> QED
    BY <1>5, <2>4, NotifyGood DEF RInv
<1> QED
  BY <1>3, <1>4, <1>5

-----------------------------------------------------------------------------
(* run_safe_events: the pass over all threads.                             *)

\* What the pass makes of a thread, when L are the safe events: it is waited for
\* exactly if it moves although its group has to stop, or is on a single step.
Passed(L, t, c, d) ==
  /\ Tamer(c, d) /\ (d.stopped <=> c.stopped) /\ (d.exited <=> c.exited)
  /\ c.linked => (d.stop_group_mark <=> \E i \in DOMAIN L : L[i].grp = ProcOf[t])
  /\ ~c.linked => /\ (d.stop_group_mark <=> c.stop_group_mark)
                  /\ (d.pending_safe_event <=> c.pending_safe_event)
  /\ c.linked /\ d.pending_safe_event => ~c.stopped /\ ~c.exited
  /\ c.linked /\ Moves(d) => d.pending_safe_event

\* Afterwards the thread changes in a way that does not matter.
LEMMA PassedAlike ==
  ASSUME NEW L, NEW t, NEW c, NEW d, NEW e, Passed(L, t, c, d), Alike(d, e)
  PROVE  Passed(L, t, c, e)
<1>1. Tamer(d, e)
  BY AlikeTamer
<1>2. Tamer(c, e)
  BY <1>1 DEF Tamer, Passed
<1>3. Moves(e) => Moves(d)
  BY DEF Moves, Alike, Kept
<1> QED
  BY <1>2, <1>3 DEF Passed, Alike, Kept

\* Before the pass comes to it, too.
LEMMA AlikePassed ==
  ASSUME NEW L, NEW t, NEW c, NEW d, NEW e, Alike(c, d), Passed(L, t, d, e)
  PROVE  Passed(L, t, c, e)
<1>1. Tamer(c, d)
  BY AlikeTamer
<1>2. Tamer(c, e)
  BY <1>1 DEF Tamer, Passed
<1> QED
  BY <1>2 DEF Passed, Alike, Kept

\* The changes of the pass: the marks of a thread, a thread is waited for.
MarkedAs(r, t, m) ==
  [r EXCEPT !.ctx[t].pending_safe_event = FALSE, !.ctx[t].stop_group_mark = m]
Awaited(r, t) == [r EXCEPT !.ctx[t].pending_safe_event = TRUE, !.pids = @ + 1]

\* The marks of a thread are set.
LEMMA MarkThread ==
  ASSUME NEW r, Shape(r), NEW t \in Threads, NEW m, NEW z,
         z = MarkedAs(r, t, m)
  PROVE  /\ Around(r, z) /\ z.pids = r.pids /\ ButFor(r, z, t)
         /\ ~z.ctx[t].pending_safe_event /\ z.ctx[t].stop_group_mark = m
         /\ \A g \in ThreadFields \ {"pending_safe_event", "stop_group_mark"} :
              z.ctx[t][g] = r.ctx[t][g]
<1> DEFINE c == r.ctx[t]
           a == [c EXCEPT !.pending_safe_event = FALSE]
           d == [a EXCEPT !.stop_group_mark = m]
           q == [r EXCEPT !.ctx[t] = d]
<1>1. z = q
  BY DEF Shape, ThreadShape, MarkedAs
<1>2. /\ DOMAIN a = DOMAIN c /\ a.pending_safe_event = FALSE
      /\ \A g \in ThreadFields \ {"pending_safe_event"} : a[g] = c[g]
  BY DEF Shape, ThreadShape, ThreadFields
<1>3. /\ DOMAIN d = DOMAIN a /\ d.stop_group_mark = m
      /\ \A g \in ThreadFields \ {"stop_group_mark"} : d[g] = a[g]
  BY <1>2 DEF Shape, ThreadShape, ThreadFields
<1> HIDE DEF a
<1>4. /\ ThreadFields \subseteq DOMAIN d /\ ~d.pending_safe_event /\ d.stop_group_mark = m
      /\ \A g \in ThreadFields \ {"pending_safe_event", "stop_group_mark"} : d[g] = c[g]
  BY <1>2, <1>3 DEF Shape, ThreadShape, ThreadFields
<1> HIDE DEF d
<1>5. Around(r, q) /\ q.pids = r.pids /\ ButFor(r, q, t) /\ q.ctx[t] = d
  BY <1>4, NewThreadRecord
<1> HIDE DEF q
<1> QED
  BY <1>1, <1>4, <1>5

\* A thread is waited for.
LEMMA WaitThread ==
  ASSUME NEW r, Shape(r), NEW t \in Threads, NEW z,
         z = Awaited(r, t)
  PROVE  /\ Around(r, z) /\ z.pids = r.pids + 1 /\ ButFor(r, z, t)
         /\ z.ctx[t].pending_safe_event
         /\ \A g \in ThreadFields \ {"pending_safe_event"} : z.ctx[t][g] = r.ctx[t][g]
<1> DEFINE c == r.ctx[t]
           d == [c EXCEPT !.pending_safe_event = TRUE]
           n == r.pids + 1
           a == [r EXCEPT !.ctx[t] = d]
           q == [a EXCEPT !.pids = n]
<1>1. z = q
  <2>1. a.pids = r.pids
    BY DEF Shape, StateFields
  <2> QED
    BY <2>1 DEF Awaited
<1>2. n \in Int
  BY DEF Shape
<1>3. /\ ThreadFields \subseteq DOMAIN d /\ d.pending_safe_event
      /\ \A g \in ThreadFields \ {"pending_safe_event"} : d[g] = c[g]
  BY DEF Shape, ThreadShape, ThreadFields
<1> HIDE DEF d
<1>4. Around(r, a) /\ a.pids = r.pids /\ a.ctx[t] = d /\ ButFor(r, a, t)
  <2>1. ThreadFields \subseteq DOMAIN d
    BY <1>3
  <2> QED
    BY <2>1, NewThreadRecord
<1>5. n = r.pids + 1
  OBVIOUS
<1> HIDE DEF a, n
<1>6. Around(a, q) /\ q.pids = n /\ q.ctx = a.ctx
  BY <1>2, <1>4, NewPids DEF Around
<1> HIDE DEF q
<1> QED
  BY <1>1, <1>3, <1>4, <1>5, <1>6, AroundTwice DEF ButFor

\* A thread has been told to stop too often.
LEMMA GiveUpThread ==
  ASSUME NEW r, Shape(r), NEW t \in Threads
  PROVE  LET q == mark_cannot_stop(r, t)
         IN  /\ Around(r, q) /\ q.pids = r.pids /\ ButFor(r, q, t) /\ q.ctx[t].cannot_stop
             /\ \A g \in ThreadFields \ {"safe_single_step", "cannot_stop"} :
                  q.ctx[t][g] = r.ctx[t][g]
<1> DEFINE c == r.ctx[t]
           s == [c EXCEPT !.step_mode = "resume"]
           a == [s EXCEPT !.safe_single_step = FALSE]
           d == [a EXCEPT !.cannot_stop = TRUE]
           q == [r EXCEPT !.ctx[t] = d]
           z == mark_cannot_stop(r, t)
<1>1. z = q
  BY DEF Shape, ThreadShape, mark_cannot_stop, cancel_step_mode
<1>2. DOMAIN s = DOMAIN c /\ \A g \in ThreadFields : s[g] = c[g]
  BY DEF Shape, ThreadShape, ThreadFields
<1>3. /\ DOMAIN a = DOMAIN s
      /\ \A g \in ThreadFields \ {"safe_single_step"} : a[g] = s[g]
  BY <1>2 DEF Shape, ThreadShape, ThreadFields
<1> HIDE DEF s
<1>4. /\ DOMAIN d = DOMAIN a /\ d.cannot_stop
      /\ \A g \in ThreadFields \ {"cannot_stop"} : d[g] = a[g]
  BY <1>2, <1>3 DEF Shape, ThreadShape, ThreadFields
<1> HIDE DEF a
<1>5. /\ ThreadFields \subseteq DOMAIN d /\ d.cannot_stop
      /\ \A g \in ThreadFields \ {"safe_single_step", "cannot_stop"} : d[g] = c[g]
  <2>1. ThreadFields \subseteq DOMAIN c
    BY <1>2 DEF Shape, ThreadShape
  <2> QED
    BY <1>2, <1>3, <1>4, <2>1 DEF ThreadFields
<1> HIDE DEF d
<1>6. Around(r, q) /\ q.pids = r.pids /\ ButFor(r, q, t) /\ q.ctx[t] = d
  BY <1>5, NewThreadRecord
<1> HIDE DEF q, z
<1>7. /\ Around(r, z) /\ z.pids = r.pids /\ ButFor(r, z, t) /\ z.ctx[t].cannot_stop
      /\ \A g \in ThreadFields \ {"safe_single_step", "cannot_stop"} : z.ctx[t][g] = c[g]
  BY <1>1, <1>5, <1>6
<1> QED
  BY <1>7 DEF z

\* ScanThread
LEMMA ScanOne ==
  ASSUME NEW r, Shape(r), NEW t \in Threads
  PROVE  LET q == ScanThread(r, t)
         IN  /\ Around(r, q) /\ ButFor(r, q, t) /\ Passed(r.list, t, r.ctx[t], q.ctx[t])
             /\ q.pids = r.pids + One(q.ctx[t].linked /\ q.ctx[t].pending_safe_event)
<1> DEFINE c == r.ctx[t]
           m == \E i \in DOMAIN r.list : r.list[i].grp = ProcOf[t]
           a == MarkedAs(r, t, m)
           s == context_stop(a, t)
           q == ScanThread(r, t)
           Fine(z) == /\ Around(r, z) /\ ButFor(r, z, t) /\ Passed(r.list, t, r.ctx[t], z.ctx[t])
                      /\ z.pids = r.pids + One(z.ctx[t].linked /\ z.ctx[t].pending_safe_event)
<1>1. \/ ~c.linked /\ q = r
      \/ /\ c.linked /\ (c.exited \/ c.exiting \/ c.cannot_stop \/ c.stopped \/ ~m)
         /\ q = a
      \/ /\ c.linked /\ ~c.exited /\ ~c.stopped
         /\ q = mark_cannot_stop(a, t) \/ q = Awaited(a, t) \/ q = Awaited(s, t)
  BY DEF ScanThread, MarkedAs, Awaited
<1>2. r.pids \in Int
  BY DEF Shape
<1>3. /\ Around(r, a) /\ a.pids = r.pids /\ ButFor(r, a, t)
      /\ ~a.ctx[t].pending_safe_event /\ a.ctx[t].stop_group_mark = m
      /\ \A g \in ThreadFields \ {"pending_safe_event", "stop_group_mark"} : a.ctx[t][g] = c[g]
  <2> HIDE DEF m
  <2> QED
    BY MarkThread
<1>4. m <=> \E i \in DOMAIN r.list : r.list[i].grp = ProcOf[t]
  OBVIOUS
<1> HIDE DEF a, m
<1>5. Shape(a)
  BY <1>3 DEF Around
<1>6. CASE ~c.linked /\ q = r
  <2>1. Quiet(r, r)
    BY QuietSame
  <2>2. Fine(r)
    BY <1>2, <1>6, <2>1 DEF Quiet, AllAlike, ButFor, Passed, Tamer, One
  <2> QED
    BY <1>6, <2>2
<1>7. CASE c.linked /\ (c.exited \/ c.exiting \/ c.cannot_stop \/ c.stopped \/ ~m) /\ q = a
  <2>1. Tamer(c, a.ctx[t])
    BY <1>3 DEF Tamer, Loose, Trapped, TrapOK, ThreadFields
  <2>2. ~Moves(a.ctx[t])
    BY <1>3, <1>7 DEF Moves, ThreadFields
  <2>3. Passed(r.list, t, c, a.ctx[t])
    BY <1>3, <1>4, <1>7, <2>1, <2>2 DEF Passed, ThreadFields
  <2>4. Fine(a)
    BY <1>2, <1>3, <2>3 DEF One
  <2> QED
    BY <1>7, <2>4
<1>8. CASE c.linked /\ q = mark_cannot_stop(a, t)
  <2> DEFINE z == mark_cannot_stop(a, t)
  <2>1. /\ Around(a, z) /\ z.pids = a.pids /\ ButFor(a, z, t) /\ z.ctx[t].cannot_stop
        /\ \A g \in ThreadFields \ {"safe_single_step", "cannot_stop"} : z.ctx[t][g] = a.ctx[t][g]
    BY <1>5, GiveUpThread
  <2> HIDE DEF z
  <2>2. /\ \A g \in ThreadFields \ {"safe_single_step", "cannot_stop", "pending_safe_event",
                                     "stop_group_mark"} : z.ctx[t][g] = c[g]
        /\ ~z.ctx[t].pending_safe_event /\ z.ctx[t].stop_group_mark = m
    BY <1>3, <2>1 DEF ThreadFields
  <2>3. Tamer(c, z.ctx[t])
    BY <2>1, <2>2 DEF Tamer, Loose, Trapped, TrapOK, ThreadFields
  <2>4. ~Moves(z.ctx[t])
    BY <2>1 DEF Moves
  <2>5. Passed(r.list, t, c, z.ctx[t])
    BY <1>4, <1>8, <2>2, <2>3, <2>4 DEF Passed, ThreadFields
  <2>6. Around(r, z) /\ ButFor(r, z, t)
    BY <1>3, <2>1, AroundTwice, AlikeTwice DEF ButFor
  <2>7. Fine(z)
    BY <1>2, <1>3, <2>1, <2>2, <2>5, <2>6 DEF One
  <2> QED
    BY <1>8, <2>7 DEF z
<1>9. ASSUME NEW x, Quiet(a, x), c.linked, ~c.exited, ~c.stopped
      PROVE  Fine(Awaited(x, t))
  <2> DEFINE z == Awaited(x, t)
  <2>1. Shape(x) /\ Around(a, x) /\ x.pids = a.pids /\ AllAlike(a, x)
    BY <1>9 DEF Quiet, Around
  <2>2. /\ Around(x, z) /\ z.pids = x.pids + 1 /\ ButFor(x, z, t) /\ z.ctx[t].pending_safe_event
        /\ \A g \in ThreadFields \ {"pending_safe_event"} : z.ctx[t][g] = x.ctx[t][g]
    BY <2>1, WaitThread
  <2> HIDE DEF z
  <2>3. Around(r, z)
    BY <1>3, <2>1, <2>2, AroundTwice
  <2>4. ButFor(r, z, t)
    BY <1>3, <2>1, <2>2, AlikeTwice DEF ButFor, AllAlike
  <2>5. Alike(a.ctx[t], x.ctx[t])
    BY <2>1 DEF AllAlike
  <2>6. Tamer(c, a.ctx[t]) /\ Tamer(a.ctx[t], x.ctx[t])
    BY <1>3, <2>5, AlikeTamer DEF Tamer, Loose, Trapped, TrapOK, ThreadFields
  <2>7. Tamer(x.ctx[t], z.ctx[t])
    BY <2>2 DEF Tamer, Loose, Trapped, TrapOK, ThreadFields
  <2>8. Tamer(c, z.ctx[t])
    BY <2>6, <2>7 DEF Tamer
  <2>9. /\ (z.ctx[t].stopped <=> c.stopped) /\ (z.ctx[t].exited <=> c.exited)
        /\ z.ctx[t].linked /\ (z.ctx[t].stop_group_mark <=> m)
    BY <1>3, <1>9, <2>2, <2>5 DEF Alike, Kept, ThreadFields
  <2>10. Passed(r.list, t, c, z.ctx[t])
    BY <1>4, <1>9, <2>2, <2>8, <2>9 DEF Passed
  <2>11. Fine(z)
    BY <1>2, <1>3, <2>1, <2>2, <2>3, <2>4, <2>9, <2>10 DEF One
  <2> QED
    BY <2>11 DEF z
<1>10. Quiet(a, a) /\ Quiet(a, s)
  BY <1>5, QuietSame, ContextStop
<1>11. Fine(q)
  <2> HIDE DEF s, q, Fine
  <2>1. CASE c.linked /\ ~c.exited /\ ~c.stopped /\ (q = Awaited(a, t) \/ q = Awaited(s, t))
    BY <1>9, <1>10, <2>1
  <2>2. CASE ~c.linked /\ q = r
    <3> USE DEF Fine
    <3> QED
      BY <1>6, <2>2 DEF q
  <2>3. CASE c.linked /\ (c.exited \/ c.exiting \/ c.cannot_stop \/ c.stopped \/ ~m) /\ q = a
    BY <1>7, <2>3 DEF q, Fine
  <2>4. CASE c.linked /\ q = mark_cannot_stop(a, t)
    BY <1>8, <2>4 DEF q, Fine
  <2> QED
    BY <1>1, <2>1, <2>2, <2>3, <2>4 DEF q, s
<1> QED
  BY <1>11

\* The first i threads, and those of them that are waited for.
First(i) == {t \in Threads : \E m \in 1 .. i : ThreadSeq[m] = t}
Seen(r, i) == {t \in First(i) : r.ctx[t].linked /\ r.ctx[t].pending_safe_event}

\* One thread of the pass, and what the first i steps of it make of r.
ScanStep(x, r, t) == ScanNext(r, t)
ScannedTo(x, i, r, q) ==
  Shape(r) /\ r.pids = 0 =>
  /\ Around(r, q) /\ q.pids = Cardinality(Seen(q, i))
  /\ \A t \in First(i) : Passed(r.list, t, r.ctx[t], q.ctx[t])
  /\ \A t \in Threads \ First(i) : Alike(r.ctx[t], q.ctx[t])

Scanning == INSTANCE ProofLemmas WITH Op <- ScanStep, Rel <- ScannedTo

\* One more thread has its place behind the first ones.
LEMMA FirstMore ==
  ASSUME NEW i \in 1 .. Len(ThreadSeq)
  PROVE  /\ ThreadSeq[i] \in Threads /\ ThreadSeq[i] \notin First(i - 1)
         /\ First(i) = First(i - 1) \cup {ThreadSeq[i]} /\ First(i) \subseteq Threads
<1>1. /\ ThreadSeq \in Seq(Threads) /\ Len(ThreadSeq) \in Nat
      /\ DOMAIN ThreadSeq = 1 .. Len(ThreadSeq)
  BY SafeEventsAssumption, LenProperties
<1>2. ThreadSeq[i] \in Threads /\ i \in DOMAIN ThreadSeq
  BY <1>1, ElementOfSeq
<1>3. \A m \in 1 .. i - 1 : m \in 1 .. i /\ m # i /\ m \in DOMAIN ThreadSeq
  BY <1>1
<1>4. \A m \in 1 .. i : m = i \/ m \in 1 .. i - 1
  BY <1>1
<1>5. i \in 1 .. i
  BY <1>1
<1>6. ThreadSeq[i] \notin First(i - 1)
  BY <1>2, <1>3, SafeEventsAssumption DEF First, IsInjective
<1>7. First(i) = First(i - 1) \cup {ThreadSeq[i]}
  BY <1>2, <1>3, <1>4, <1>5 DEF First
<1> QED
  BY <1>2, <1>6, <1>7 DEF First

\* The pass visits every thread.
LEMMA FirstAll == First(Len(ThreadSeq)) = Threads
<1>1. DOMAIN ThreadSeq = 1 .. Len(ThreadSeq)
  BY SafeEventsAssumption, LenProperties
<1> QED
  BY <1>1 DEF First, Threads, Range

\* A thread more has been visited.
LEMMA ScannedMore ==
  ASSUME NEW r, NEW i \in 1 .. Len(ThreadSeq), NEW x, ScannedTo(0, i - 1, r, x)
  PROVE  ScannedTo(0, i, r, ScanStep(0, x, ThreadSeq[i]))
<1> DEFINE t == ThreadSeq[i]
           y == ScanThread(x, t)
<1>1. SUFFICES ASSUME Shape(r), r.pids = 0
               PROVE  ScannedTo(0, i, r, ScanStep(0, x, t))
  BY DEF ScannedTo
<1>2. ScanStep(0, x, t) = y
  <2> DEFINE After(q) == ScanThread(q, t)
  <2>1. ASSUME NEW w PROVE Strict(LAMBDA q : After(q), w) = After(w)
    <3> HIDE DEF After
    <3> QED BY Zenon DEF Strict
  <2>2. ScanStep(0, x, t) = Strict(LAMBDA q : After(q), x)
    BY Zenon DEF ScanStep, ScanNext
  <2> QED
    BY Zenon, <2>1, <2>2
<1>3. /\ t \in Threads /\ t \notin First(i - 1) /\ First(i) = First(i - 1) \cup {t}
      /\ First(i) \subseteq Threads
  BY FirstMore
<1> HIDE DEF t
<1>4. /\ Around(r, x) /\ Shape(x) /\ x.pids = Cardinality(Seen(x, i - 1)) /\ x.list = r.list
      /\ \A u \in First(i - 1) : Passed(r.list, u, r.ctx[u], x.ctx[u])
      /\ \A u \in Threads \ First(i - 1) : Alike(r.ctx[u], x.ctx[u])
  BY <1>1 DEF ScannedTo, Around, Same
<1>5. /\ Around(x, y) /\ ButFor(x, y, t) /\ Passed(x.list, t, x.ctx[t], y.ctx[t])
      /\ y.pids = x.pids + One(y.ctx[t].linked /\ y.ctx[t].pending_safe_event)
  BY <1>3, <1>4, ScanOne
<1> HIDE DEF y
<1>6. Around(r, y)
  BY <1>4, <1>5, AroundTwice
<1>7. \A u \in First(i - 1) : u \in Threads \ {t} /\ Alike(x.ctx[u], y.ctx[u])
  BY <1>3, <1>5 DEF ButFor
<1>8. ASSUME NEW u \in First(i) PROVE Passed(r.list, u, r.ctx[u], y.ctx[u])
  <2>1. CASE u = t
    BY <1>3, <1>4, <1>5, <2>1, AlikePassed
  <2>2. CASE u \in First(i - 1)
    BY <1>4, <1>7, <2>2, PassedAlike
  <2> QED
    BY <1>3, <2>1, <2>2
<1>9. ASSUME NEW u \in Threads \ First(i) PROVE Alike(r.ctx[u], y.ctx[u])
  BY <1>3, <1>4, <1>5, AlikeTwice DEF ButFor
<1>10. y.pids = Cardinality(Seen(y, i))
  <2> DEFINE B == Seen(x, i - 1)
             on == y.ctx[t].linked /\ y.ctx[t].pending_safe_event
  <2>1. Seen(y, i) = IF on THEN B \cup {t} ELSE B
    <3>1. \A u \in First(i - 1) :
            y.ctx[u].linked /\ y.ctx[u].pending_safe_event
              <=> x.ctx[u].linked /\ x.ctx[u].pending_safe_event
      BY <1>7 DEF Alike, Kept
    <3> QED
      BY <1>3, <3>1 DEF Seen
  <2>2. B \in SUBSET Threads /\ t \notin B
    BY <1>3 DEF Seen
  <2>3. IsFiniteSet(B) /\ Cardinality(B) \in Nat
    BY <2>2, ThreadsFinite
  <2>4. Cardinality(B \cup {t}) = Cardinality(B) + 1
    BY <2>2, <2>3, FS_AddElement
  <2>5. x.pids = Cardinality(B) /\ y.pids = x.pids + One(on)
    BY <1>4, <1>5
  <2> HIDE DEF B, on
  <2> QED
    BY <2>1, <2>3, <2>4, <2>5 DEF One
<1>11. ScannedTo(0, i, r, y)
  BY <1>6, <1>8, <1>9, <1>10 DEF ScannedTo
<1> QED
  BY <1>2, <1>11 DEF t

\* The pass, for a state with the counter reset.
LEMMA ScanFacts ==
  ASSUME NEW r, Shape(r), r.pids = 0
  PROVE  LET q == FoldLeft(ScanNext, r, ThreadSeq)
         IN  /\ Around(r, q)
             /\ q.pids = Cardinality({t \in Threads : r.ctx[t].linked /\ q.ctx[t].pending_safe_event})
             /\ \A t \in Threads : Passed(r.list, t, r.ctx[t], q.ctx[t])
<1> DEFINE q == FoldLeft(ScanNext, r, ThreadSeq)
           v == Scanning!Fold(0, r, ThreadSeq)
<1>1. q = v
  BY Zenon DEF ScanStep, Scanning!Fold, FoldLeft, Scanning!FoldLeft, MapThenFoldSet,
               Scanning!MapThenFoldSet, Max, Scanning!Max
<1>2. First(0) = {}
  BY DEF First
<1>3. ScannedTo(0, 0, r, r)
  <2>1. Quiet(r, r)
    BY QuietSame
  <2>2. Seen(r, 0) = {}
    BY <1>2 DEF Seen
  <2>3. Cardinality({}) = 0
    BY FS_EmptySet
  <2> QED
    BY <1>2, <2>1, <2>2, <2>3 DEF ScannedTo, Quiet, AllAlike
<1>4. \A i \in 1 .. Len(ThreadSeq) : \A x :
        ScannedTo(0, i - 1, r, x) => ScannedTo(0, i, r, ScanStep(0, x, ThreadSeq[i]))
  BY ScannedMore
<1>5. ThreadSeq \in Seq(Threads)
  BY SafeEventsAssumption
<1>6. ScannedTo(0, Len(ThreadSeq), r, v)
  BY <1>3, <1>4, <1>5, Scanning!FoldKeeps
<1> HIDE DEF v, q
<1>7. /\ Around(r, v) /\ v.pids = Cardinality(Seen(v, Len(ThreadSeq)))
      /\ \A t \in Threads : Passed(r.list, t, r.ctx[t], v.ctx[t])
  BY <1>6, FirstAll DEF ScannedTo
<1>8. Seen(v, Len(ThreadSeq)) = {t \in Threads : r.ctx[t].linked /\ v.ctx[t].pending_safe_event}
  BY <1>7, FirstAll DEF Seen, Passed, Tamer
<1>9. /\ Around(r, q)
      /\ q.pids = Cardinality({t \in Threads : r.ctx[t].linked /\ q.ctx[t].pending_safe_event})
      /\ \A t \in Threads : Passed(r.list, t, r.ctx[t], q.ctx[t])
  BY <1>1, <1>7, <1>8
<1> QED
  BY <1>9 DEF q

\* After the pass every thread that moves although its group has to stop is
\* waited for, and groups are marked as a whole.
LEMMA ScannedGood ==
  ASSUME NEW r, Good(r), r.run = <<>>, NEW y, Around(r, y),
         y.pids = Cardinality({t \in Threads : r.ctx[t].linked /\ y.ctx[t].pending_safe_event}),
         \A t \in Threads : Passed(r.list, t, r.ctx[t], y.ctx[t])
  PROVE  Good([y EXCEPT !.pc = "loop"])
<1> DEFINE q == [y EXCEPT !.pc = "loop"]
<1>1. Shape(r) /\ Shape(y) /\ GenBase(r) /\ Holding(r, 0, 0, {}) /\ ~r.active
  BY DEF Good, Holding, GenOK, Around, RestOK
<1>2. /\ q.pc = "loop" /\ DOMAIN q = DOMAIN y
      /\ \A g \in StateFields \ {"pc"} : q[g] = y[g]
  BY <1>1 DEF Shape, StateFields
<1> HIDE DEF q
<1>3. Shape(q)
  BY <1>1, <1>2 DEF Shape, ThreadShape, StateFields
<1>4. /\ q.ctx = y.ctx /\ q.pids = y.pids /\ q.list = r.list /\ q.bi = r.bi
      /\ q.active = r.active /\ q.run = r.run /\ SameClients(y, q) /\ SameRound(y, q)
      /\ q.queue = y.queue /\ q.gen_posted = y.gen_posted /\ q.evals_posted = y.evals_posted
      /\ q.list = y.list /\ q.lock = y.lock /\ q.cache_lock = y.cache_lock
  BY <1>2 DEF StateFields, SameClients, SameRound, SameCtl, Around, Same
<1>5. /\ q.gen_posted = r.gen_posted /\ q.gen_done = r.gen_done /\ q.gen_done = y.gen_done
  BY <1>4 DEF Around, Same, SameRound
<1>6. LockOK(y, 0) /\ GenOK(y, 0) /\ Theirs(y)
  BY <1>1, AroundAsks, BooksKept DEF Holding
<1>7. LockOK(q, 0) /\ GenOK(q, 0) /\ Theirs(q)
  BY <1>4, <1>5, <1>6, LockFrame, RoundFrame
<1>8. \A t \in Threads : Tamer(r.ctx[t], q.ctx[t])
  BY <1>4 DEF Passed
<1>9. BreakOK(q) /\ SteppingOK(q, {})
  BY <1>1, <1>4, <1>5, <1>8, BreakKept, SteppingKept DEF Holding, Tamer
<1>10. \A t \in Threads : r.ctx[t].pending_safe_event => r.ctx[t].linked
  BY <1>1 DEF Holding, PendingOK, Waits
<1>11. \A t \in Threads : r.ctx[t].stop_group_mark => r.ctx[t].linked
  BY <1>1 DEF Holding, LoopOK
<1>12. PendingOK(q)
  <2>1. Waits(q) = {t \in Threads : r.ctx[t].linked /\ y.ctx[t].pending_safe_event}
    BY <1>4, <1>10 DEF Waits, Passed
  <2>2. \A t \in Waits(q) : q.ctx[t].linked /\ ~q.ctx[t].stopped /\ ~q.ctx[t].exited
    BY <1>4, <2>1 DEF Passed, Tamer
  <2> QED
    BY <1>4, <2>1, <2>2 DEF PendingOK
<1>13. LoopOK(q)
  <2>1. \A t \in Threads : (q.ctx[t].linked <=> r.ctx[t].linked)
    BY <1>8 DEF Tamer
  <2>2. \A t \in Threads : q.ctx[t].stop_group_mark =>
          r.ctx[t].linked /\ \E i \in DOMAIN r.list : r.list[i].grp = ProcOf[t]
    BY <1>4, <1>11 DEF Passed
  <2>3. \A t \in Threads : Moves(q.ctx[t]) => t \in Waits(q)
    BY <1>4, <2>2 DEF Moves, Passed, Waits
  <2>4. \A t, u \in Threads :
          ProcOf[t] = ProcOf[u] /\ q.ctx[u].linked /\ q.ctx[t].stop_group_mark
            => q.ctx[u].stop_group_mark
    BY <1>4, <2>1, <2>2 DEF Passed
  <2> QED
    BY <2>1, <2>2, <2>3, <2>4 DEF LoopOK
<1>14. SyncOK(q)
  BY <1>2 DEF SyncOK
<1>15. Good(q)
  BY <1>1, <1>3, <1>4, <1>7, <1>9, <1>12, <1>13, <1>14 DEF Good, Holding, RestOK
<1> QED
  BY <1>15 DEF q

\* ScanThreads
LEMMA ScanGood ==
  ASSUME NEW r, Good(r), r.run = <<>>
  PROVE  Good([ScanThreads(r) EXCEPT !.pc = "loop"])
<1> DEFINE a == [r EXCEPT !.pids = 0]
           f == FoldLeft(ScanNext, a, ThreadSeq)
           s == [f EXCEPT !.tcnt = 0]
           n == [s EXCEPT !.timer = FALSE]
           y == ScanThreads(r)
<1>1. y = n \/ y = f
  <2> DEFINE After(q) == IF q.pids = 0 THEN [q EXCEPT !.tcnt = 0, !.timer = FALSE] ELSE q
  <2>1. ASSUME NEW w PROVE Strict(LAMBDA q : After(q), w) = After(w)
    <3> HIDE DEF After
    <3> QED BY Zenon DEF Strict
  <2>2. y = Strict(LAMBDA q : After(q), f)
    BY Zenon DEF ScanThreads
  <2> HIDE DEF f, y
  <2>3. y = After(f)
    BY Zenon, <2>1, <2>2
  <2> QED
    BY Zenon, <2>3
<1>2. Shape(r)
  BY DEF Good, Holding
<1>3. Around(r, a) /\ a.pids = 0 /\ a.ctx = r.ctx
  BY <1>2, NewPids
<1> HIDE DEF a
<1>4. /\ Around(a, f)
      /\ f.pids = Cardinality({t \in Threads : a.ctx[t].linked /\ f.ctx[t].pending_safe_event})
      /\ \A t \in Threads : Passed(a.list, t, a.ctx[t], f.ctx[t])
  <2>1. Shape(a)
    BY <1>3 DEF Around
  <2> HIDE DEF f
  <2> QED
    BY <1>3, <2>1, ScanFacts DEF f
<1> HIDE DEF f
<1>5. Quiet(f, f) /\ Quiet(f, n)
  <2>1. Shape(f)
    BY <1>4 DEF Around
  <2>2. "tcnt" \notin StateFields /\ "timer" \notin StateFields
    BY DEF StateFields
  <2>3. Quiet(f, s)
    BY <2>1, <2>2, Aside
  <2> HIDE DEF s
  <2>4. Quiet(s, n)
    BY <2>2, <2>3, Aside DEF Quiet, Around
  <2> HIDE DEF n
  <2> QED
    BY <2>1, <2>3, <2>4, QuietSame, QuietTwice
<1> HIDE DEF n, y
<1>6. Quiet(f, y)
  BY <1>1, <1>5
<1>7. a.list = r.list
  BY <1>3 DEF Around, Same
<1>8. Around(r, y)
  BY <1>3, <1>4, <1>6, AroundTwice DEF Quiet
<1>9. \A t \in Threads : Alike(f.ctx[t], y.ctx[t])
  BY <1>6 DEF Quiet, AllAlike
<1>10. \A t \in Threads : Passed(r.list, t, r.ctx[t], y.ctx[t])
  BY <1>3, <1>4, <1>7, <1>9, PassedAlike
<1>11. y.pids = Cardinality({t \in Threads : r.ctx[t].linked /\ y.ctx[t].pending_safe_event})
  <2>1. {t \in Threads : r.ctx[t].linked /\ y.ctx[t].pending_safe_event}
          = {t \in Threads : a.ctx[t].linked /\ f.ctx[t].pending_safe_event}
    BY <1>3, <1>9 DEF Alike
  <2> QED
    BY <1>4, <1>6, <2>1 DEF Quiet
<1>12. Good([y EXCEPT !.pc = "loop"])
  BY <1>8, <1>10, <1>11, ScannedGood
<1> QED
  BY <1>12 DEF y

\* RunSafeEvents keeps the invariant.
LEMMA RunSafeEventsKeeps == ASSUME RInv, RunSafeEvents PROVE RInv'
<1> DEFINE v == Tail(rc.queue)
           a == [rc EXCEPT !.queue = v]
           n == a.posted - 1
           r == [a EXCEPT !.posted = n]
           b == Post(r, "sync", 0)
           k == b.sposted + 1
           s == [b EXCEPT !.sposted = k]
<1>1. Good(rc) /\ Shape(rc)
  BY DEF RInv, Good, Holding
<1>2. /\ rc.pc = "idle" /\ rc.run = <<>> /\ rc.queue # <<>>
      /\ rc' = r \/ rc' = s \/ rc' = [ScanThreads(r) EXCEPT !.pc = "loop"]
  BY Zenon DEF RunSafeEvents, HeadIs, Idle, Become, PopEvent
<1>3. rc.queue \in Seq(Event) /\ QueueKept(rc.queue, v) /\ v \in Seq(Event)
  BY <1>1, <1>2, QueueTail DEF Shape, QueueKept
<1> HIDE DEF v
<1>4. a.queue = v /\ DOMAIN a = DOMAIN rc /\ \A g \in StateFields \ {"queue"} : a[g] = rc[g]
  BY <1>1 DEF Shape, StateFields
<1> HIDE DEF a
<1>5. Shape(a)
  BY <1>1, <1>3, <1>4 DEF Shape, ThreadShape, StateFields
<1>6. Quiet(rc, a)
  BY <1>3, <1>4, <1>5 DEF Quiet, Around, Same, SameClients, SameCtl, SameRound, AllAlike, Alike,
                          Kept, StateFields
<1>7. "posted" \notin StateFields /\ "sposted" \notin StateFields
  BY DEF StateFields
<1> HIDE DEF n
<1>8. Quiet(a, r)
  BY <1>5, <1>7, Aside
<1> HIDE DEF r
<1>9. Quiet(rc, r) /\ Shape(r)
  BY <1>6, <1>8, QuietTwice DEF Quiet, Around
<1>10. Good(r) /\ r.run = <<>>
  BY <1>1, <1>2, <1>9, QuietGood DEF Quiet, Around, Same, SameClients
<1>11. Good(s)
  <2>1. 0 \in Nat
    OBVIOUS
  <2>2. Quiet(r, b)
    BY <1>9, <2>1, PostQuiet
  <2> HIDE DEF b, k
  <2>3. Quiet(b, s)
    BY <1>7, <2>2, Aside DEF Quiet, Around
  <2> HIDE DEF s
  <2> QED
    BY <1>10, <2>2, <2>3, QuietGood
<1>12. Good([ScanThreads(r) EXCEPT !.pc = "loop"])
  BY <1>10, ScanGood
<1> HIDE DEF s
<1> QED
  BY <1>2, <1>10, <1>11, <1>12 DEF RInv

-----------------------------------------------------------------------------
(* The invariant holds, and what follows from it.                          *)

\* The records of the first state.
LEMMA InitFields ==
  ASSUME Init
  PROVE  /\ StateFields \subseteq DOMAIN rc /\ DOMAIN rc.ctx = Threads
         /\ \A t \in Threads :
              /\ ThreadFields \subseteq DOMAIN rc.ctx[t]
              /\ ~rc.ctx[t].pending_safe_event /\ ~rc.ctx[t].stop_group_mark
              /\ ~rc.ctx[t].stepping_over /\ rc.ctx[t].k = "run"
         /\ \A f \in {"list", "queue", "waiting", "missed", "run", "evals_posted",
                      "evals_active"} : rc[f] = <<>>
         /\ \A f \in {"lock", "pids", "gen_posted", "gen_active", "gen_done", "enter_cnt"} :
              rc[f] = 0
         /\ rc.active = FALSE /\ rc.cache_lock = FALSE /\ rc.pc = "idle" /\ rc.sync = NoSync
         /\ rc.bi = [p \in Procs |-> NewInstruction]
<1>1. ASSUME NEW t \in Threads
      PROVE  LET d == [NewThread EXCEPT !.linked = t \in Initial]
             IN  /\ ThreadFields \subseteq DOMAIN d /\ ~d.pending_safe_event
                 /\ ~d.stop_group_mark /\ ~d.stepping_over /\ d.k = "run"
  BY DEF NewThread, ThreadFields
<1>2. /\ rc.ctx = [t \in Threads |-> [NewThread EXCEPT !.linked = t \in Initial]]
      /\ StateFields \subseteq DOMAIN rc
      /\ rc.list = <<>> /\ rc.queue = <<>> /\ rc.waiting = <<>> /\ rc.missed = <<>>
      /\ rc.run = <<>> /\ rc.evals_posted = <<>> /\ rc.evals_active = <<>>
      /\ rc.lock = 0 /\ rc.pids = 0 /\ rc.gen_posted = 0 /\ rc.gen_active = 0
      /\ rc.gen_done = 0 /\ rc.enter_cnt = 0
      /\ rc.active = FALSE /\ rc.cache_lock = FALSE /\ rc.pc = "idle" /\ rc.sync = NoSync
      /\ rc.bi = [p \in Procs |-> NewInstruction]
  BY DEF Init, StateFields
<1> QED
  BY <1>1, <1>2

\* At first nothing is waited for and nobody holds the lock.
LEMMA InitGood == Init => RInv
<1>1. SUFFICES ASSUME Init PROVE Good(rc)
  BY DEF RInv
<1>2. /\ StateFields \subseteq DOMAIN rc /\ DOMAIN rc.ctx = Threads
      /\ \A t \in Threads :
           /\ ThreadFields \subseteq DOMAIN rc.ctx[t]
           /\ ~rc.ctx[t].pending_safe_event /\ ~rc.ctx[t].stop_group_mark
           /\ ~rc.ctx[t].stepping_over /\ rc.ctx[t].k = "run"
  BY <1>1, InitFields
<1>3. /\ rc.list = <<>> /\ rc.queue = <<>> /\ rc.waiting = <<>> /\ rc.missed = <<>>
      /\ rc.run = <<>> /\ rc.evals_posted = <<>> /\ rc.evals_active = <<>>
      /\ rc.lock = 0 /\ rc.pids = 0 /\ rc.gen_posted = 0 /\ rc.gen_active = 0
      /\ rc.gen_done = 0 /\ rc.enter_cnt = 0
      /\ rc.active = FALSE /\ rc.cache_lock = FALSE /\ rc.pc = "idle" /\ rc.sync = NoSync
  BY <1>1, InitFields
<1>4. /\ rc.bi \in [Procs -> InstructionT]
      /\ \A p \in Procs : /\ ~rc.bi[p].planted /\ rc.bi[p].stepping = 0 /\ rc.bi[p].valid
                          /\ rc.bi[p].ref = "none"
  <2>1. rc.bi = [p \in Procs |-> NewInstruction]
    BY <1>1, InitFields
  <2>2. /\ NewInstruction \in InstructionT
        /\ ~NewInstruction.planted /\ NewInstruction.stepping = 0 /\ NewInstruction.valid
        /\ NewInstruction.ref = "none"
    BY DEF NewInstruction, InstructionT
  <2> QED
    BY <2>1, <2>2
<1>5. Shape(rc)
  <2>1. ThreadShape(rc)
    BY <1>2 DEF ThreadShape, StateFields
  <2>2. \A S : <<>> \in Seq(S)
    OBVIOUS
  <2>3. SyncFields \subseteq DOMAIN rc.sync /\ rc.sync.todo = <<>> /\ rc.sync.others = <<>>
    BY <1>3 DEF NoSync, SyncFields
  <2> QED
    BY <1>2, <1>3, <1>4, <2>1, <2>2, <2>3 DEF Shape
<1>6. \A T : Clients(rc, T) = 0
  BY <1>3, PlacesEmpty DEF Clients
<1>7. Waits(rc) = {} /\ Cardinality({}) = 0
  BY <1>2, FS_EmptySet DEF Waits
<1>8. PendingOK(rc) /\ LoopOK(rc) /\ SyncOK(rc)
  BY <1>2, <1>3, <1>7 DEF PendingOK, LoopOK, SyncOK
<1>9. LockOK(rc, 0) /\ GenOK(rc, 0)
  <2>1. Len(rc.list) = 0
    BY <1>3
  <2>2. QueueOK(rc.queue, 0, 0)
    BY <1>3 DEF QueueOK
  <2> QED
    BY <1>3, <1>6, <2>1, <2>2 DEF LockOK, GenOK, GenBase, One
<1>10. Theirs(rc)
  <2>1. Range(<<>>) = {}
    BY DEF Range
  <2> QED
    BY <1>3, <2>1 DEF Theirs
<1>11. SteppingOK(rc, {})
  <2>1. \A p \in Procs : Over(rc, p) = {}
    BY <1>2 DEF Over, ThreadsOf
  <2>2. \A t \in Threads : Cardinality(Places(rc.list, Goes(t))) = 0
    BY <1>3, PlacesEmpty
  <2> QED
    BY <1>2, <1>4, <1>7, <2>1, <2>2 DEF SteppingOK, One
<1>12. BreakOK(rc)
  <2>1. \A t \in Threads : TrapOK(rc.ctx[t]) /\ ~Trapped(rc.ctx[t])
    BY <1>2 DEF TrapOK, Trapped
  <2>2. \A p \in Procs : InstructionOK(rc, p)
    BY <1>4, <2>1 DEF InstructionOK, ThreadsOf
  <2> QED
    BY <2>1, <2>2 DEF BreakOK
<1> QED
  BY <1>3, <1>5, <1>8, <1>9, <1>10, <1>11, <1>12 DEF Good, Holding, RestOK

\* Every step keeps the invariant.
LEMMA NextKeeps == RInv /\ [Next]_vars => RInv'
<1>1. SUFFICES ASSUME RInv, [Next]_vars PROVE RInv'
  OBVIOUS
<1>2. CASE UNCHANGED vars
  BY <1>1, <1>2 DEF RInv, vars
<1>3. CASE Dispatch
  BY <1>1, <1>3, RunSafeEventsKeeps, SafeEventLoopKeeps, ReplantKeeps, ClientStepKeeps,
     SyncStartKeeps, SyncFlagKeeps, SyncMoveKeeps, SyncOthersKeeps, SyncEndKeeps DEF Dispatch
<1>4. CASE StopAllTimer
  <2>1. PICK t \in Threads : TRUE
    BY RunCtrlAssumption
  <2> QED
    BY <1>1, <1>4, <2>1, AsksKeep
<1>5. CASE RetrySync
  BY <1>1, <1>5, SyncStartKeeps
<1>6. CASE RetryClient
  BY <1>1, <1>6, RetryClientKeeps
<1>7. CASE Commands
  BY <1>1, <1>7, CommandsKeep
<1>8. CASE Kernel
  BY <1>1, <1>8, KernelKeeps
<1> QED
  BY <1>1, <1>2, <1>3, <1>4, <1>5, <1>6, <1>7, <1>8 DEF Next

\* The inductive invariant of run control and the breakpoints service holds in
\* every state of every behaviour.
THEOREM RunControlSound == Spec => []RInv
BY InitGood, NextKeeps, PTL DEF Spec

\* The counters that the clients see are those of the invariant.
LEMMA GoodCounts == RInv => CountersExact
<1>1. SUFFICES ASSUME Holding(rc, 0, 0, {}) PROVE CountersExact
  BY DEF RInv, Good
<1>2. Shape(rc) /\ PendingOK(rc) /\ LockOK(rc, 0) /\ SteppingOK(rc, {})
  BY <1>1 DEF Holding
<1>3. PendingExact
  BY <1>2 DEF PendingExact, PendingOK, Waits
<1>4. LockExact
  <2> DEFINE a == rc.run
             b == rc.waiting
             c == rc.missed
             q == a \o b \o c
  <2>1. a \in Seq(ClientT) /\ b \in Seq(ClientT) /\ c \in Seq(ClientT)
    BY <1>2 DEF Shape
  <2>2. a \o b \in Seq(ClientT)
    BY <2>1, ConcatProperties
  <2>3. q \in Seq(ClientT)
    BY <2>1, <2>2, ConcatProperties
  <2>4. Cardinality(Places(q, Mem)) = Cardinality(Places(a \o b, Mem)) + Cardinality(Places(c, Mem))
    BY <2>1, <2>2, PlacesConcat
  <2>5. Cardinality(Places(a \o b, Mem)) = Cardinality(Places(a, Mem)) + Cardinality(Places(b, Mem))
    BY <2>1, PlacesConcat
  <2>6. Cardinality(Places(q, Mem)) = Clients(rc, Mem)
    BY <2>4, <2>5, Zenon DEF Clients
  <2> HIDE DEF q
  <2>7. {i \in DOMAIN q : q[i].client = "memory"} = Places(q, Mem)
    <3>1. \A i \in DOMAIN q : q[i] \in ClientT
      BY <2>3, ElementOfSeq, LenProperties
    <3> QED
      BY <3>1 DEF Places, Mem
  <2>8. Clients(rc, Mem) \in Nat /\ Len(rc.list) \in Nat
    BY <1>2, ClientsNat, LenProperties DEF Shape
  <2> DEFINE x == One(rc.cache_lock)
             y == One(rc.gen_posted # rc.gen_done)
             n == Cardinality({i \in DOMAIN q : q[i].client = "memory"})
  <2>9. x \in Nat /\ y \in Nat
    BY DEF One
  <2>10. rc.lock = Len(rc.list) + x + y + Clients(rc, Mem) + 0
    BY <1>2, Zenon DEF LockOK
  <2>11. n = Clients(rc, Mem)
    BY <2>6, <2>7, Zenon
  <2> HIDE DEF x, y, n
  <2>12. rc.lock = Len(rc.list) + x + y + n
    BY <2>8, <2>9, <2>10, <2>11
  <2> QED
    BY <2>12, Zenon DEF LockExact, One, x, y, n, q
<1>5. SteppingExact
  <2>1. \A i \in DOMAIN rc.list : rc.list[i] \in Item
    BY <1>2, ElementOfSeq, LenProperties DEF Shape
  <2>2. ASSUME NEW t \in Threads
        PROVE  {i \in DOMAIN rc.list : rc.list[i].done \in {"skip", "restore"} /\ rc.list[i].arg = t}
                 = Places(rc.list, Goes(t))
    BY <2>1 DEF Places, Goes
  <2>3. \A t \in Threads :
          Cardinality(Places(rc.list, Goes(t))) = IF rc.ctx[t].stepping_over THEN 1 ELSE 0
    <3>1. \A t \in Threads : Cardinality(Places(rc.list, Goes(t))) \in Nat
      BY <1>2, PlacesFinite DEF Shape
    <3> QED
      BY <1>2, <3>1 DEF SteppingOK, One
  <2>4. \A p \in Procs :
          rc.bi[p].stepping = Cardinality({t \in ThreadsOf(p) : rc.ctx[t].stepping_over})
    BY <1>2 DEF SteppingOK, Over
  <2> QED
    BY <2>2, <2>3, <2>4 DEF SteppingExact
<1> QED
  BY <1>3, <1>4, <1>5 DEF CountersExact

\* safe_event_pid_count is the number of threads that are waited for,
\* run_ctrl_lock_cnt the number of those who hold the lock, and stepping_over_bp
\* the number of threads on their way over the breakpoint, each of which has
\* exactly one safe event waiting; whatever services and the kernel do in between.
THEOREM CountersAreExact == Spec => []CountersExact
BY RunControlSound, GoodCounts, PTL

\* The next safe event runs on threads that stand still.
LEMMA GoodStops == RInv => SafeWhenStopped
<1>1. SUFFICES ASSUME RInv, rc.pc = "loop", CanRunSafeEvent(rc)
               PROVE  IsAllStopped(rc, Head(rc.list).grp)
  BY DEF SafeWhenStopped
<1>2. Holding(rc, 0, 0, {}) /\ rc.list \in Seq(Item)
  BY <1>1 DEF RInv, Good, Holding, Shape
<1>3. /\ rc.list # <<>> /\ rc.pids = 0
      /\ \E t \in ThreadsOf(Head(rc.list).grp) : rc.ctx[t].stop_group_mark
  BY <1>1 DEF CanRunSafeEvent, Marked
<1>4. Head(rc.list) \in Item
  BY <1>2, <1>3, HeadTailProperties
<1>5. Head(rc.list).grp \in Procs
  BY <1>4 DEF Item
<1> QED
  BY <1>1, <1>2, <1>3, <1>5, LoopStopped

\* A safe event runs only when every thread of its group stands still
\* (assert_all_stopped in run_safe_events), also when an event before it in the
\* list has started a thread.
THEOREM SafeEventsFindThreadsStopped == Spec => []SafeWhenStopped
BY RunControlSound, GoodStops, PTL

\* The breakpoint in the invariant.
LEMMA GoodBreaks == RInv => TrapRecognised /\ NoMissedBreakpoint
<1>1. SUFFICES ASSUME BreakOK(rc) PROVE TrapRecognised /\ NoMissedBreakpoint
  BY DEF RInv, Good, Holding
<1>2. ASSUME NEW t \in Threads
      PROVE  /\ Trapped(rc.ctx[t]) => rc.bi[ProcOf[t]].exists /\ rc.bi[ProcOf[t]].planted
             /\ Loose(rc.ctx[t]) => (rc.bi[ProcOf[t]].ref = "live" => rc.bi[ProcOf[t]].planted)
  <2>1. ProcOf[t] \in Procs /\ t \in ThreadsOf(ProcOf[t])
    BY ThreadsFinite
  <2> QED
    BY <1>1, <2>1 DEF BreakOK, InstructionOK
<1> QED
  BY <1>2 DEF TrapRecognised, NoMissedBreakpoint, Trapped, Loose

\* A break instruction stays in memory and is known until the report of a thread
\* that has executed it is handled (is_breakpoint_address in event_pid_stopped),
\* however late that is.
THEOREM TrapsAreRecognised == Spec => []TrapRecognised
BY RunControlSound, GoodBreaks, PTL

\* While the break instruction is out of memory to let a thread step over it, no
\* other thread of the process runs (safe_skip_breakpoint,
\* safe_restore_breakpoint): none runs past a live breakpoint.
THEOREM NoBreakpointIsMissed == Spec => []NoMissedBreakpoint
BY RunControlSound, GoodBreaks, PTL
=============================================================================
