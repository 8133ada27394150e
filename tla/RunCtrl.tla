------------------------------ MODULE RunCtrl ------------------------------
(***************************************************************************)
(* Run control (agent/tcf/services/runctrl.c) with the breakpoints service *)
(* and the kernel that runs the threads.                                   *)
(*                                                                         *)
(* Services that need threads to stand still take a lock and post safe     *)
(* events, which run when the threads they are about have stopped.  When   *)
(* the lock is free sync_run_state decides for every thread whether it     *)
(* runs or stays.  All of this happens on the dispatch thread, in between  *)
(* the kernel's reports, the commands of clients and late answers to cache *)
(* misses.  rc.pc tells where a handler is that the model splits into      *)
(* steps, because its outcome depends on choices made on the way; nothing  *)
(* else happens until it is "idle" again.                                  *)
(***************************************************************************)
EXTENDS Breakpoints

CONSTANTS
  Initial,      \* threads that exist from the start
  Stimuli,      \* what comes from outside: "command", "breakpoint", "kernel"
  MaxStimuli,   \* bound: commands, changes of the breakpoint, and events of the
                \*   kernel that the agent did not cause
  MaxFaults,    \* bound: failed resumes, cache misses, step errors
  MaxTotal      \* bound: stimuli and faults together

ASSUME RunCtrlAssumption ==
  /\ Initial \subseteq Threads /\ Initial # {}
  /\ Stimuli \subseteq {"command", "breakpoint", "kernel"}
  /\ MaxStimuli \in Nat /\ MaxFaults \in Nat /\ MaxTotal \in Nat

VARIABLES
  rc,    \* the agent's state and the threads
  left   \* what is left of the bounds

vars == <<rc, left>>

NoSync == [todo |-> <<>>, flagged |-> {}, others |-> <<>>, err |-> FALSE]

\* posted, sposted: run_safe_events_posted, sync_run_state_event_posted;
\* pids: safe_event_pid_count; tcnt, timer: stop_all_timer_cnt and _posted;
\* waiting: clients of safe_events_cache; missed: clients that wait for other
\* data; sync_missed: sync clients that do; run: clients about to be called.
Init ==
  /\ rc = [ctx |-> [t \in Threads |-> [NewThread EXCEPT !.linked = t \in Initial]],
           list |-> <<>>, active |-> FALSE, lock |-> 0, pids |-> 0, tcnt |-> 0,
           timer |-> FALSE, posted |-> 0, sposted |-> 0, queue |-> <<>>,
           waiting |-> <<>>, missed |-> <<>>, sync_missed |-> 0, run |-> <<>>,
           pc |-> "idle", sync |-> NoSync, cache_lock |-> FALSE,
           bp |-> "none", bi |-> [p \in Procs |-> NewInstruction],
           gen_posted |-> 0, gen_active |-> 0, gen_done |-> 0, enter_cnt |-> 0,
           evals_posted |-> <<>>, evals_active |-> <<>>,
           loc_posted |-> [p \in Procs |-> FALSE], loc_active |-> [p \in Procs |-> FALSE],
           conds |-> [p \in Procs |-> {}], cond_ok |-> [p \in Procs |-> {}]]
  /\ left = [stimuli |-> MaxStimuli, faults |-> MaxFaults]

Idle == rc.pc = "idle" /\ rc.run = <<>>
Room == (MaxStimuli - left.stimuli) + (MaxFaults - left.faults) < MaxTotal
Stimulus(kind) == /\ kind \in Stimuli /\ left.stimuli > 0 /\ Room
                  /\ left' = [left EXCEPT !.stimuli = @ - 1]
Fault == left.faults > 0 /\ Room /\ left' = [left EXCEPT !.faults = @ - 1]
Become(r) == \E q \in {r} : rc' = q

HeadIs(e) == Idle /\ rc.queue # <<>> /\ Head(rc.queue).ev = e
PopEvent == [rc EXCEPT !.queue = Tail(@)]
-----------------------------------------------------------------------------
(* run_safe_events                                                         *)

\* mark_cannot_stop
mark_cannot_stop(r, t) == [cancel_step_mode(r, t) EXCEPT
                             !.ctx[t].safe_single_step = FALSE, !.ctx[t].cannot_stop = TRUE]

\* The pass over all threads, for one of them: stop what has to stop.
ScanThread(r, t) ==
  LET c == r.ctx[t]
      mark == \E i \in DOMAIN r.list : r.list[i].grp = ProcOf[t]
      q == [r EXCEPT !.ctx[t].pending_safe_event = FALSE, !.ctx[t].stop_group_mark = mark]
      wait(x) == [x EXCEPT !.ctx[t].pending_safe_event = TRUE, !.pids = @ + 1]
  IN IF ~c.linked THEN r
     ELSE IF \/ c.exited \/ c.exiting \/ c.cannot_stop \/ c.stopped
             \/ ~c.safe_single_step /\ ~mark
     THEN q
     ELSE IF r.tcnt >= StopAllMax THEN mark_cannot_stop(q, t)
     ELSE IF c.safe_single_step /\ r.tcnt < StopAllMax \div 2 THEN wait(q)
     ELSE wait(context_stop(q, t))

ScanNext(r, t) == Strict(LAMBDA q : ScanThread(q, t), r)

ScanThreads(r) ==
  Strict(LAMBDA q : IF q.pids = 0 THEN [q EXCEPT !.tcnt = 0, !.timer = FALSE] ELSE q,
         FoldLeft(ScanNext, [r EXCEPT !.pids = 0], ThreadSeq))

RunSafeEvents ==
  /\ HeadIs("safe")
  /\ \E r \in {[PopEvent EXCEPT !.posted = @ - 1]} :
       Become(IF r.posted > 0 \/ (r.lock > 0 /\ r.list = <<>>) THEN r
              ELSE IF r.lock = 0 THEN [Post(r, "sync", 0) EXCEPT !.sposted = @ + 1]
              ELSE [ScanThreads(r) EXCEPT !.pc = "loop"])
  /\ UNCHANGED left

\* terminate_context_tree of a thread.
event_terminate(r, t) ==
  IF r.ctx[t].exited THEN r
  ELSE resume_context_tree([r EXCEPT !.ctx[t].pending_intercept = FALSE,
                                     !.ctx[t].step_mode = "terminate"], t)

RunDone(r, i, fails) == CASE i.done = "none"      -> r
                          [] i.done = "terminate" -> event_terminate(r, i.arg)
                          [] i.done = "skip"      -> safe_skip_breakpoint(r, i.arg, fails)
                          [] i.done = "restore"   -> safe_restore_breakpoint(r, i.arg, fails)

\* cache_notify(&safe_events_cache)
NotifySafeEvents(r) == [r EXCEPT !.pc = "idle", !.run = r.waiting, !.waiting = <<>>]

\* The group of an event posted by another event may not be marked yet.
Marked(r, i) == \E t \in ThreadsOf(i.grp) : r.ctx[t].stop_group_mark

\* Fault: an event runs although threads are waited for.
CanRunSafeEvent_NoWait(r) == r.list # <<>> /\ Marked(r, Head(r.list))

CanRunSafeEvent(r) == r.list # <<>> /\ Marked(r, Head(r.list)) /\ r.pids = 0

\* The event at the head of the list runs, then run_ctrl_unlock.
RunHead(r, fails) ==
  Strict(LAMBDA q : run_ctrl_unlock([q EXCEPT !.active = FALSE]),
         RunDone([r EXCEPT !.list = Tail(@), !.active = TRUE], Head(r.list), fails))

SafeEventLoop ==
  /\ rc.pc = "loop"
  /\ \/ /\ Become(
            IF CanRunSafeEvent(rc) THEN RunHead(rc, "none")
            ELSE NotifySafeEvents(
                   IF rc.list = <<>> THEN rc
                   ELSE IF ~Marked(rc, Head(rc.list))
                   THEN IF rc.posted = 0 THEN PostSafe(rc) ELSE rc
                   ELSE [rc EXCEPT !.timer = TRUE]))
        /\ UNCHANGED left
     \/ /\ CanRunSafeEvent(rc) /\ Head(rc.list).done \in {"skip", "restore"}
        /\ \E fails \in {"remove", "step"} : Become(RunHead(rc, fails))
        /\ Fault

\* Fault: the ticks are not counted.
StopAllTimer_NoCount == /\ Idle /\ rc.timer
                        /\ Become([PostSafe(rc) EXCEPT !.timer = FALSE])
                        /\ UNCHANGED left

StopAllTimer == /\ Idle /\ rc.timer
                /\ Become([PostSafe(rc) EXCEPT !.timer = FALSE, !.tcnt = @ + 1])
                /\ UNCHANGED left
-----------------------------------------------------------------------------
(* sync_run_state                                                          *)

StartSync(r) ==
  IF r.lock # 0 THEN [r EXCEPT !.pc = "end", !.sync = NoSync]
  ELSE [r EXCEPT !.tcnt = 0, !.pids = 0, !.pc = "flag",
                 !.ctx = [t \in Threads |-> [@[t] EXCEPT !.pending_safe_event = FALSE]],
                 !.sync = [NoSync EXCEPT !.todo = InOrder(LinkedThreads(r))]]

SyncRunState == HeadIs("sync") /\ Become(StartSync(PopEvent)) /\ UNCHANGED left

\* The data that a sync client or another client waited for has arrived.
RetrySync == /\ Idle /\ rc.sync_missed > 0
             /\ Become(StartSync([rc EXCEPT !.sync_missed = @ - 1])) /\ UNCHANGED left

NextThread(r) == [r EXCEPT !.sync.todo = Tail(@)]
Flag(r, t) == [r EXCEPT !.sync.flagged = @ \cup InterceptGroup(t)]
Park(r) == [r EXCEPT !.sync_missed = @ + 1, !.pc = "idle", !.sync = NoSync]

\* Set intercept group flags.  The step machine says that a step is done, goes
\* on, or has failed; or it needs data that is not there yet.
SyncFlag ==
  /\ rc.pc = "flag"
  /\ IF rc.sync.todo = <<>>
     THEN /\ Become([rc EXCEPT !.pc = "move",
                               !.sync.todo = InOrder(LinkedThreads(rc))])
          /\ UNCHANGED left
     ELSE LET t == Head(rc.sync.todo)
              c == rc.ctx[t]
              r == NextThread(rc)
          IN IF ~c.exited /\ (c.pending_intercept \/ c.intercepted)
             THEN Become(Flag(r, t)) /\ UNCHANGED left
             ELSE IF c.exited \/ ~c.stopped \/ c.step_mode # "step"
             THEN Become(r) /\ UNCHANGED left
             ELSE \/ Become(r) /\ UNCHANGED left
                  \/ /\ Become(Flag([r EXCEPT !.ctx[t].pending_intercept = TRUE], t))
                     /\ UNCHANGED left
                  \/ Become(Flag(cancel_step_mode(r, t), t)) /\ Fault
                  \/ Become(Park(rc)) /\ Fault

resume_error(r, t) ==
  [r EXCEPT !.ctx[t].pending_intercept = TRUE, !.ctx[t].stopped_by_bp = FALSE,
            !.ctx[t].stopped_by_exception = TRUE, !.sync.err = TRUE]

\* context_resume for a thread that is stopped.
context_resume(r, t, mode) ==
  IF mode = "terminate" THEN PtraceKill(r, t)
  ELSE IF NeedsSkip(r, t) THEN skip_breakpoint(r, t)
  ELSE Ptrace(r, t, mode = "step")

SyncGoesOn(r) == ~r.sync.err /\ r.lock = 0

\* Stop or continue one context.
MoveThread(r, t) ==
  LET c == r.ctx[t]
      q == [r EXCEPT !.ctx[t].pending_intercept = TRUE]
  IN IF c.exited \/ c.intercepted THEN r
     ELSE IF t \in r.sync.flagged
     THEN IF c.stopped \/ c.exiting THEN q
          ELSE [context_stop(q, t) EXCEPT !.ctx[t].pending_safe_event = TRUE, !.pids = @ + 1]
     ELSE IF ~c.stopped \/ c.pending_intercept THEN r
     ELSE IF c.step_mode # "resume" THEN [r EXCEPT !.sync.others = Append(@, t)]
     ELSE context_resume(r, t, "resume")

\* MoveThread resumes the thread, or leaves it to SyncOthers.
Resumes(r, t) == LET c == r.ctx[t] IN
  c.stopped /\ ~c.intercepted /\ ~c.pending_intercept /\ t \notin r.sync.flagged

\* check_step_breakpoint or context_resume may fail, or need data that is not
\* there yet.
SyncMove ==
  /\ rc.pc = "move"
  /\ IF rc.sync.todo = <<>> \/ ~SyncGoesOn(rc)
     THEN Become([rc EXCEPT !.pc = "others", !.sync.todo = rc.sync.others]) /\ UNCHANGED left
     ELSE LET t == Head(rc.sync.todo)
          IN \/ Become(Strict(LAMBDA r : MoveThread(r, t), NextThread(rc))) /\ UNCHANGED left
             \/ Resumes(rc, t) /\ Become(resume_error(NextThread(rc), t)) /\ Fault
             \/ Resumes(rc, t) /\ Become(Park(rc)) /\ Fault

\* Resume contexts with a mode other than RM_RESUME.
SyncOthers ==
  /\ rc.pc = "others"
  /\ IF rc.sync.todo = <<>> \/ ~SyncGoesOn(rc)
     THEN Become([rc EXCEPT !.pc = "end"]) /\ UNCHANGED left
     ELSE LET t == Head(rc.sync.todo) IN
          \/ Become(context_resume(NextThread(rc), t, rc.ctx[t].step_mode)) /\ UNCHANGED left
          \/ Become(resume_error(NextThread(rc), t)) /\ Fault
          \/ Become(Park(rc)) /\ Fault

Suspends(c) == c.linked /\ c.pending_intercept /\ c.stopped

send_event_context_suspended(r) ==
  [r EXCEPT !.ctx = [t \in Threads |->
     IF ~Suspends(@[t]) THEN @[t]
     ELSE [@[t] EXCEPT !.intercepted = TRUE, !.pending_intercept = FALSE,
                       !.step_mode = "resume"]]]

SyncEnd ==
  /\ rc.pc = "end"
  /\ LET q == IF rc.sync.err /\ rc.pids = 0 /\ rc.lock = 0 /\ rc.posted < 4
              THEN PostSafe(rc) ELSE rc
         r == [q EXCEPT !.sposted = @ - 1, !.pc = "idle", !.sync = NoSync]
     IN Become(IF r.posted > 0 \/ r.sposted > 0 \/ r.lock > 0 THEN r
               ELSE send_event_context_suspended(r))
  /\ UNCHANGED left
-----------------------------------------------------------------------------
(* Cache clients: replanting breakpoints, commands of the memory service.  *)

ReplantEvent ==
  /\ HeadIs("replant")
  /\ LET r == PopEvent
         start == StartReplant(r)
     IN Become(IF ~StartsReplant(r, Head(rc.queue).gen) THEN r
               ELSE [start EXCEPT !.run = [i \in DOMAIN start.evals_active |->
                       [client |-> "replant", grp |-> start.evals_active[i]]]])
  /\ UNCHANGED left

Client == Head(rc.run)

\* Groups that check_all_stopped is called for.
Needs(r, c) == IF c.client = "replant" THEN r.evals_active ELSE <<c.grp>>

\* check_all_stopped for a group that runs: wait for a safe event.
WaitAllStopped(r, c) ==
  LET needs == Needs(r, c)
      running == {i \in DOMAIN needs : ~IsAllStopped(r, needs[i])}
  IN [post_safe_event(r, [grp |-> needs[Min(running)], done |-> "none"])
        EXCEPT !.waiting = Append(@, c)]

ClientStep ==
  /\ rc.pc = "idle" /\ rc.run # <<>>
  /\ LET r == [rc EXCEPT !.run = Tail(@)]
         p == Client.grp
     IN IF \E i \in DOMAIN Needs(r, Client) : ~IsAllStopped(r, Needs(r, Client)[i])
        THEN Become(WaitAllStopped(r, Client)) /\ UNCHANGED left
        ELSE \/ /\ IF Client.client = "replant"
                   THEN \E ok \in ConditionResults(r, p) :
                          Become(Strict(ReplantDone, Evaluated(r, p, ok)))
                   ELSE Become(run_ctrl_unlock(r))
                /\ UNCHANGED left
             \/ /\ Become([(IF Client.client = "replant" THEN Evaluated(r, p, {}) ELSE r)
                             EXCEPT !.missed = Append(@, Client)])
                /\ Fault

RetryClient ==
  /\ Idle /\ rc.missed # <<>>
  /\ \E i \in DOMAIN rc.missed :
       Become([rc EXCEPT !.missed = RemoveAt(@, i), !.run = <<rc.missed[i]>>])
  /\ UNCHANGED left
-----------------------------------------------------------------------------
(* Commands.                                                               *)

CommandSuspend(t) ==
  /\ Idle /\ IsLinked(rc, t) /\ ~rc.ctx[t].exited /\ ~rc.ctx[t].intercepted
  /\ Stimulus("command") /\ Become(suspend_debug_context(rc, t))

CommandResume(t, mode) ==
  /\ Idle /\ rc.ctx[t].intercepted /\ ~rc.ctx[t].exited
  /\ Stimulus("command")
  /\ Become(resume_context_tree([rc EXCEPT !.ctx[t].step_mode = mode], t))

CommandTerminate(t) ==
  /\ Idle /\ IsLinked(rc, t) /\ ~rc.ctx[t].exited
  /\ Stimulus("command")
  /\ Become(post_safe_event(rc, [grp |-> ProcOf[t], done |-> "terminate", arg |-> t]))

\* get, set and fill of the memory service: they lock, then enter the cache.
CommandMemory(p) ==
  /\ Idle /\ ~ProcExited(rc, p)
  /\ Stimulus("command")
  /\ Become([run_ctrl_lock(rc) EXCEPT !.run = <<[client |-> "memory", grp |-> p]>>])

\* The events "lock" and "unlock" of a context proxy, and the end of the channel.
context_cache_lock == /\ Idle /\ ~rc.cache_lock /\ Stimulus("command")
                      /\ Become([run_ctrl_lock(rc) EXCEPT !.cache_lock = TRUE])

context_cache_unlock == /\ Idle /\ rc.cache_lock /\ UNCHANGED left
                        /\ Become(run_ctrl_unlock([rc EXCEPT !.cache_lock = FALSE]))

channel_closed ==
  /\ Idle /\ Stimulus("command")
  /\ LET steps == {t \in Threads : rc.ctx[t].step_mode = "step"}
         r == [rc EXCEPT !.ctx = [t \in Threads |->
                IF t \in steps THEN [@[t] EXCEPT !.step_mode = "resume"] ELSE @[t]]]
     IN /\ steps # {} \/ rc.cache_lock
        /\ Become(IF rc.cache_lock THEN run_ctrl_unlock([r EXCEPT !.cache_lock = FALSE]) ELSE r)

\* add, change, enable, disable and remove of the breakpoints service.
CommandBreakpoint(bp) ==
  /\ Idle /\ bp # rc.bp /\ Stimulus("breakpoint")
  /\ Become(replant_breakpoint([rc EXCEPT !.bp = bp]))
-----------------------------------------------------------------------------
(* The kernel, and the handlers of its reports.                            *)

Running(t) == LET c == rc.ctx[t] IN c.linked /\ ~c.stopped /\ ~c.exited /\ c.k = "run"
IsNew(t) == LET c == rc.ctx[t] IN c.linked /\ ~c.stopped /\ ~c.exited /\ c.k = "new"

\* event_pid_stopped and event_context_stopped.
Stopped(r, t) ==
  LET q == [r EXCEPT !.ctx[t] =
              [@ EXCEPT !.stopped = TRUE, !.stop_cnt = 0, !.pending_step = FALSE,
                        !.safe_single_step = FALSE, !.cannot_stop = FALSE, !.k = "run"]]
  IN Strict(LAMBDA x : PostSafeLazily(check_safe_events(x, t)),
            IF q.ctx[t].stopped_by_bp THEN evaluate_breakpoint(q, t) ELSE q)

\* The signal interrupts a step before the instruction is executed.
StillAt(t) == rc.ctx[t].at /\ rc.ctx[t].pending_step

StopSignal(t) ==
  /\ Idle /\ (Running(t) \/ IsNew(t))
  /\ rc.ctx[t].sigstop_posted
  /\ Become(Stopped([rc EXCEPT !.ctx[t].sigstop_posted = FALSE, !.ctx[t].at = StillAt(t)], t))
  /\ UNCHANGED left

Signal(t) ==
  /\ Idle /\ Running(t) /\ ~rc.ctx[t].exiting /\ Stimulus("kernel")
  /\ Become(Stopped([rc EXCEPT !.ctx[t].pending_intercept = TRUE, !.ctx[t].at = StillAt(t),
                               !.ctx[t].stopped_by_exception = TRUE], t))

EndOfStep(t) ==
  /\ Idle /\ Running(t) /\ rc.ctx[t].pending_step
  /\ ~(rc.ctx[t].at /\ rc.bi[ProcOf[t]].planted)
  /\ Become(Stopped([rc EXCEPT !.ctx[t].at = FALSE], t)) /\ UNCHANGED left

\* A thread executes the break instruction; the report comes later.
Trap(t) == /\ Idle /\ Running(t) /\ ~rc.ctx[t].exiting /\ rc.bi[ProcOf[t]].planted
           /\ Become([rc EXCEPT !.ctx[t].k = "trap", !.ctx[t].at = TRUE])
           /\ UNCHANGED left

\* is_breakpoint_address decides whether the trap is the breakpoint's.
TrapReported(t) ==
  /\ Idle /\ rc.ctx[t].k = "trap" /\ ~rc.ctx[t].stopped
  /\ LET b == rc.bi[ProcOf[t]]
     IN Become(Stopped([rc EXCEPT !.ctx[t].stopped_by_bp = b.exists /\ b.planted], t))
  /\ UNCHANGED left

\* PTRACE_EVENT_EXIT
ExitEvent(t) ==
  /\ Idle /\ Running(t) /\ ~rc.ctx[t].exiting /\ Stimulus("kernel")
  /\ Become(Stopped([rc EXCEPT !.ctx[t].exiting = TRUE], t))

\* PTRACE_EVENT_CLONE of t; add_thread of n.
Clone(t, n) ==
  /\ Idle /\ Running(t) /\ ~rc.ctx[t].exiting /\ ~IsLinked(rc, n) /\ ProcOf[n] = ProcOf[t]
  /\ Stimulus("kernel")
  /\ LET r == [rc EXCEPT
                  !.ctx[n] = [@ EXCEPT !.linked = TRUE, !.sigstop_posted = TRUE, !.k = "new"],
                  !.ctx[t].at = FALSE]
     IN Become(Stopped(post_location_evaluation_request(r, ProcOf[t], TRUE), t))

\* Somebody kills the process; it may be stopped.
Kill(p) ==
  /\ Idle /\ Stimulus("kernel")
  /\ \E t \in ThreadsOf(p) : Alive(rc.ctx[t])
  /\ Become([rc EXCEPT !.ctx = [t \in Threads |->
       IF t \in ThreadsOf(p) /\ Alive(@[t])
       THEN [@[t] EXCEPT !.k = "zombie"] ELSE @[t]]])

Exits(t) == /\ Idle
            /\ \/ Running(t) /\ rc.ctx[t].exiting /\ Become([rc EXCEPT !.ctx[t].k = "zombie"])
               \/ rc.ctx[t].k = "zombie" /\ Become([rc EXCEPT !.ctx[t].k = "gone"])
            /\ UNCHANGED left

\* event_pid_exited and the listeners of context_exited.
Exited(r, t) ==
  Strict(LAMBDA q : post_location_evaluation_request(check_safe_events(
           [q EXCEPT !.ctx[t] =
              [@ EXCEPT !.exiting = FALSE, !.exited = TRUE, !.k = "run",
                        !.pending_intercept = FALSE, !.intercepted = FALSE,
                        !.safe_single_step = FALSE, !.step_mode = "resume"]], t),
             ProcOf[t], TRUE),
         IF r.ctx[t].stopped
         THEN send_context_started_event([r EXCEPT !.ctx[t].exiting = TRUE], t) ELSE r)

ExitReported(t) == /\ Idle /\ rc.ctx[t].k = "gone"
                   /\ Become(Exited(rc, t)) /\ UNCHANGED left
-----------------------------------------------------------------------------
Dispatch == \/ RunSafeEvents \/ SafeEventLoop \/ ReplantEvent \/ ClientStep
            \/ SyncRunState \/ SyncFlag \/ SyncMove \/ SyncOthers \/ SyncEnd

Commands == \/ \E t \in Threads : \/ CommandSuspend(t) \/ CommandTerminate(t)
                                  \/ \E mode \in {"resume", "step"} : CommandResume(t, mode)
            \/ \E p \in Procs : CommandMemory(p)
            \/ context_cache_lock \/ context_cache_unlock \/ channel_closed
            \/ \E bp \in {"none", "off", "plain", "cond"} : CommandBreakpoint(bp)

Kernel == \/ \E t \in Threads : \/ StopSignal(t) \/ Signal(t) \/ EndOfStep(t) \/ Trap(t)
                                \/ TrapReported(t) \/ ExitEvent(t) \/ Exits(t)
                                \/ ExitReported(t) \/ \E n \in Threads : Clone(t, n)
          \/ \E p \in Procs : Kill(p)

Next == Dispatch \/ StopAllTimer \/ RetrySync \/ RetryClient \/ Commands \/ Kernel

\* The dispatch thread works, the timer fires, and data that is waited for
\* arrives.  Nothing is assumed of the kernel: a thread may never stop.
Fairness == /\ WF_vars(Dispatch) /\ WF_vars(StopAllTimer)
            /\ WF_vars(RetrySync) /\ WF_vars(RetryClient)

Spec == Init /\ [][Next]_vars
FairSpec == Spec /\ Fairness
-----------------------------------------------------------------------------
\* A safe event runs only when every thread of its group stands still, also when
\* an event before it in the list has started one (assert_all_stopped).
SafeWhenStopped ==
  rc.pc = "loop" /\ CanRunSafeEvent(rc) => IsAllStopped(rc, Head(rc.list).grp)

\* safe_event_pid_count is the number of threads that are waited for, and each
\* of them is still to stop or to exit; otherwise safe events run too early or
\* only after a timeout.
PendingExact ==
  /\ rc.pids = Cardinality({t \in Threads : rc.ctx[t].pending_safe_event})
  /\ \A t \in Threads : rc.ctx[t].pending_safe_event => ~rc.ctx[t].stopped /\ ~rc.ctx[t].exited

\* run_ctrl_lock_cnt counts the safe events, the commands, the proxy lock and the
\* round of replanting that hold it: it is released as often as it is taken.
LockExact ==
  LET clients == rc.run \o rc.waiting \o rc.missed
  IN rc.lock = Len(rc.list) + (IF rc.cache_lock THEN 1 ELSE 0)
             + (IF rc.gen_posted # rc.gen_done THEN 1 ELSE 0)
             + Cardinality({i \in DOMAIN clients : clients[i].client = "memory"})

\* A thread that has executed a break instruction is recognised: the instruction
\* is not taken out before the report of the trap is handled, however late.
TrapRecognised ==
  \A t \in Threads : LET c == rc.ctx[t] IN
    c.k = "trap" /\ ~c.cannot_stop => rc.bi[ProcOf[t]].exists /\ rc.bi[ProcOf[t]].planted

\* No thread runs past a breakpoint: while the instruction is out of memory to
\* let one thread step over it, the others do not run.
NoMissedBreakpoint ==
  \A t \in Threads : LET c == rc.ctx[t]
                         b == rc.bi[ProcOf[t]]
    IN /\ c.linked /\ ~c.stopped /\ ~c.exited /\ ~c.exiting /\ c.k = "run"
       /\ ~c.safe_single_step /\ ~c.cannot_stop /\ b.valid /\ b.ref = "live"
       => b.planted

\* The instruction knows how many threads step over it, and for each of them
\* exactly one safe event is waiting that goes on with it.
SteppingExact ==
  /\ \A p \in Procs : rc.bi[p].stepping =
       Cardinality({t \in ThreadsOf(p) : rc.ctx[t].stepping_over})
  /\ \A t \in Threads :
       Cardinality({i \in DOMAIN rc.list : /\ rc.list[i].done \in {"skip", "restore"}
                                           /\ rc.list[i].arg = t})
         = IF rc.ctx[t].stepping_over THEN 1 ELSE 0

\* The counters that different services keep together are right: the threads that
\* are waited for, the holders of the lock, the threads on their way over a
\* breakpoint (safe_event_pid_count, run_ctrl_lock_cnt, stepping_over_bp).
CountersExact == PendingExact /\ LockExact /\ SteppingExact

\* Every safe event runs in the end, whatever happens to the threads.
SafeEventsRun == rc.list # <<>> ~> rc.list = <<>>

\* A change of the breakpoint is carried out in the end.
ReplantCompletes == rc.gen_posted # rc.gen_done ~> rc.gen_posted = rc.gen_done

\* A thread that stopped is reported as suspended or goes on, as long as no proxy
\* holds the lock.  Other threads can put the report off: one that steps, or hits
\* a false condition again and again, keeps run control busy each time.
StopResolved ==
  \A t \in Threads : rc.ctx[t].stopped /\ ~rc.ctx[t].intercepted
    ~> \/ ~rc.ctx[t].stopped \/ rc.ctx[t].intercepted \/ rc.cache_lock
       \/ rc.bp # "none" \/ \E x \in Threads : rc.ctx[x].step_mode = "step"
=============================================================================
