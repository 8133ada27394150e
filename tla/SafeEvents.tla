----------------------------- MODULE SafeEvents -----------------------------
(***************************************************************************)
(* The state that run control (agent/tcf/services/runctrl.c) keeps for the *)
(* threads it debugs, the primitives other services call, and how threads  *)
(* are stopped and started (agent/system/GNU/Linux/tcf/context-linux.c).   *)
(*                                                                         *)
(* The state is one record, written r below; a primitive is an operator    *)
(* from records to records.  RunCtrl has the handlers and the actions.     *)
(***************************************************************************)
EXTENDS Integers, Sequences, FiniteSets, SequencesExt, FiniteSetsExt

CONSTANTS
  ThreadSeq,    \* the threads, in the order of context_root
  ProcOf,       \* thread -> its process, ctx->mem
  AllStop,      \* ENABLE_AllStopMode
  StopAllMax,   \* STOP_ALL_MAX_CNT (20): ticks until a thread "cannot stop"
  StopTries,    \* context_stop calls until it looks for a zombie (4)
  MaxSkips      \* attempts to step over a breakpoint (100)

Threads == Range(ThreadSeq)
Procs == {ProcOf[t] : t \in Threads}

ASSUME SafeEventsAssumption ==
  /\ StopAllMax \in Nat \ {0} /\ StopTries \in Nat \ {0} /\ MaxSkips \in Nat \ {0}
  /\ AllStop \in BOOLEAN
  /\ ThreadSeq \in Seq(Threads) /\ IsInjective(ThreadSeq)

\* The threads of A, in the order of context_root.
InOrder(A) == FoldLeft(LAMBDA q, t : IF t \in A THEN Append(q, t) ELSE q, <<>>, ThreadSeq)

\* Strict(op, x) is op(x); TLC evaluates x once.
Strict(op(_), x) == CHOOSE y \in {op(z) : z \in {x}} : TRUE

\* What agent and kernel know of a thread: Context, ContextExtensionRC,
\* ContextExtensionLinux and ContextExtensionBP.  k is the kernel's side:
\* "new" has not run yet; "trap" has executed a break instruction and "gone" was
\* reaped, neither reported yet; "zombie" is dead.  at: the PC is at the breakpoint.
NewThread == [linked |-> FALSE, stopped |-> FALSE, exiting |-> FALSE, exited |-> FALSE,
              pending_intercept |-> FALSE, intercepted |-> FALSE, step_mode |-> "resume",
              pending_safe_event |-> FALSE, safe_single_step |-> FALSE,
              cannot_stop |-> FALSE, stop_group_mark |-> FALSE,
              sigstop_posted |-> FALSE, stop_cnt |-> 0, pending_step |-> FALSE,
              stopped_by_bp |-> FALSE, stopped_by_exception |-> FALSE,
              stepping_over |-> FALSE, skips |-> 0, at |-> FALSE, k |-> "run"]

\* struct BreakInstruction of a process, at the one address modelled.  loc: the
\* instruction at the virtual address has a reference; ref: the references of
\* the planted one, "stale" between clear_instruction_refs and validation.
NewInstruction == [exists |-> FALSE, planted |-> FALSE, valid |-> TRUE,
                   ref |-> "none", loc |-> FALSE, stepping |-> 0]

\* The kernel still has the thread.
Alive(c) == c.linked /\ ~c.exited /\ c.k \notin {"zombie", "gone"}

IsLinked(r, t) == r.ctx[t].linked
LinkedThreads(r) == {t \in Threads : IsLinked(r, t)}
InterceptGroup(t) == IF AllStop THEN {x \in Threads : ProcOf[x] = ProcOf[t]} ELSE {t}
ThreadsOf(p) == {t \in Threads : ProcOf[t] = p}

\* Fault: a thread that was told to stop counts as stopped.
IsAllStopped_Told(r, p) ==
  \A t \in ThreadsOf(p) : LET c == r.ctx[t] IN
    ~c.linked \/ c.stopped \/ c.sigstop_posted \/ c.exited \/ c.exiting \/ c.cannot_stop

\* is_all_stopped
IsAllStopped(r, p) ==
  \A t \in ThreadsOf(p) : LET c == r.ctx[t] IN
    ~c.linked \/ c.stopped \/ c.exited \/ c.exiting \/ c.cannot_stop

ProcExited(r, p) == /\ \E t \in ThreadsOf(p) : IsLinked(r, t)
                    /\ \A t \in ThreadsOf(p) : IsLinked(r, t) => r.ctx[t].exited
-----------------------------------------------------------------------------
(* The lock and the list of safe events.                                   *)

Post(r, e, g) == [r EXCEPT !.queue = Append(@, [ev |-> e, gen |-> g])]

PostSafe(r) == [Post(r, "safe", 0) EXCEPT !.posted = @ + 1]
PostSafeLazily(r) == IF r.lock = 0 /\ r.posted < 4 THEN PostSafe(r) ELSE r

run_ctrl_lock(r) == [r EXCEPT !.lock = @ + 1]

\* Fault: run_ctrl_unlock does not post an event.
run_ctrl_unlock_Silent(r) == [r EXCEPT !.lock = @ - 1]

run_ctrl_unlock(r) == LET q == [r EXCEPT !.lock = @ - 1]
                      IN IF q.lock = 0 THEN PostSafe(q) ELSE q

post_safe_event(r, i) ==
  LET q == [r EXCEPT !.lock = @ + 1, !.list = Append(@, i)]
  IN IF r.list = <<>> THEN PostSafe(q) ELSE q

\* Fault: the thread is still marked as waited for.
check_safe_events_KeepsMark(r, t) ==
  IF ~r.ctx[t].pending_safe_event THEN r
  ELSE LET q == [r EXCEPT !.pids = @ - 1]
       IN IF q.pids = 0 THEN PostSafe(q) ELSE q

\* A thread a safe event waits for has stopped or exited.
check_safe_events(r, t) ==
  IF ~r.ctx[t].pending_safe_event THEN r
  ELSE LET q == [r EXCEPT !.ctx[t].pending_safe_event = FALSE, !.pids = @ - 1]
       IN IF q.pids = 0 THEN PostSafe(q) ELSE q

cancel_step_mode(r, t) == [r EXCEPT !.ctx[t].step_mode = "resume"]

\* resume_context_tree of a thread; send_event_context_resumed.
resume_context_tree(r, t) ==
  IF ~r.ctx[t].intercepted THEN r
  ELSE PostSafeLazily([r EXCEPT !.ctx =
         [x \in Threads |-> IF x \in InterceptGroup(t)
                            THEN [@[x] EXCEPT !.intercepted = FALSE] ELSE @[x]]])
-----------------------------------------------------------------------------
(* Stopping and starting a thread.  The kernel's answers are those of      *)
(* tkill and ptrace for a thread that runs, is a zombie or is gone; other  *)
(* errors of tkill are not modelled.                                       *)

context_stop(r, t) ==
  LET c == r.ctx[t]
      slow == c.stop_cnt >= StopTries
      post == slow \/ ~c.sigstop_posted
  IN IF (slow /\ c.k \in {"zombie", "gone"}) \/ (post /\ c.k = "gone")
     THEN [r EXCEPT !.ctx[t].exiting = TRUE]
     ELSE [r EXCEPT !.ctx[t].sigstop_posted = TRUE,
                    !.ctx[t].stop_cnt = (IF slow THEN 0 ELSE @) + 1]

\* A thread started by the handler of a safe event is waited for.
stop_if_safe_events(r, t) ==
  LET c == r.ctx[t]
      q == IF c.safe_single_step THEN r ELSE context_stop(r, t)
  IN IF ~r.active \/ ~c.stop_group_mark \/ c.exiting THEN r
     ELSE IF c.pending_safe_event THEN q
     ELSE [q EXCEPT !.ctx[t].pending_safe_event = TRUE, !.pids = @ + 1]

send_context_started_event(r, t) ==
  LET q == [r EXCEPT !.ctx[t].stopped = FALSE, !.ctx[t].stopped_by_bp = FALSE,
                     !.ctx[t].stopped_by_exception = FALSE]
  IN Strict(LAMBDA x : stop_if_safe_events(resume_context_tree(x, t), t), q)

\* PTRACE_SINGLESTEP or PTRACE_CONT; a dead thread answers ESRCH.
Ptrace(r, t, step) ==
  LET dead == r.ctx[t].k \in {"zombie", "gone"}
  IN send_context_started_event(
       IF dead THEN [r EXCEPT !.ctx[t].exiting = TRUE]
       ELSE [r EXCEPT !.ctx[t].pending_step = step], t)

\* PTRACE_CONT with SIGKILL: the kernel kills every thread of the process.
PtraceKill(r, t) ==
  Strict(LAMBDA q : send_context_started_event([q EXCEPT !.ctx[t].exiting = TRUE], t),
    IF r.ctx[t].k \in {"zombie", "gone"} THEN r
    ELSE [r EXCEPT !.ctx = [x \in Threads |->
            IF ProcOf[x] = ProcOf[t] /\ Alive(@[x])
            THEN [@[x] EXCEPT !.k = "zombie"] ELSE @[x]]])

\* suspend_debug_context and suspend_by_breakpoint of a thread.
suspend_debug_context(r, t) ==
  LET c == r.ctx[t]
      q == [r EXCEPT !.ctx[t].pending_intercept = TRUE]
  IN IF c.exited \/ (c.stopped /\ c.intercepted) \/ (~c.stopped /\ c.exiting) THEN r
     ELSE IF c.stopped THEN PostSafeLazily(q)
     ELSE IF c.safe_single_step THEN q
     ELSE context_stop(q, t)
=============================================================================
