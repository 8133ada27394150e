---------------------------- MODULE Breakpoints ----------------------------
(***************************************************************************)
(* The breakpoints service (agent/tcf/services/breakpoints.c) for one      *)
(* breakpoint at one address of every process, planted as an instruction   *)
(* in the memory of the process.                                           *)
(*                                                                         *)
(* Instructions are planted and removed only while the threads of the      *)
(* process are stopped: by a cache client, after an evaluation request     *)
(* posted by a command or by a change of contexts, and by the safe events  *)
(* that let a thread step over the instruction it was stopped by.          *)
(***************************************************************************)
EXTENDS SafeEvents

\* r.bp is the breakpoint: "none" (client_cnt is 0), "off" (disabled), "plain"
\* or "cond" (it has a condition).
Enabled(r) == r.bp \in {"plain", "cond"}

post_evaluation_request(r, p) ==
  IF p \in Range(r.evals_posted) THEN r
  ELSE LET q == [r EXCEPT !.evals_posted = Append(@, p), !.gen_posted = @ + 1]
       IN Post(IF r.gen_posted = r.gen_done THEN run_ctrl_lock(q) ELSE q,
               "replant", q.gen_posted)

\* A request for the whole group is ignored when there is nothing to do in it.
post_location_evaluation_request(r, p, all) ==
  IF all /\ r.bi[p].ref = "none" /\ ~r.bi[p].loc /\ p \notin Range(r.evals_posted) /\ ~Enabled(r)
  THEN r
  ELSE post_evaluation_request([r EXCEPT !.loc_posted[p] = TRUE], p)

PostLocation(r, p) == post_location_evaluation_request(r, p, FALSE)

PostForAll(r, ps) == FoldLeft(PostLocation, r, SetToSeq(ps))

\* replant_breakpoint: a breakpoint without clients is looked for only where
\* it has instructions.
replant_breakpoint(r) ==
  PostForAll(r, {p \in Procs : /\ ~ProcExited(r, p)
                               /\ \E t \in ThreadsOf(p) : IsLinked(r, t)
                               /\ r.bp = "none" => r.bi[p].ref # "none" \/ r.bi[p].loc})
-----------------------------------------------------------------------------
(* Instructions.                                                           *)

\* flush_instructions for the instruction of p.
FlushInstruction(r, p) ==
  LET b == r.bi[p]
      live == IF b.valid THEN b.ref = "live" ELSE b.loc /\ ~ProcExited(r, p)
      plant == ~b.valid /\ live /\ b.stepping = 0
      unused == ~live /\ b.stepping = 0
      planted == (b.planted /\ ~(unused /\ IsAllStopped(r, p))) \/ plant
  IN [r EXCEPT !.bi[p] =
       [exists |-> (b.exists \/ live) /\ ~(unused /\ ~planted), planted |-> planted,
        valid |-> TRUE, ref |-> IF live THEN "live" ELSE "none",
        loc |-> IF b.valid THEN b.loc ELSE live, stepping |-> b.stepping]]

flush_instructions(r) == FoldLeft(FlushInstruction, r, SetToSeq(Procs))

\* clear_instruction_refs, then evaluate_bp_location.
EvaluateLocation(r, p) ==
  [r EXCEPT !.bi[p].valid = @ /\ r.bi[p].ref = "none" /\ ~r.bi[p].loc
                            /\ ~(Enabled(r) /\ ~ProcExited(r, p)),
            !.bi[p].ref = IF @ = "none" THEN @ ELSE "stale",
            !.bi[p].loc = Enabled(r) /\ ~ProcExited(r, p)]
-----------------------------------------------------------------------------
(* The cache client that evaluates and replants.                           *)

SuspendHit(r, t) == IF r.ctx[t].exited \/ r.ctx[t].exiting THEN r
                    ELSE suspend_debug_context(r, t)

\* done_condition_evaluation: the threads of p whose conditions hold stop.
SuspendHits(r, p) ==
  FoldLeft(SuspendHit, [r EXCEPT !.conds[p] = {}, !.cond_ok[p] = {}], InOrder(r.cond_ok[p]))

done_all_evaluations(r) ==
  [FoldLeft(SuspendHits, r, r.evals_active) EXCEPT !.evals_active = <<>>]

\* Generations are only compared; they start again from 0 when no event has one.
Renumber(r) ==
  IF r.gen_posted = r.gen_done /\ \A i \in DOMAIN r.queue : r.queue[i].ev # "replant"
  THEN [r EXCEPT !.gen_posted = 0, !.gen_active = 0, !.gen_done = 0] ELSE r

\* Fault: requests that came during the round are left for later.
ReplantDone_NoRepeat(r) ==
  IF r.enter_cnt > 1 THEN [r EXCEPT !.enter_cnt = @ - 1]
  ELSE Strict(LAMBDA d :
         IF d.evals_posted # <<>> THEN d
         ELSE run_ctrl_unlock(Renumber([flush_instructions(d) EXCEPT !.gen_done = d.gen_active])),
         done_all_evaluations([r EXCEPT !.enter_cnt = @ - 1]))

\* The part of replant_breakpoints_cache_client after cache_exit.
ReplantDone(r) ==
  IF r.enter_cnt > 1 THEN [r EXCEPT !.enter_cnt = @ - 1]
  ELSE Strict(LAMBDA d :
         IF d.evals_posted # <<>>
         THEN Post([d EXCEPT !.gen_posted = @ + 1], "replant", d.gen_posted + 1)
         ELSE run_ctrl_unlock(Renumber([flush_instructions(d) EXCEPT !.gen_done = d.gen_active])),
         done_all_evaluations([r EXCEPT !.enter_cnt = @ - 1]))

\* What the evaluation does for request p when no data is missing; ok: the
\* threads whose condition is true.
Evaluated(r, p, ok) ==
  [(IF r.loc_active[p] THEN EvaluateLocation(r, p) ELSE r) EXCEPT !.cond_ok[p] = ok]

ConditionResults(r, p) ==
  CASE r.bp = "cond"  -> SUBSET r.conds[p]
    [] r.bp = "plain" -> {r.conds[p]}
    [] OTHER          -> {{}}

\* event_replant_breakpoints: TRUE when the event starts a round.
StartsReplant(r, gen) == gen = r.gen_posted /\ r.enter_cnt = 0

StartReplant(r) ==
  [r EXCEPT !.gen_active = r.gen_posted, !.evals_active = r.evals_posted,
            !.evals_posted = <<>>, !.enter_cnt = Len(r.evals_posted),
            !.loc_active = r.loc_posted, !.loc_posted = [p \in Procs |-> FALSE]]
-----------------------------------------------------------------------------
(* A thread at a breakpoint.                                               *)

\* evaluate_breakpoint: a thread was stopped by the instruction.
evaluate_breakpoint(r, t) ==
  LET p == ProcOf[t]
      already == p \in Range(r.evals_posted) \cup Range(r.evals_active)
      hit == r.bi[p].exists /\ r.bi[p].ref # "none"
      busy == already \/ r.enter_cnt > 0
      post == busy \/ (hit /\ r.bp = "cond")
      q == IF hit /\ post THEN [r EXCEPT !.conds[p] = @ \cup {t}] ELSE r
  IN IF post THEN (IF already THEN q ELSE post_evaluation_request(q, p))
     ELSE IF hit /\ r.bp = "plain" THEN suspend_debug_context(r, t) ELSE r

\* skip_breakpoint: the thread has to step over the instruction first.
NeedsSkip(r, t) == LET c == r.ctx[t] IN
  ~c.stepping_over /\ c.stopped_by_bp /\ ~c.exited /\ ~c.exiting /\ r.bi[ProcOf[t]].exists

skip_breakpoint(r, t) ==
  post_safe_event([r EXCEPT !.bi[ProcOf[t]].stepping = @ + 1,
                            !.ctx[t].stepping_over = TRUE, !.ctx[t].skips = 1],
                  [grp |-> ProcOf[t], done |-> "skip", arg |-> t])

\* Fault: the error ends the step over, although the restore is posted.
SkipError_Ends(r, t, fails) ==
  [r EXCEPT !.bi[ProcOf[t]] = [@ EXCEPT !.planted = @ /\ fails = "remove",
                                        !.stepping = @ - 1],
            !.ctx[t] = [@ EXCEPT !.stepping_over = FALSE, !.stopped_by_bp = FALSE,
                                 !.pending_intercept = TRUE, !.stopped_by_exception = TRUE]]

\* remove_instruction, if fails is "remove", or safe_context_single_step, if it is
\* "step", returns an error: the thread stays and is reported.
SkipError(r, t, fails) ==
  [r EXCEPT !.bi[ProcOf[t]].planted = @ /\ fails = "remove",
            !.ctx[t].stopped_by_bp = FALSE, !.ctx[t].pending_intercept = TRUE,
            !.ctx[t].stopped_by_exception = TRUE]

safe_skip_breakpoint(r, t, fails) ==
  LET c == r.ctx[t]
      q == post_safe_event(r, [grp |-> ProcOf[t], done |-> "restore", arg |-> t])
  IN IF c.exited \/ c.exiting \/ c.intercepted THEN q
     ELSE IF fails # "none" THEN SkipError(q, t, fails)
     ELSE Strict(LAMBDA x : Ptrace(x, t, TRUE),
                 [q EXCEPT !.bi[ProcOf[t]].planted = FALSE, !.ctx[t].safe_single_step = TRUE])

\* Fault: the instruction is not planted again.
safe_restore_breakpoint_NoPlant(r, t, fails) ==
  LET c == r.ctx[t]
      again == ~c.exiting /\ c.stopped /\ ~c.stopped_by_exception /\ c.at
  IN IF again /\ c.skips < MaxSkips
     THEN safe_skip_breakpoint([r EXCEPT !.ctx[t].skips = @ + 1], t, fails)
     ELSE [r EXCEPT !.ctx[t].stepping_over = FALSE, !.ctx[t].skips = 0,
                    !.bi[ProcOf[t]].stepping = @ - 1]

\* The step may not have left the address: a signal can come first.
safe_restore_breakpoint(r, t, fails) ==
  LET c == r.ctx[t]
      p == ProcOf[t]
      b == r.bi[p]
      again == ~c.exiting /\ c.stopped /\ ~c.stopped_by_exception /\ c.at
      last == b.stepping = 1
  IN IF again /\ c.skips < MaxSkips
     THEN safe_skip_breakpoint([r EXCEPT !.ctx[t].skips = @ + 1], t, fails)
     ELSE [r EXCEPT !.ctx[t] = [@ EXCEPT !.stepping_over = FALSE, !.skips = 0],
                    !.bi[p] = [b EXCEPT
                       !.stepping = b.stepping - 1,
                       !.planted = \/ b.planted
                                   \/ last /\ b.valid /\ b.ref # "none" /\ ~ProcExited(r, p)]]
=============================================================================
