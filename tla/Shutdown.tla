------------------------------ MODULE Shutdown ------------------------------
(***************************************************************************)
(* The shutdown manager (agent/tcf/framework/shutdown.c): subsystems are   *)
(* told to stop and report back; when the last one has stopped, the event  *)
(* loop is cancelled.  The module gives the operations; AsyncReq composes  *)
(* them with the two subsystems that register, worker threads and channels.*)
(***************************************************************************)
EXTENDS Integers, Sequences, FiniteSets, FiniteSetsExt, SequencesExt

CONSTANTS
  Objs,       \* ShutdownInfo objects
  NoObj

ASSUME ShutdownAssumption == NoObj \notin Objs

VARIABLES
  sd_state,         \* object -> "STOPPED", "NORMAL" or "PENDING"
  shutdown_active,  \* the list of objects that are not stopped
  notify_pending,   \* notify_all is posted
  started,          \* shutdown_complete_handler is set
  complete,         \* shutdown_complete_handler was called
  visiting,         \* what the loop of notify_all has still to visit
  notified,         \* the object whose notify function runs, or NoObj
  aborted           \* an assertion of shutdown_start failed

sdVars == <<sd_state, shutdown_active, notify_pending, started, complete, visiting,
            notified, aborted>>

SdInit ==
  /\ sd_state = [o \in Objs |-> "STOPPED"] /\ shutdown_active = <<>>
  /\ notify_pending = FALSE /\ started = FALSE /\ complete = FALSE
  /\ visiting = <<>> /\ notified = NoObj /\ aborted = FALSE

\* The dispatch thread is not inside notify_all, and the loop still runs.
DispatchFree == visiting = <<>> /\ notified = NoObj /\ ~complete /\ ~aborted

\* set_stopped posts notify_all once shutdown has started.
PostNotify(pending) == pending \/ started

\* Where o is linked.
Link(o) == CHOOSE k \in DOMAIN shutdown_active : shutdown_active[k] = o

\* shutdown_set_stopped
SetStopped(o) ==
  IF sd_state[o] = "STOPPED" THEN UNCHANGED <<sd_state, shutdown_active, notify_pending>>
  ELSE /\ sd_state' = [sd_state EXCEPT ![o] = "STOPPED"]
       /\ shutdown_active' = RemoveAt(shutdown_active, Link(o))
       /\ notify_pending' = PostNotify(notify_pending)

\* The list after o is set to normal.
Linked(active, o) == IF sd_state[o] = "STOPPED" THEN Append(active, o) ELSE active

\* shutdown_set_normal
SetNormal(o) ==
  /\ sd_state' = [sd_state EXCEPT ![o] = "NORMAL"]
  /\ shutdown_active' = Linked(shutdown_active, o)

\* shutdown_start; its assertion comes before the test whether shutdown has
\* already been started.
ShutdownStart ==
  /\ DispatchFree
  /\ aborted' = notify_pending
  /\ started' = TRUE
  /\ notify_pending' = (notify_pending \/ ~started)
  /\ UNCHANGED <<sd_state, shutdown_active, complete, visiting, notified>>

\* Fault: done as soon as every object has been notified.
AllStopped_Notified == \A o \in Objs : sd_state[o] # "NORMAL"

\* The test of notify_all.
AllStopped == shutdown_active = <<>>

\* notify_all, up to its loop
NotifyAll ==
  /\ DispatchFree /\ notify_pending
  /\ notify_pending' = FALSE
  /\ IF AllStopped
     THEN complete' = TRUE /\ UNCHANGED visiting
     ELSE visiting' = shutdown_active /\ UNCHANGED complete
  /\ UNCHANGED <<sd_state, shutdown_active, started, notified, aborted>>

\* One turn of the loop.  The call of obj->notify is an action of the
\* subsystem, which ends with NotifyReturns.
NotifyObj ==
  /\ visiting # <<>> /\ notified = NoObj
  /\ LET o == Head(visiting)
     IN  IF sd_state[o] = "NORMAL"
         THEN /\ sd_state' = [sd_state EXCEPT ![o] = "PENDING"]
              /\ notified' = o
         ELSE UNCHANGED <<sd_state, notified>>
  /\ visiting' = Tail(visiting)
  /\ UNCHANGED <<shutdown_active, notify_pending, started, complete, aborted>>

NotifyReturns ==
  /\ notified' = NoObj
  /\ UNCHANGED <<sd_state, shutdown_active, notify_pending, started, complete, visiting,
                 aborted>>
=============================================================================
