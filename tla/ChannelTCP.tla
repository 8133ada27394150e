----------------------------- MODULE ChannelTCP -----------------------------
(***************************************************************************)
(* The life of a socket channel (agent/tcf/framework/channel_tcp.c): its   *)
(* lock count, output stream, pending requests, close and deletion.        *)
(*                                                                         *)
(* Everything runs on the dispatch thread except the two requests, a read  *)
(* and a write, whose completions arrive as events.  The channel is        *)
(* deleted when lock_cnt drops to 0; an event that is still posted then    *)
(* would run on freed memory.                                              *)
(*                                                                         *)
(* Output goes through the current buffer obuf into OutputQueue.  Input is *)
(* reduced to the number of messages (InputBuf has the details).  An ESC   *)
(* pair on the output is one unit here.                                    *)
(***************************************************************************)
EXTENDS OutputQueue

CONSTANTS
  MaxLocks,     \* bound: locks held by clients at a time
  MaxMsgs,      \* bound: messages counted by the input buffer at a time
  MaxWrites     \* bound: messages written by clients

ASSUME ChannelTCPAssumption ==
  /\ MaxLocks \in Nat /\ MaxMsgs \in Nat /\ MaxWrites \in Nat
  /\ Data = {"x", "EOM", "EOS"}

VARIABLES
  state,          \* "StartWait", "Started" or "Disconnected"
  lock_cnt, deleted,
  read_pending, eof, message_count, handling_msg,
  obuf,           \* units in the current output buffer
  out_errno,      \* an error was seen
  out_flush_cnt, out_eom_cnt,
  flush_events,   \* posted tcp_flush_event calls
  shut_wr,        \* shutdown(c->socket, SHUT_WR) was called
  pc,             \* the dispatch thread is "idle", in a message "handler", or
                  \* in "closing", the middle of send_eof_and_close
  todo,           \* units that the running code is about to write
  ext,            \* locks held by clients (channel_lock)
  drained,        \* history: the read side has given up the creator's lock
  peer_shut,      \* the peer has shut down its side
  writes          \* history: messages written so far

life   == <<state, lock_cnt, deleted, drained, shut_wr>>
input  == <<read_pending, eof, message_count, handling_msg>>
output == <<obuf, out_errno, out_flush_cnt, out_eom_cnt, flush_events>>
other  == <<ext, peer_shut, writes>>
vars   == <<oqVars, life, input, output, pc, todo, other>>

\* create_channel
Init ==
  /\ OqInit
  /\ state = "StartWait" /\ lock_cnt = 1 /\ deleted = FALSE
  /\ drained = FALSE /\ shut_wr = FALSE
  /\ read_pending = FALSE /\ eof = FALSE /\ message_count = 0 /\ handling_msg = "Idle"
  /\ obuf = <<>> /\ out_errno = FALSE
  /\ out_flush_cnt = 0 /\ out_eom_cnt = 0 /\ flush_events = 0
  /\ pc = "idle" /\ todo = <<>>
  /\ ext = 0 /\ peer_shut = FALSE /\ writes = 0

\* The dispatch thread is free to take the next event.
Idle == pc = "idle" /\ todo = <<>> /\ ~deleted

-----------------------------------------------------------------------------
(* Locks.                                                                  *)

Delete == deleted' = TRUE

\* lock_cnt changes by n; tcp_unlock deletes the channel at 0.
LockBy(n) == /\ lock_cnt' = lock_cnt + n
             /\ IF lock_cnt + n = 0 THEN Delete ELSE UNCHANGED deleted

\* channel_lock and channel_unlock by a client.  After the close listeners
\* have run only those that hold a lock know the channel.
ClientLock ==
  /\ todo = <<>> /\ pc # "closing" /\ ~deleted
  /\ state # "Disconnected" \/ ext > 0
  /\ ext < MaxLocks
  /\ ext' = ext + 1
  /\ LockBy(1)
  /\ UNCHANGED <<oqVars, state, drained, shut_wr, input, output, pc, todo, peer_shut, writes>>

ClientUnlock ==
  /\ todo = <<>> /\ pc # "closing" /\ ~deleted
  /\ ext > 0
  /\ ext' = ext - 1
  /\ LockBy(-1)
  /\ UNCHANGED <<oqVars, state, drained, shut_wr, input, output, pc, todo, peer_shut, writes>>

-----------------------------------------------------------------------------
(* The output stream.                                                      *)

\* tcp_flush_with_flags: hand obuf to the queue, or drop it if the channel is
\* closed or broken.  A write request that is posted locks the channel.
Flushes == obuf # <<>> /\ state # "Disconnected" /\ ~out_errno

FlushToQueue == IF Flushes THEN AddObuf(obuf) ELSE UNCHANGED oqVars

FlushLocks == IF Flushes /\ queue = <<>> THEN 1 ELSE 0

\* tcp_write_stream posts at most two flush events.
PostsFlush(u) == u = "EOM" /\ out_flush_cnt < 2

\* tcp_write_stream for the next unit.
WriteUnit ==
  /\ todo # <<>> /\ ~deleted
  /\ LET u    == Head(todo)
         full == Len(obuf) = ObufSize
         post == PostsFlush(u)
     IN  /\ IF full THEN FlushToQueue ELSE UNCHANGED oqVars
         /\ obuf' = Append(IF full THEN <<>> ELSE obuf, u)
         /\ out_eom_cnt' = (IF full THEN 0 ELSE out_eom_cnt) + (IF u = "EOM" THEN 1 ELSE 0)
         /\ out_flush_cnt' = out_flush_cnt + (IF post THEN 1 ELSE 0)
         /\ flush_events' = flush_events + (IF post THEN 1 ELSE 0)
         /\ LockBy((IF full THEN FlushLocks ELSE 0)
                   + (IF post /\ out_flush_cnt = 0 THEN 1 ELSE 0))
  /\ todo' = Tail(todo)
  /\ UNCHANGED <<state, drained, shut_wr, input, out_errno, pc, other>>

\* A client starts to write a message.
WriteMessage ==
  /\ todo = <<>> /\ pc # "closing" /\ ~deleted
  /\ state = "Started" \/ (state = "Disconnected" /\ ext > 0)
  /\ writes < MaxWrites /\ writes' = writes + 1
  /\ todo' = <<"x", "EOM">>
  /\ UNCHANGED <<oqVars, life, input, output, pc, ext, peer_shut>>

\* When tcp_flush_event flushes.
FlushEventFlushes == out_flush_cnt = 1 \/ out_eom_cnt > 3

\* tcp_flush_event
FlushEvent ==
  /\ Idle /\ flush_events > 0
  /\ flush_events' = flush_events - 1
  /\ out_flush_cnt' = out_flush_cnt - 1
  /\ IF FlushEventFlushes
     THEN /\ FlushToQueue
          /\ obuf' = <<>> /\ out_eom_cnt' = 0
     ELSE UNCHANGED <<oqVars, obuf, out_eom_cnt>>
  /\ LockBy((IF FlushEventFlushes THEN FlushLocks ELSE 0)
            - (IF out_flush_cnt = 1 THEN 1 ELSE 0))
  /\ UNCHANGED <<state, drained, shut_wr, input, out_errno, pc, todo, other>>

\* When done_write_request shuts the socket down.
ShutsWhen == queue' = <<>> /\ state = "Disconnected"

\* Fault: the lock of the next request is forgotten.
NextWriteLock_Forgotten == 0

\* output_queue_done posts, and so locks, the next request.
NextWriteLock == IF queue' # <<>> THEN 1 ELSE 0

\* Fault: the completion of the request is not posted.
WriteDone_Lost == FALSE /\ UNCHANGED vars

\* done_write_request
WriteDone ==
  /\ Idle
  /\ \/ (\E n \in 0..ObufSize : DoneOk(n)) /\ UNCHANGED out_errno
     \/ DoneError /\ out_errno' = TRUE
  /\ shut_wr' = (shut_wr \/ ShutsWhen)
  /\ LockBy(NextWriteLock - 1)
  /\ UNCHANGED <<state, drained, input, obuf, out_flush_cnt, out_eom_cnt, flush_events,
                 pc, todo, other>>

-----------------------------------------------------------------------------
(* Close.                                                                  *)

\* Fault: a posted handle_channel_msg is left behind.
CancelHandling_Forgotten == UNCHANGED handling_msg

\* cancel_event(handle_channel_msg)
CancelHandling == handling_msg' = IF handling_msg = "Triggered" THEN "Idle" ELSE handling_msg

\* send_eof_and_close up to the first write: ibuf_flush, cancel_event.
BeginClose ==
  /\ todo = <<>> /\ pc # "closing" /\ ~deleted
  /\ state # "Disconnected"
  /\ message_count' = 0
  /\ CancelHandling
  /\ pc' = "closing"
  /\ todo' = <<"EOS", "x", "EOM">>
  /\ UNCHANGED <<oqVars, life, read_pending, eof, output, other>>

\* Fault: nobody reads the rest of the stream.
PostReadAtClose_Never == UNCHANGED read_pending

\* tcp_post_read, which ignores a request that is pending.
PostReadAtClose == read_pending' = TRUE

\* The rest of send_eof_and_close: flush, shut down if there is nothing to
\* wait for, go on reading to the end of the stream.  The close listeners and
\* "disconnected" run under a lock of their own.  What a handler still does
\* after it has closed the channel is what clients may do at any time: the
\* handler counts as ended here.
EndClose ==
  /\ pc = "closing" /\ todo = <<>>
  /\ FlushToQueue
  /\ obuf' = <<>> /\ out_eom_cnt' = 0
  /\ LockBy(FlushLocks)
  /\ shut_wr' = (queue' = <<>>)
  /\ state' = "Disconnected"
  /\ PostReadAtClose
  /\ pc' = "idle"
  /\ UNCHANGED <<drained, eof, message_count, handling_msg, out_errno, out_flush_cnt,
                 flush_events, todo, other>>

-----------------------------------------------------------------------------
(* Input.                                                                  *)

\* channel_start and start_channel: the hello message, the first read.
Start ==
  /\ Idle /\ state = "StartWait"
  /\ state' = "Started"
  /\ todo' = <<"x", "EOM">>
  /\ read_pending' = TRUE
  /\ UNCHANGED <<oqVars, lock_cnt, deleted, drained, shut_wr, eof, message_count,
                 handling_msg, output, pc, other>>

Triggered == IF handling_msg = "Idle" THEN "Triggered" ELSE handling_msg

\* tcp_channel_read_done with data: m messages are complete.  Reading stops
\* when the buffer is full, until a handler makes room.
ReadData(m, full) ==
  /\ Idle /\ read_pending /\ ~peer_shut
  /\ state # "Disconnected"
  /\ message_count + m <= MaxMsgs
  /\ full => message_count + m > 0
  /\ message_count' = message_count + m
  /\ handling_msg' = IF m > 0 THEN Triggered ELSE handling_msg
  /\ read_pending' = ~full
  /\ UNCHANGED <<oqVars, life, eof, output, pc, todo, other>>

\* tcp_channel_read_done at the end of the stream or after an error.
ReadEof ==
  /\ Idle /\ read_pending /\ peer_shut
  /\ state # "Disconnected"
  /\ read_pending' = FALSE
  /\ eof' = TRUE
  /\ message_count' = IF eof THEN message_count ELSE message_count + 1
  /\ handling_msg' = IF eof THEN handling_msg ELSE Triggered
  /\ UNCHANGED <<oqVars, life, output, pc, todo, other>>

\* tcp_channel_read_done after close: the data is dropped, and the end of the
\* stream gives up the lock of create_channel.
ReadAfterClose ==
  /\ Idle /\ read_pending
  /\ state = "Disconnected"
  /\ IF ~peer_shut
     THEN UNCHANGED <<read_pending, lock_cnt, deleted, drained>>
     ELSE /\ read_pending' = FALSE /\ drained' = TRUE
          /\ LockBy(-1)
  /\ UNCHANGED <<oqVars, state, shut_wr, eof, message_count, handling_msg, output, pc,
                 todo, other>>

\* handle_channel_msg with a message: the handler runs.
HandleMsg ==
  /\ Idle /\ handling_msg = "Triggered" /\ message_count > 0 /\ ~eof
  /\ handling_msg' = "Active"
  /\ pc' = "handler"
  /\ UNCHANGED <<oqVars, life, read_pending, eof, message_count, output, todo, other>>

\* handle_channel_msg at eof: channel_close.
HandleEof ==
  /\ Idle /\ handling_msg = "Triggered" /\ message_count > 0 /\ eof
  /\ message_count' = 0 /\ handling_msg' = "Idle"
  /\ pc' = "closing"
  /\ todo' = <<"EOS", "x", "EOM">>
  /\ UNCHANGED <<oqVars, life, read_pending, eof, output, other>>

\* The handler has read its message to the end; there is room to read more.
MessageRead ==
  /\ pc = "handler" /\ todo = <<>> /\ handling_msg = "Active" /\ state = "Started"
  /\ message_count' = message_count - 1
  /\ handling_msg' = IF message_count > 1 THEN "Triggered" ELSE "Idle"
  /\ read_pending' = TRUE
  /\ UNCHANGED <<oqVars, life, eof, output, pc, todo, other>>

\* The handler returns; it may have closed the channel.
HandlerReturns ==
  /\ pc = "handler" /\ todo = <<>>
  /\ handling_msg # "Active"
  /\ pc' = "idle"
  /\ UNCHANGED <<oqVars, life, input, output, todo, other>>

PeerShuts ==
  /\ ~peer_shut
  /\ peer_shut' = TRUE
  /\ UNCHANGED <<oqVars, life, input, output, pc, todo, ext, writes>>

-----------------------------------------------------------------------------
\* What the agent's own loop does; clients' calls are not among it.
LoopStep == WriteUnit \/ FlushEvent \/ EndClose \/ HandleMsg \/ HandleEof
            \/ MessageRead \/ HandlerReturns

ReadStep == ReadEof \/ ReadAfterClose
            \/ \E m \in 0..MaxMsgs, full \in BOOLEAN : ReadData(m, full)

Next ==
  \/ Start
  \/ LoopStep
  \/ WriteDone
  \/ ReadStep
  \/ WriteMessage \/ BeginClose \/ ClientLock \/ ClientUnlock
  \/ PeerShuts

Spec == Init /\ [][Next]_vars

\* Events are dispatched, a write makes progress or fails, locks are given
\* back, and the peer ends the connection.
Fairness ==
  /\ WF_vars(LoopStep) /\ SF_vars(FlushEvent)
  /\ SF_vars(WriteDone /\ (sent' # sent \/ error'))
  /\ SF_vars(ReadAfterClose)
  /\ SF_vars(ClientUnlock)
  /\ WF_vars(PeerShuts)

FairSpec == Spec /\ Fairness

-----------------------------------------------------------------------------
(* Properties.                                                             *)

Count(b) == IF b THEN 1 ELSE 0

\* lock_cnt is the number of those who still need the channel: its creator
\* until the input has ended, the write request, the posted flush events
\* (one lock for all of them, of which there are at most two) and the clients.
LockAccounting ==
  /\ lock_cnt = Count(~drained) + Count(request # None) + Count(out_flush_cnt > 0) + ext
  /\ flush_events = out_flush_cnt /\ flush_events <= 2

\* The assertions of delete_channel, and that no event is left that would run
\* on the freed channel.
DeletedIsUnused ==
  deleted => /\ ~read_pending /\ request = None
             /\ out_flush_cnt = 0 /\ flush_events = 0
             /\ handling_msg # "Triggered"
             /\ pc = "idle" /\ todo = <<>> /\ ext = 0

\* SHUT_WR is called when nothing is left to send, and then everything up to
\* the EOS marker of the close has been sent, unless the connection failed.
ShutAfterLastData ==
  shut_wr => /\ queue = <<>>
             /\ out_errno \/ (sent = accepted /\ <<"EOS", "x", "EOM">> =
                                SubSeq(sent, Len(sent) - 2, Len(sent)))

\* What was written arrives whole: short writes and the filling up of buffers lose
\* nothing, and the shutdown of a closed socket cuts nothing off.
OutputDelivered == OutputIntact /\ ShutAfterLastData

\* A closed channel goes away once the peer has ended the connection and the
\* clients have given back their locks.
ClosedIsDeleted == (state = "Disconnected") ~> deleted

\* Every message that was written leaves the agent, unless the connection
\* failed or was closed.
WrittenIsSent == (out_eom_cnt > 0) ~> (obuf = <<>> /\ queue = <<>>)
=============================================================================
