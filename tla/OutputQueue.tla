---------------------------- MODULE OutputQueue ----------------------------
(***************************************************************************)
(* The output queue of a channel (agent/tcf/framework/outputbuf.c): a list *)
(* of buffers of which the first one is being written by an asynchronous   *)
(* request, while the dispatch thread appends behind it.                   *)
(*                                                                         *)
(* The request holds a pointer into the first buffer, so that buffer must  *)
(* stay as it is until output_queue_done.                                  *)
(***************************************************************************)
EXTENDS Integers, Sequences, FiniteSets, FiniteSetsExt, SequencesExt

CONSTANTS
  Data,          \* units of data
  ObufSize,      \* units that fit into one buffer (OUTPUT_QUEUE_BUF_SIZE)
  MaxAccepted,   \* bound: units given to the queue
  None           \* no request

ASSUME OutputQueueAssumption ==
  /\ ObufSize \in Nat \ {0}
  /\ MaxAccepted \in Nat
  /\ None \notin Seq(Data)

VARIABLES
  queue,      \* OutputQueue.queue: buffers, each with its data and buf_pos
  error,      \* OutputQueue.error # 0
  request,    \* what the pending request writes, or None
  accepted,   \* history: units taken over by the queue
  sent        \* history: units the requests have written

oqVars == <<queue, error, request, accepted, sent>>

\* struct OutputBuffer
Obuf(d) == [data |-> d, pos |-> 0]

Rest(bf) == SubSeq(bf.data, bf.pos + 1, Len(bf.data))

\* post_io_request for the first buffer.
IoRequest(q) == IF q = <<>> THEN None ELSE Rest(q[1])

OqInit ==
  /\ queue = <<>> /\ error = FALSE /\ request = None
  /\ accepted = <<>> /\ sent = <<>>

\* Fault: data is appended to the buffer that is being written.
MayAppend_First(q) == q # <<>>

\* queue.next != queue.prev: the last buffer is not the one being written.
MayAppend(q) == Len(q) > 1

Gap(q) == ObufSize - Len(Last(q).data)

AppendToLast(q, d) == [q EXCEPT ![Len(q)].data = @ \o d]

\* output_queue_add_obuf: into the last pending buffer if it fits, else as a
\* buffer of its own; the first buffer is posted.
AddObuf(d) ==
  /\ queue' = IF MayAppend(queue) /\ Gap(queue) >= Len(d)
              THEN AppendToLast(queue, d)
              ELSE Append(queue, Obuf(d))
  /\ request' = IF queue = <<>> THEN IoRequest(queue') ELSE request
  /\ accepted' = accepted \o d
  /\ UNCHANGED <<error, sent>>

\* The buffers that the loop of output_queue_add fills with d.
Pieces(d) ==
  [i \in 1..(Len(d) + ObufSize - 1) \div ObufSize |->
     Obuf(SubSeq(d, (i - 1) * ObufSize + 1, Min({i * ObufSize, Len(d)})))]

\* output_queue_add: fill the last pending buffer, then new ones.
Add(d) ==
  /\ ~error
  /\ LET n == IF MayAppend(queue) THEN Min({Gap(queue), Len(d)}) ELSE 0
     IN  queue' = (IF n = 0 THEN queue ELSE AppendToLast(queue, SubSeq(d, 1, n)))
                  \o Pieces(SubSeq(d, n + 1, Len(d)))
  /\ request' = IF queue = <<>> THEN IoRequest(queue') ELSE request
  /\ accepted' = accepted \o d
  /\ UNCHANGED <<error, sent>>

\* Fault: a short write drops the rest of the buffer.
AfterWrite_Short(q, n) == Tail(q)

\* The first buffer after n units of it were written.
AfterWrite(q, n) ==
  IF q[1].pos + n < Len(q[1].data) THEN [q EXCEPT ![1].pos = @ + n] ELSE Tail(q)

\* output_queue_done after a write of n units, possibly a short one.
DoneOk(n) ==
  /\ request # None /\ n \in 0..Len(request)
  /\ queue' = AfterWrite(queue, n)
  /\ request' = IoRequest(queue')
  /\ sent' = sent \o SubSeq(request, 1, n)
  /\ UNCHANGED <<error, accepted>>

\* output_queue_done after a failed write: everything is thrown away.
DoneError ==
  /\ request # None
  /\ queue' = <<>> /\ error' = TRUE /\ request' = None
  /\ UNCHANGED <<accepted, sent>>

\* A client gives data to the queue; the channels stop after an error.
OqNext ==
  \/ \E n \in 1..2 * ObufSize : \E d \in [1..n -> Data] :
       /\ ~error /\ Len(accepted) + n <= MaxAccepted
       /\ (n <= ObufSize /\ AddObuf(d)) \/ Add(d)
  \/ \E n \in 0..ObufSize : DoneOk(n)
  \/ DoneError

OqSpec == OqInit /\ [][OqNext]_oqVars

-----------------------------------------------------------------------------
(* Properties.                                                             *)

\* Every variable stays in its type; no buffer holds more than it can and
\* none is queued that has been written to its end.
OqTypeOK ==
  /\ queue \in Seq([data : Seq(Data), pos : Nat])
  /\ \A i \in DOMAIN queue : /\ Len(queue[i].data) \in 1..ObufSize
                             /\ queue[i].pos < Len(queue[i].data)
  /\ error \in BOOLEAN
  /\ request \in Seq(Data) \cup {None}
  /\ accepted \in Seq(Data) /\ sent \in Seq(Data)

\* The assertions on buf_pos, and more: the buffer that a request writes
\* stays as it was when the request was posted, and a queue that holds data
\* always has a request under way, so that it cannot stall.
RequestStable == request = IoRequest(queue)

Pending == FlattenSeq([i \in DOMAIN queue |-> Rest(queue[i])])

\* Nothing is lost, doubled or reordered by short writes and by filling up
\* buffers; after an error what was sent is still a prefix.
OutputIntact == IF error THEN IsPrefix(sent, accepted) ELSE sent \o Pending = accepted
=============================================================================
