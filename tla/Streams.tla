------------------------------ MODULE Streams ------------------------------
(***************************************************************************)
(* One virtual stream (agent/tcf/services/streamsservice.c) with the       *)
(* process that owns it (agent/tcf/services/processes.c).                  *)
(*                                                                         *)
(* A stream carries the output of a process to the channels that read it   *)
(* ("READ") or what channels write to the input of a process ("WRITE").    *)
(* Its ring buffer is filled and emptied by command handlers, by the       *)
(* owner's callback and by the completions of the owner's requests.  All   *)
(* of them run on the dispatch thread; what is concurrent is their order,  *)
(* the events posted on the way, and clients that come, go, and leave      *)
(* commands waiting.                                                       *)
(***************************************************************************)
EXTENDS Integers, Sequences, FiniteSets, SequencesExt, FiniteSetsExt

CONSTANTS
  Channels,     \* channels whose clients use the stream
  Owner,        \* the process, as the reader of a "WRITE" stream
  Size,         \* the buf_len given to virtual_stream_create
  OwnerBuf,     \* sizeof the owner's own buffer
  ReadSizes,    \* sizes clients ask for, all positive
  WriteSizes,   \* sizes of the clients' writes
  MaxBytes,     \* bound: bytes offered to the stream
  MaxConnects,  \* bound: connects and subscriptions
  MaxParked     \* bound: commands of a client that wait

ASSUME StreamsAssumption ==
  /\ Size \in Nat \ {0} /\ OwnerBuf \in Nat \ {0}
  /\ ReadSizes \subseteq Nat \ {0} /\ WriteSizes \subseteq Nat
  /\ Owner \notin Channels

VARIABLES
  st,        \* struct VirtualStream with its clients; see NoStream
  owner,     \* struct ProcessInput or ProcessOutput
  subs,      \* subscriptions to the stream's type, newest first, until it exists
  open,      \* channels that are not closed
  sent,      \* channel (or Owner) -> bytes it has offered so far
  connects   \* connects and subscriptions so far

vars == <<st, owner, subs, open, sent, connects>>

BufLen == Size + 1

\* struct StreamClient.  start, got, told and acked are histories: where it
\* joined, what its reads were given, the end it was told, and the bytes of its
\* writes that were answered without an error.
NewClient(p) == [pos |-> p, reads |-> <<>>, writes |-> <<>>,
                 start |-> p, got |-> <<>>, told |-> FALSE, acked |-> {}]

\* life is the magic word: "none" before creation, "freed" after delete_stream.
\* queue: posted events; log: history of the accepted bytes.
NoStream == [life |-> "none", access |-> "none", ref_cnt |-> 0, deleted |-> FALSE,
             clients |-> <<>>, pos |-> 0, buf |-> [i \in 0..Size |-> <<>>],
             buf_inp |-> 0, buf_out |-> 0, eos_inp |-> FALSE, eos_out |-> FALSE,
             data_posted |-> FALSE, space_posted |-> FALSE, queue |-> <<>>,
             cl |-> [c \in Channels |-> NewClient(0)], log |-> <<>>]

Init == /\ st = NoStream
        /\ owner = [posted |-> FALSE, buf |-> <<>>, rd_eos |-> FALSE, eos |-> FALSE,
                    prs |-> TRUE, taken |-> <<>>]
        /\ subs = <<>> /\ open = Channels /\ connects = 0
        /\ sent = [c \in Channels \cup {Owner} |-> 0]
-----------------------------------------------------------------------------
(* The ring buffer.                                                        *)

\* Strict(op, x) is op(x).  It makes TLC evaluate x once, where the handlers
\* below pass a whole stream from call to call.
Strict(op(_), x) == CHOOSE y \in {op(z) : z \in {x}} : TRUE

Used(s) == (s.buf_inp + BufLen - s.buf_out) % BufLen
Free(s) == (s.buf_out + BufLen - s.buf_inp - 1) % BufLen

Clients(s) == Range(s.clients)

PostData(s) == IF s.data_posted THEN s
               ELSE [s EXCEPT !.queue = Append(@, "data"), !.data_posted = TRUE]
PostSpace(s) == IF s.space_posted THEN s
                ELSE [s EXCEPT !.queue = Append(@, "space"), !.space_posted = TRUE]

\* Fault: the buffer is advanced to the fastest client.
AdvanceStreamBuffer_Fastest(s) ==
  LET places == {s.cl[c].pos : c \in Clients(s)}
      read   == IF places = {} THEN Used(s)
                ELSE Max({0, Max(places) - (s.pos - Used(s))})
  IN IF read = 0 THEN s ELSE PostSpace([s EXCEPT !.buf_out = (@ + read) % BufLen])

\* advance_stream_buffer: give up what every client has read; all of it when
\* there is no client.
AdvanceStreamBuffer(s) ==
  LET places == {s.cl[c].pos : c \in Clients(s)}
      read   == IF places = {} THEN Used(s)
                ELSE Max({0, Min(places) - (s.pos - Used(s))})
  IN IF read = 0 THEN s ELSE PostSpace([s EXCEPT !.buf_out = (@ + read) % BufLen])

\* send_read_reply: the oldest unread bytes, at most size of them.
SendReadReply(s, c, size) ==
  LET behind == s.pos - s.cl[c].pos
      lost   == Max({0, behind - Used(s)})
      avail  == Min({Used(s), behind})
      n      == Min({avail, size})
      first  == (s.buf_inp + BufLen - avail) % BufLen
      data   == [i \in 1..n |-> s.buf[(first + i - 1) % BufLen]]
  IN [s EXCEPT !.cl[c].pos = @ + lost + n,
               !.cl[c].got = @ \o data,
               !.cl[c].told = @ \/ (s.eos_inp /\ s.cl[c].pos + lost + n = s.pos)]

\* The loop of virtual_stream_add_data over the parked reads of one client.
ServeRead(c, s, size) ==
  IF s.cl[c].pos < s.pos \/ s.eos_inp
  THEN [SendReadReply(s, c, size) EXCEPT !.cl[c].reads = Tail(@)] ELSE s

ServeNext(c, s, size) == Strict(LAMBDA t : ServeRead(c, t, size), s)
ServeAll(c, s) == FoldLeft(LAMBDA t, size : ServeNext(c, t, size), s, s.cl[c].reads)
ServeReads(s, c) == Strict(LAMBDA t : ServeAll(c, t), s)

\* The bytes that fit go to the ring; eos counts only when all of them did.
PutBytes(s, data, eos) ==
  LET n == Min({Free(s), Len(data)})
  IN [s EXCEPT !.buf = [i \in 0..Size |->
                          LET k == (i + BufLen - s.buf_inp) % BufLen
                          IN IF k < n THEN data[k + 1] ELSE @[i]],
               !.buf_inp = (@ + n) % BufLen,
               !.pos = @ + n,
               !.log = @ \o SubSeq(data, 1, n),
               !.eos_inp = eos /\ n = Len(data)]

\* s has become t: the parked reads are answered, or the owner is told.
ServeClients(t) == Strict(AdvanceStreamBuffer, FoldLeft(ServeReads, t, t.clients))

Added(s, t) ==
  [s |-> IF s.access = "READ"
         THEN IF ~s.eos_inp /\ (t.eos_inp \/ t.pos > s.pos) THEN ServeClients(t) ELSE t
         ELSE PostData(t),
   done |-> t.pos - s.pos, err |-> s.eos_inp]

Filled(s, data, eos) == IF s.eos_inp THEN s ELSE PutBytes(s, data, eos)

\* virtual_stream_add_data: the new stream, the bytes taken, the error.
AddData(s, data, eos) == Strict(LAMBDA t : Added(s, t), Filled(s, data, eos))

\* virtual_stream_get_data tries the first parked write of client c once; an
\* error answers it and cancels those behind it.
Fed(c, w, a) ==
  CASE a.err -> [a.s EXCEPT !.cl[c].writes = <<>>]
    [] ~a.err /\ a.done = Len(w.data) ->
         [a.s EXCEPT !.cl[c].writes = Tail(@), !.cl[c].acked = @ \cup w.all]
    [] OTHER -> [a.s EXCEPT !.cl[c].writes[1].data = SubSeq(@, a.done + 1, Len(@))]

FeedFirst(c, s) ==
  IF s.cl[c].writes = <<>> THEN s
  ELSE LET w == Head(s.cl[c].writes)
       IN Strict(LAMBDA a : Fed(c, w, a), AddData(s, w.data, w.eos))

FeedWrite(s, c) == Strict(LAMBDA t : FeedFirst(c, t), s)

\* Fault: parked writes are tried only when data is taken.
GetData_FeedsWithData(s, size) ==
  LET n    == Min({Used(s), size})
      eos  == Used(s) <= size /\ s.eos_inp
      data == [i \in 1..n |-> s.buf[(s.buf_out + i - 1) % BufLen]]
      Take(fed) == PostSpace([fed EXCEPT !.buf_out = (@ + n) % BufLen])
  IN [data |-> data, eos |-> eos,
      s |-> IF n = 0 THEN [s EXCEPT !.eos_out = @ \/ eos]
            ELSE Strict(Take, FoldLeft(FeedWrite, [s EXCEPT !.eos_out = @ \/ eos], s.clients))]

\* virtual_stream_get_data: the bytes, the end, and the stream left behind.
\* The parked writes are tried before the bytes taken make room.
FeedClients(s) == FoldLeft(FeedWrite, s, s.clients)
Take(s, n) == IF n > 0 THEN PostSpace([s EXCEPT !.buf_out = (@ + n) % BufLen]) ELSE s

GetData(s, size) ==
  LET n   == Min({Used(s), size})
      eos == Used(s) <= size /\ s.eos_inp
  IN [data |-> [i \in 1..n |-> s.buf[(s.buf_out + i - 1) % BufLen]], eos |-> eos,
      s |-> Strict(LAMBDA t : Take(t, n), FeedClients([s EXCEPT !.eos_out = @ \/ eos]))]
-----------------------------------------------------------------------------
(* Life of the stream and of its clients.                                  *)

\* list_remove of what c has in a list of clients or subscriptions, if anything.
LinkOf(q, c) == CHOOSE k \in DOMAIN q : q[k] = c
Unlink(q, c) == IF c \in Range(q) THEN RemoveAt(q, LinkOf(q, c)) ELSE q

\* create_client: a new client may still read what is in the buffer.
CreateClient(s, c) ==
  [s EXCEPT !.cl[c] = NewClient(s.pos - Used(s)), !.clients = <<c>> \o @, !.ref_cnt = @ + 1]

Release(s) ==
  LET t == [s EXCEPT !.ref_cnt = @ - 1]
  IN IF t.ref_cnt = 0 THEN [t EXCEPT !.queue = Append(@, "delete")] ELSE t

\* delete_client: what it left waiting is cancelled.
DeleteClient(s, c) ==
  LET t == Release([s EXCEPT !.clients = Unlink(@, c), !.cl[c] = NewClient(0)])
  IN IF t.ref_cnt > 0 /\ s.access = "READ" THEN AdvanceStreamBuffer(t) ELSE t

\* Fault: the stream is freed with its owner, whoever is still connected.
VirtualStreamDelete_AtOnce(s) ==
  [s EXCEPT !.deleted = TRUE, !.ref_cnt = @ - 1, !.queue = Append(@, "delete")]

VirtualStreamDelete(s) == Release([s EXCEPT !.deleted = TRUE])

-----------------------------------------------------------------------------
(* The owner: process_input_streams_callback writes to the process what it *)
(* gets from the stream, process_output_streams_callback adds to the       *)
(* stream what was read from the process.  owner.buf is what is left in    *)
(* its buffer, owner.posted a request in flight.                           *)

InputGot(o, g) ==
  [s |-> g.s, o |-> [o EXCEPT !.buf = g.data, !.eos = g.eos, !.posted = g.data # <<>>,
                              !.taken = @ \o g.data]]

InputCallback(s, o) ==
  IF o.posted THEN [s |-> s, o |-> o]
  ELSE IF o.buf = <<>> /\ ~o.eos
  THEN Strict(LAMBDA g : InputGot(o, g), GetData(s, OwnerBuf))
  ELSE [s |-> s, o |-> [o EXCEPT !.posted = o.buf # <<>>]]

OutputAdded(o, a) ==
  LET all == a.done = Len(o.buf)
  IN [s |-> IF all /\ o.rd_eos /\ Used(a.s) = 0 THEN VirtualStreamDelete(a.s) ELSE a.s,
      o |-> [o EXCEPT !.buf = SubSeq(@, a.done + 1, Len(@)),
                      !.eos = @ \/ (all /\ o.rd_eos), !.posted = all /\ ~o.rd_eos]]

AddOutput(s, o) == IF o.buf # <<>> \/ o.eos # o.rd_eos THEN AddData(s, o.buf, o.rd_eos)
                   ELSE [s |-> s, done |-> 0, err |-> FALSE]

OutputCallback(s, o) ==
  IF o.posted THEN [s |-> s, o |-> o]
  ELSE Strict(LAMBDA a : OutputAdded(o, a), AddOutput(s, o))

Callback(s, o) == IF s.access = "READ" THEN OutputCallback(s, o) ELSE InputCallback(s, o)

\* The callback is called with the stream and the owner as the caller left them.
Call(f(_, _), s, o) == \E r \in {f(s, o)} : st' = r.s /\ owner' = r.o

\* delete_stream, notify_data_available, notify_space_available.
Dispatch ==
  /\ st.queue # <<>>
  /\ LET e == Head(st.queue)
         s == [st EXCEPT !.queue = Tail(@)]
     IN \/ /\ e = "delete"
           /\ st' = [s EXCEPT !.life = "freed"] /\ UNCHANGED owner
        \/ /\ e = "data"
           /\ LET t == [s EXCEPT !.data_posted = FALSE]
              IN IF t.deleted \/ t.eos_out THEN st' = t /\ UNCHANGED owner
                 ELSE Call(Callback, t, owner)
        \/ /\ e = "space"
           /\ LET t == [s EXCEPT !.space_posted = FALSE]
              IN IF t.deleted \/ t.eos_inp THEN st' = t /\ UNCHANGED owner
                 ELSE Call(Callback, t, owner)
  /\ UNCHANGED <<subs, open, sent, connects>>

Bytes(src, n) == [i \in 1..n |-> <<src, sent[src] + i>>]
Offered == FoldFunction(LAMBDA x, y : x + y, 0, sent)

\* write_process_input_done.  A failed write throws the buffer away; after the
\* process has exited the stream is deleted.
ProcessWriteDone ==
  /\ st.access = "WRITE" /\ owner.posted
  /\ LET o == [owner EXCEPT !.posted = FALSE]
     IN IF ~o.prs THEN st' = VirtualStreamDelete(st) /\ owner' = [o EXCEPT !.buf = <<>>]
        ELSE \/ Call(InputCallback, st, [o EXCEPT !.buf = <<>>])
             \/ \E n \in 1..Len(o.buf) :
                  Call(InputCallback, st, [o EXCEPT !.buf = SubSeq(@, n + 1, Len(@))])
  /\ UNCHANGED <<subs, open, sent, connects>>

\* read_process_output_done, with data or with the end of the output.
ProcessReadDone ==
  /\ st.access = "READ" /\ owner.posted
  /\ \E n \in 0..OwnerBuf :
       /\ Offered + n <= MaxBytes
       /\ sent' = [sent EXCEPT ![Owner] = @ + n]
       /\ Call(OutputCallback, st, [owner EXCEPT !.posted = FALSE, !.rd_eos = n = 0,
                                                 !.buf = Bytes(Owner, n)])
  /\ UNCHANGED <<subs, open, connects>>

\* process_exited deletes the input stream unless a write is in flight.  For an
\* output stream it only forgets the process.
ProcessExited ==
  /\ st.access = "WRITE" /\ owner.prs
  /\ owner' = [owner EXCEPT !.prs = FALSE]
  /\ st' = IF owner.posted THEN st ELSE VirtualStreamDelete(st)
  /\ UNCHANGED <<subs, open, sent, connects>>

\* virtual_stream_create by write_process_input or read_process_output.  Every
\* subscriber becomes a client.
CreateClients(s, q) == FoldLeft(CreateClient, s, q)

Create(access) ==
  /\ st.life = "none"
  /\ st' = CreateClients([st EXCEPT !.life = "live", !.access = access, !.ref_cnt = 1], subs)
  /\ owner' = [owner EXCEPT !.posted = access = "READ"]
  /\ subs' = <<>>
  /\ UNCHANGED <<open, sent, connects>>
-----------------------------------------------------------------------------
(* Commands.  One that finds no client, or a stream that does not support  *)
(* it, is answered with an error and changes nothing.                      *)

\* A subscription matters to streams that are created later: here, until the
\* stream exists.
Subscribe(c) ==
  /\ c \in open \ Range(subs) /\ connects < MaxConnects /\ st.life = "none"
  /\ subs' = <<c>> \o subs /\ connects' = connects + 1
  /\ UNCHANGED <<st, owner, open, sent>>

Unsubscribe(c) ==
  /\ c \in open \cap Range(subs) /\ st.life = "none"
  /\ subs' = Unlink(subs, c)
  /\ UNCHANGED <<st, owner, open, sent, connects>>

\* virtual_stream_find does not find a deleted stream.
Connect(c) ==
  /\ c \in open \ Clients(st) /\ st.life = "live" /\ ~st.deleted
  /\ connects < MaxConnects
  /\ st' = CreateClient(st, c) /\ connects' = connects + 1
  /\ UNCHANGED <<owner, subs, open, sent>>

Disconnect(c) ==
  /\ c \in open \cap Clients(st)
  /\ st' = DeleteClient(st, c)
  /\ UNCHANGED <<owner, subs, open, sent, connects>>

\* channel_close_listener.
CloseChannel(c) ==
  /\ c \in open
  /\ open' = open \ {c} /\ subs' = Unlink(subs, c)
  /\ st' = IF c \in Clients(st) THEN DeleteClient(st, c) ELSE st
  /\ UNCHANGED <<owner, sent, connects>>

Read(c) ==
  /\ c \in open \cap Clients(st) /\ st.access = "READ"
  /\ \E size \in ReadSizes :
       IF st.cl[c].pos = st.pos /\ ~st.eos_inp
       THEN /\ Len(st.cl[c].reads) < MaxParked
            /\ st' = [st EXCEPT !.cl[c].reads = Append(@, size)]
       ELSE st' = AdvanceStreamBuffer(SendReadReply(st, c, size))
  /\ UNCHANGED <<owner, subs, open, sent, connects>>

Park(s, c, data, all, eos) ==
  [s EXCEPT !.cl[c].writes = Append(@, [data |-> data, all |-> all, eos |-> eos])]

\* Fault: a write does not wait behind the parked ones.
WriteOrPark_Overtakes(s, c, data, eos) ==
  LET a == AddData(s, data, eos)
  IN CASE a.err -> a.s
       [] ~a.err /\ a.done < Len(data) ->
            Park(a.s, c, SubSeq(data, a.done + 1, Len(data)), Range(data), FALSE)
       [] OTHER -> [a.s EXCEPT !.cl[c].acked = @ \cup Range(data)]

\* The tail of virtual_stream_write and virtual_stream_eos: data is tried at
\* once unless others wait before it, and what does not fit is parked.
WriteOrPark(s, c, data, eos) ==
  IF s.cl[c].writes # <<>> THEN Park(s, c, data, Range(data), eos)
  ELSE LET a == AddData(s, data, eos)
       IN CASE a.err -> a.s
            [] ~a.err /\ a.done < Len(data) ->
                 Park(a.s, c, SubSeq(data, a.done + 1, Len(data)), Range(data), FALSE)
            [] OTHER -> [a.s EXCEPT !.cl[c].acked = @ \cup Range(data)]

Writable(c) == /\ c \in open \cap Clients(st) /\ st.access = "WRITE"
               /\ Len(st.cl[c].writes) < MaxParked

Write(c) ==
  /\ Writable(c)
  /\ \E n \in WriteSizes :
       /\ Offered + n <= MaxBytes
       /\ sent' = [sent EXCEPT ![c] = @ + n]
       /\ st' = WriteOrPark(st, c, Bytes(c, n), FALSE)
  /\ UNCHANGED <<owner, subs, open, connects>>

Eos(c) ==
  /\ Writable(c)
  /\ st' = WriteOrPark(st, c, <<>>, TRUE)
  /\ UNCHANGED <<owner, subs, open, sent, connects>>

Next == \/ Dispatch \/ ProcessWriteDone \/ ProcessReadDone \/ ProcessExited
        \/ \E access \in {"READ", "WRITE"} : Create(access)
        \/ \E c \in Channels : \/ Subscribe(c) \/ Unsubscribe(c) \/ Connect(c)
                               \/ Disconnect(c) \/ CloseChannel(c)
                               \/ Read(c) \/ Write(c) \/ Eos(c)

Spec == Init /\ [][Next]_vars

\* The dispatch thread runs posted events; a write to a process completes,
\* because the process reads, closes its input or exits.
FairSpec == Spec /\ WF_vars(Dispatch) /\ WF_vars(ProcessWriteDone)
-----------------------------------------------------------------------------
ReadClient(s, c) == s.access = "READ" /\ c \in Clients(s)

\* The stream as its readers see it: the clients of a "READ" stream, the owner
\* of a "WRITE" stream.
Seen(s, o, r) ==
  IF r = Owner
  THEN [on |-> s.access = "WRITE" /\ ~s.deleted, start |-> 0,
        got |-> IF s.deleted THEN <<>> ELSE o.taken, eos |-> s.eos_out /\ ~s.deleted]
  ELSE IF ReadClient(s, r)
  THEN [on |-> TRUE, start |-> s.cl[r].start, got |-> s.cl[r].got, eos |-> s.cl[r].told]
  ELSE [on |-> FALSE, start |-> 0, got |-> <<>>, eos |-> FALSE]

Abstract == INSTANCE StreamSpec
  WITH Readers <- Channels \cup {Owner}, log <- st.log, closed <- st.eos_inp,
       at <- [r \in Channels \cup {Owner} |-> Seen(st, owner, r)]

\* The ring buffer, the parked requests, the cancelled ones and the callbacks
\* together implement the abstract stream: every reader is given the accepted
\* bytes from the place where it joined, contiguously and in order, is told the
\* end only after the last byte, and no byte is overwritten before the slowest
\* reader has it (virtual_stream_add_data, virtual_stream_get_data,
\* send_read_reply, advance_stream_buffer).
StreamImplemented == Abstract!AbsSpec

\* The reference count is the owner plus the connected clients, and
\* delete_stream is the last event of the stream, posted only when nobody is
\* left: the asserts on magic, clients and deleted (streamsservice.c:238-240,
\* 249, 257, 336-337) never fail.
RefCountExact ==
  /\ st.life = "live" /\ "delete" \notin Range(st.queue) =>
       /\ st.ref_cnt = Len(st.clients) + (IF st.deleted THEN 0 ELSE 1)
       /\ st.ref_cnt > 0
  /\ \A i \in 1..Len(st.queue) : st.queue[i] = "delete" =>
       i = Len(st.queue) /\ st.deleted /\ st.clients = <<>>
  /\ st.life = "freed" => st.clients = <<>> /\ st.queue = <<>> /\ ~owner.posted

\* A read is parked only while its client has had every byte and more may come;
\* whoever adds data answers the reads it can (assert at streamsservice.c:683).
ReadsWaitOnlyForData ==
  \A c \in Channels : ReadClient(st, c) /\ st.cl[c].reads # <<>> =>
    st.cl[c].pos = st.pos /\ ~st.eos_inp

\* The bytes of c in q are in the order in which it sent them.
Rising(c, q) ==
  \A i, j \in DOMAIN q : i < j /\ q[i][1] = c /\ q[j][1] = c => q[i][2] < q[j][2]

\* The bytes of c in p were sent before those of q.
Precede(c, p, q) == \A i \in DOMAIN p, j \in DOMAIN q : p[i][1] = c => p[i][2] < q[j][2]

\* The bytes of one channel enter the stream in the order it sent them, those
\* that wait included, and a write answered without an error is in the stream
\* completely (virtual_stream_write, virtual_stream_get_data).
WritesInOrder ==
  \A c \in Channels :
    LET w == st.cl[c].writes
    IN /\ Rising(c, st.log) /\ st.cl[c].acked \subseteq Range(st.log)
       /\ \A j \in DOMAIN w : /\ Rising(c, w[j].data) /\ Precede(c, st.log, w[j].data)
                             /\ \A i \in 1..j - 1 : Precede(c, w[i].data, w[j].data)

\* No command of a channel is overtaken by its next one, and none is parked that
\* could be served.
CommandsServed == WritesInOrder /\ ReadsWaitOnlyForData

\* A parked write or eos is answered, unless the stream is deleted or the
\* client disconnects: some event that lets the owner take data is always
\* pending while a write is parked.
WritesAnswered ==
  \A c \in Channels : (st.access = "WRITE" /\ st.cl[c].writes # <<>>) ~>
                      (st.deleted \/ st.cl[c].writes = <<>>)
=============================================================================
