------------------------------ MODULE InputBuf ------------------------------
(***************************************************************************)
(* The circular input buffer of a channel (agent/tcf/framework/            *)
(* inputbuf.c) with the callbacks that channel_tcp.c gives it.             *)
(*                                                                         *)
(* Bytes arrive in pieces of any size.  ibuf_read_done scans them once, to *)
(* count messages and trigger the handler; the handler then reads them     *)
(* through ibuf_get_more, which decodes the escapes a second time, with    *)
(* its own state.  The two decoders must agree although each may be        *)
(* stopped in the middle of an escape sequence, the buffer wraps, grows,   *)
(* and may be too small for one message.                                   *)
(*                                                                         *)
(* The peer runs the same code: it sends the escapes that                  *)
(* tcp_write_stream, tcp_bin_block_start and tcp_bin_block_end produce,    *)
(* and ends the stream as send_eof_and_close does, between messages or in  *)
(* the middle of one.                                                      *)
(*                                                                         *)
(* A failed assertion of ibuf_read_done is recorded, and the code goes on, *)
(* as it does when built with NDEBUG.                                      *)
(***************************************************************************)
EXTENDS Integers, Sequences, FiniteSets, FiniteSetsExt, SequencesExt

CONSTANTS
  BufSize,     \* initial buf_size (128 * MEM_USAGE_FACTOR)
  MaxBufSize,  \* the size from which the buffer is not enlarged (0x1000000),
               \* BufSize when ENABLE_InputQueue is off
  Symbols,     \* what the peer may send in messages, a subset of DOMAIN Enc
  MaxSyms      \* bound: symbols sent before the peer closes

VARIABLES
  buf, buf_size,   \* the bytes; positions count from 0
  inp,             \* where the next bytes go
  cur, end,        \* stream->cur, stream->end: bytes that can be read directly
  inp_esc, inp_size_mode, inp_data_size,  \* decoder of ibuf_read_done
  assert_failed,   \* its assertion of message_count has failed
  out_esc, out_size_mode, out_data_size,  \* decoder of ibuf_get_more
  eof, long_msg, message_count,
  handling_msg,    \* "Idle", "Triggered" (handle_channel_msg is posted), "Active"
  read_size,       \* size of the read request that is pending, 0 if none
  call,            \* the handler is in "read" or "peek", waits for a read
                   \* inside it ("read_wait", "peek_wait"), has met the end of
                   \* the stream and gives up ("eos"), or "none"
  out,             \* the local variable of ibuf_get_more
  closed,          \* the channel is disconnected
  wire,            \* bytes on their way; s is the symbol that a byte completes
  shut,            \* the peer has shut down its side
  sent, scanned,   \* history: symbols sent, how many are in the buffer,
  received         \* and what the handler got

scan     == <<inp_esc, inp_size_mode, inp_data_size, assert_failed>>
decode   == <<out_esc, out_size_mode, out_data_size>>
messages == <<eof, long_msg, message_count, handling_msg>>
stream   == <<cur, end>>
store    == <<buf, buf_size, inp>>
peer     == <<wire, shut, sent>>
ibuf_vars == <<store, stream, scan, decode, messages, read_size, call, out, closed,
               peer, scanned, received>>

ESC   == 3
Plain == 4

\* What tcp_write_stream and the bin block functions put on the wire.  "B1"
\* and "B2" are binary blocks, in which ESC, and the pair that would end a
\* message, are bytes like any other.
Enc == [D   |-> << [b |-> Plain, s |-> "D"] >>,
        E   |-> << [b |-> ESC, s |-> "none"], [b |-> 0, s |-> "E"] >>,
        EOM |-> << [b |-> ESC, s |-> "none"], [b |-> 1, s |-> "EOM"] >>,
        EOS |-> << [b |-> ESC, s |-> "none"], [b |-> 2, s |-> "EOS"] >>,
        B1  |-> << [b |-> ESC, s |-> "none"], [b |-> 3, s |-> "none"],
                   [b |-> 129, s |-> "none"], [b |-> 0, s |-> "none"],
                   [b |-> ESC, s |-> "E"] >>,
        B2  |-> << [b |-> ESC, s |-> "none"], [b |-> 3, s |-> "none"],
                   [b |-> 130, s |-> "none"], [b |-> 0, s |-> "none"],
                   [b |-> ESC, s |-> "E"], [b |-> 1, s |-> "C"] >>]

IsSymbol(w) == w.s # "none"

\* The symbols that the bytes of Enc complete.
Said == [D |-> <<"D">>, E |-> <<"E">>, EOM |-> <<"EOM">>, EOS |-> <<"EOS">>,
         B1 |-> <<"E">>, B2 |-> <<"E", "C">>]

ASSUME InputBufAssumption ==
  /\ BufSize \in Nat /\ BufSize > 1
  /\ MaxBufSize \in Nat
  /\ MaxSyms \in Nat
  /\ Symbols \subseteq DOMAIN Enc \ {"EOS"}

\* A byte that is handed to the handler.
DataSymbol(b) == CASE b = Plain -> "D" [] b = ESC -> "E" [] b = 1 -> "C" [] OTHER -> "other"

-----------------------------------------------------------------------------
(* Space.                                                                  *)

\* The reset at the top of ibuf_free_size.
Rewind(c, size) == IF c = size THEN 0 ELSE c

\* ibuf_free_size for the position c of the stream (already rewound).
FreeSize(c, i, size) ==
  IF c <= i THEN size - i - (IF c = 0 THEN 1 ELSE 0)
  ELSE c - i - 1

\* ibuf_trigger_read and tcp_post_read, which ignores a second request.
TriggerRead(c, i, size, is_eof, pending) ==
  IF is_eof \/ pending # 0 THEN pending ELSE FreeSize(c, i, size)

\* Fault: a message is counted without triggering.
Trigger_Lost(state) == state

\* tcp_trigger_message
Trigger(state) == IF state = "Idle" THEN "Triggered" ELSE state

-----------------------------------------------------------------------------
(* ibuf_read_done, an event handler.                                       *)

InGetMore == call \in {"read", "peek"}
Waiting   == call \in {"read_wait", "peek_wait"}

\* The dispatch thread is free for the event, or waits for it in wait_read.
Dispatchable == handling_msg # "Active" \/ Waiting

NewMessage(d) == [d EXCEPT !.count = @ + 1, !.handling = Trigger(@)]

\* Fault: the flag is set, and nobody is told.
ScanEof_Silent(d) == [d EXCEPT !.eof = TRUE]

\* ibuf_eof
ScanEof(d) == IF d.eof THEN d ELSE NewMessage([d EXCEPT !.eof = TRUE])

\* Fault: the end of a long message, already counted, is counted again.
ScanCode_CountsLong(d, b) ==
  CASE b = 1 -> NewMessage([d EXCEPT !.long = FALSE])
    [] b = 0 -> d
    [] b = 3 -> [d EXCEPT !.mode = 1, !.data = 0]
    [] OTHER -> ScanEof(d)

\* The end of a long message, which was counted when the buffer was full.
EndLong(d) == [d EXCEPT !.long = FALSE, !.failed = @ \/ d.count # 1]

\* The byte after ESC: the end of the stream, unless it is 0, 1 or 3.
ScanCode(d, b) ==
  CASE b = 1 -> IF d.long THEN EndLong(d) ELSE NewMessage(d)
    [] b = 0 -> d
    [] b = 3 -> [d EXCEPT !.mode = 1, !.data = 0]
    [] OTHER -> ScanEof(d)

\* Fault: an end of message inside a binary block is not told apart.
ScanByte_NoBlocks(d, w) ==
  IF d.esc THEN ScanCode([d EXCEPT !.esc = FALSE], IF w.b \in {1, 2} THEN w.b ELSE 0)
  ELSE [d EXCEPT !.esc = (w.b = ESC)]

\* One byte of the scanning loop.
ScanByte(d, w) ==
  CASE d.mode > 0 -> [d EXCEPT !.data = @ + (w.b % 128) * 128^(d.mode - 1),
                               !.mode = IF w.b >= 128 THEN @ + 1 ELSE 0]
    [] d.mode = 0 /\ d.data > 0 -> [d EXCEPT !.data = @ - 1]
    [] d.mode = 0 /\ d.data = 0 /\ d.esc -> ScanCode([d EXCEPT !.esc = FALSE], w.b)
    [] OTHER -> [d EXCEPT !.esc = (w.b = ESC)]

Scan(bytes) ==
  FoldLeft(ScanByte, [esc |-> inp_esc, mode |-> inp_size_mode, data |-> inp_data_size,
                      failed |-> assert_failed, eof |-> eof, long |-> long_msg,
                      count |-> message_count, handling |-> handling_msg], bytes)

\* Fault: the bytes before the read position stay where they are.
Unroll_NoWrap(b, c, size) ==
  [i \in 0..2 * size - 1 |-> IF i < size - c THEN b[c + i] ELSE 0]

\* The enlarged buffer: the old one, starting from the read position.
Unroll(b, c, size) ==
  [i \in 0..2 * size - 1 |->
     IF i < size - c THEN b[c + i] ELSE IF i < size THEN b[i - (size - c)] ELSE 0]

\* ibuf->inp after n bytes.
Advance(i, n) == (i + n) % buf_size

\* tcp_channel_read_done with n bytes.  A handler that waits for them goes on.
ReadDone(n) ==
  /\ read_size > 0 /\ ~closed /\ Dispatchable
  /\ n \in 1..Min({read_size, Len(wire)})
  /\ LET bytes == SubSeq(wire, 1, n)
         d     == Scan(bytes)
         b     == [i \in DOMAIN buf |->
                     IF i >= inp /\ i < inp + n THEN wire[i - inp + 1].b ELSE buf[i]]
         i     == Advance(inp, n)
         c     == IF d.eof THEN cur ELSE Rewind(cur, buf_size)
         e     == IF c = cur THEN end ELSE 0
         full  == ~d.eof /\ FreeSize(c, i, buf_size) = 0
         grow  == full /\ buf_size < MaxBufSize
         stuck == full /\ ~grow /\ d.count = 0
     IN  /\ inp_esc' = d.esc /\ inp_size_mode' = d.mode /\ inp_data_size' = d.data
         /\ assert_failed' = d.failed
         /\ eof' = d.eof
         /\ long_msg' = (d.long \/ stuck)
         /\ message_count' = IF stuck THEN 1 ELSE d.count
         /\ handling_msg' = IF stuck THEN Trigger(d.handling) ELSE d.handling
         /\ IF grow
            THEN /\ buf' = Unroll(b, c, buf_size)
                 /\ buf_size' = 2 * buf_size
                 /\ inp' = buf_size - 1
                 /\ cur' = 0 /\ end' = e - c
            ELSE /\ buf' = b /\ buf_size' = buf_size /\ inp' = i
                 /\ cur' = c /\ end' = e
         /\ read_size' = TriggerRead(cur', inp', buf_size', d.eof, 0)
         /\ scanned' = scanned + Cardinality({j \in 1..n : IsSymbol(wire[j])})
         /\ out' = IF Waiting THEN cur' ELSE out
  /\ wire' = SubSeq(wire, n + 1, Len(wire))
  /\ call' = CASE call = "read_wait" -> "read" [] call = "peek_wait" -> "peek"
               [] OTHER -> call
  /\ UNCHANGED <<decode, closed, shut, sent, received>>

\* tcp_channel_read_done at the end of the socket's stream.
ReadEof ==
  /\ read_size > 0 /\ ~closed /\ Dispatchable
  /\ wire = <<>> /\ shut
  /\ read_size' = 0
  /\ eof' = TRUE
  /\ message_count' = IF eof THEN message_count ELSE message_count + 1
  /\ handling_msg' = IF eof THEN handling_msg ELSE Trigger(handling_msg)
  /\ out' = IF Waiting THEN cur ELSE out
  /\ call' = CASE call = "read_wait" -> "read" [] call = "peek_wait" -> "peek"
               [] OTHER -> call
  /\ UNCHANGED <<store, stream, scan, decode, long_msg, closed, peer, scanned, received>>

-----------------------------------------------------------------------------
(* The handler's side.                                                     *)

\* handle_channel_msg up to the handler: ibuf_start_message.  Its test of
\* message_count never fails (MessageCountExact).
StartMessage ==
  /\ handling_msg = "Triggered" /\ ~closed /\ ~eof
  /\ handling_msg' = "Active"
  /\ UNCHANGED <<store, stream, scan, decode, eof, long_msg, message_count, read_size,
                 call, out, closed, peer, scanned, received>>

\* ibuf_flush, as send_eof_and_close uses it.
Flush ==
  /\ cur' = inp /\ end' = inp /\ message_count' = 0
  /\ out_size_mode' = 0 /\ out_data_size' = 0
  /\ inp_size_mode' = 0 /\ inp_data_size' = 0

\* send_eof_and_close, as far as the input is concerned.
SendEofAndClose ==
  /\ ~closed /\ closed' = TRUE
  /\ Flush
  /\ handling_msg' = IF handling_msg = "Triggered" THEN "Idle" ELSE handling_msg
  /\ UNCHANGED <<store, inp_esc, assert_failed, out_esc, eof, long_msg, read_size, call, out, peer,
                 scanned, received>>

\* handle_channel_msg when ibuf_start_message has met eof.
CloseAtEof == handling_msg = "Triggered" /\ eof /\ SendEofAndClose

\* handle_channel_msg when the handler throws because the stream has ended.
HandlerThrows == call = "eos" /\ SendEofAndClose

\* Another part of the agent, or the handler for reasons of its own.
Close == call = "none" /\ SendEofAndClose

InMessage == handling_msg = "Active" /\ ~closed /\ call = "none"

Deliver(sym) == received' = Append(received, sym)

\* read_stream on bytes that ibuf_get_more has already looked at.
ReadDirect ==
  /\ InMessage /\ cur < end
  /\ Deliver(DataSymbol(buf[cur]))
  /\ cur' = cur + 1
  /\ UNCHANGED <<store, end, scan, decode, messages, read_size, call, out, closed,
                 peer, scanned>>

\* The call of ibuf_get_more.
CallGetMore(c) ==
  /\ InMessage /\ ~(cur < end)
  /\ call' = c /\ out' = cur
  /\ UNCHANGED <<store, stream, scan, decode, messages, read_size, closed, peer,
                 scanned, received>>

\* One turn of the loop in ibuf_get_more: at is the position after the wrap.
peeking   == call = "peek"
at        == Rewind(out, buf_size)

\* ibuf_get_more returns to the handler; peeking consumes nothing.
Return(sym) == /\ call' = "none"
               /\ IF peeking THEN UNCHANGED received ELSE Deliver(sym)

\* No data: end of stream, or wait for the rest of a long message.
GetMoreEmpty ==
  /\ InGetMore /\ at = inp
  /\ cur' = at
  /\ IF eof
     THEN /\ call' = "eos" /\ UNCHANGED <<out, read_size>>
     ELSE /\ read_size' = TriggerRead(at, inp, buf_size, eof, read_size)
          /\ call' = IF peeking THEN "peek_wait" ELSE "read_wait"
          /\ out' = at
  /\ UNCHANGED <<store, end, scan, decode, messages, closed, peer, scanned, received>>

\* A byte of the size of a binary block.
GetMoreSize ==
  /\ InGetMore /\ at # inp /\ out_size_mode > 0
  /\ out_data_size' = out_data_size + (buf[at] % 128) * 128^(out_size_mode - 1)
  /\ out_size_mode' = IF buf[at] >= 128 THEN out_size_mode + 1 ELSE 0
  /\ out' = at + 1
  /\ UNCHANGED <<store, stream, scan, out_esc, messages, read_size, call, closed, peer,
                 scanned, received>>

\* How far the bytes from at on lie next to each other.
Limit == IF at + 1 <= inp THEN inp ELSE buf_size

\* The stream stands at c, up to e, and ibuf_trigger_read is called, which
\* rewinds it at the end of the buffer unless eof is set.
SetStream(c, e) ==
  LET wrap == ~eof /\ c = buf_size
  IN  /\ cur' = IF wrap THEN 0 ELSE c
      /\ end' = IF wrap THEN 0 ELSE e
      /\ read_size' = TriggerRead(cur', inp, buf_size, eof, read_size)

\* The run of bytes [at, last) can be read directly from now on.
ReturnRun(last) ==
  /\ SetStream(IF peeking THEN at ELSE at + 1, last)
  /\ Return(DataSymbol(buf[at]))
  /\ out' = last

\* Bytes of a binary block.
GetMoreBlock ==
  /\ InGetMore /\ at # inp /\ out_size_mode = 0 /\ out_data_size > 0
  /\ LET n == Min({Limit - at, out_data_size})
     IN  /\ out_data_size' = out_data_size - n
         /\ ReturnRun(at + n)
  /\ UNCHANGED <<store, scan, out_esc, out_size_mode, messages, closed, peer, scanned>>

NoBlock == out_size_mode = 0 /\ out_data_size = 0

\* Plain bytes up to the next escape.
GetMorePlain ==
  /\ InGetMore /\ at # inp /\ NoBlock /\ ~out_esc /\ buf[at] # ESC
  /\ ReturnRun(Min({Limit} \cup {k \in at + 1 .. Limit - 1 : buf[k] = ESC}))
  /\ UNCHANGED <<store, scan, decode, messages, closed, peer, scanned>>

GetMoreEsc ==
  /\ InGetMore /\ at # inp /\ NoBlock /\ ~out_esc /\ buf[at] = ESC
  /\ out_esc' = TRUE
  /\ out' = at + 1
  /\ UNCHANGED <<store, stream, scan, out_size_mode, out_data_size, messages, read_size,
                 call, closed, peer, scanned, received>>

GetMoreBlockStart ==
  /\ InGetMore /\ at # inp /\ NoBlock /\ out_esc /\ buf[at] = 3
  /\ out_size_mode' = 1 /\ out_data_size' = 0 /\ out_esc' = FALSE
  /\ out' = at + 1
  /\ UNCHANGED <<store, stream, scan, messages, read_size, call, closed, peer, scanned,
                 received>>

\* Fault: a peeked escape is forgotten.
KeepEscape_Forgotten == FALSE

\* Peeking leaves the escape pending for the read that follows.
KeepEscape == peeking

\* ESC 0, 1 or 2: a data byte, the end of the message, the end of the stream.
GetMoreCode ==
  /\ InGetMore /\ at # inp /\ NoBlock /\ out_esc /\ buf[at] \in 0..2
  /\ Return(<<"E", "EOM", "EOS">>[buf[at] + 1])
  /\ out_esc' = KeepEscape
  /\ out' = IF peeking THEN at ELSE at + 1
  /\ SetStream(out', out')
  /\ IF buf[at] = 1 /\ ~peeking
     THEN /\ message_count' = message_count - 1
          /\ handling_msg' = IF message_count = 1 THEN "Idle" ELSE "Triggered"
     ELSE UNCHANGED <<message_count, handling_msg>>
  /\ UNCHANGED <<store, scan, out_size_mode, out_data_size, eof, long_msg, closed, peer,
                 scanned>>

GetMoreStep == GetMoreEmpty \/ GetMoreSize \/ GetMoreBlock \/ GetMorePlain
               \/ GetMoreEsc \/ GetMoreBlockStart \/ GetMoreCode

-----------------------------------------------------------------------------
(* The peer.                                                               *)

PeerSends(s) ==
  /\ ~shut /\ Len(sent) < MaxSyms
  /\ wire' = wire \o Enc[s]
  /\ sent' = sent \o Said[s]
  /\ UNCHANGED <<store, stream, scan, decode, messages, read_size, call, out, closed,
                 shut, scanned, received>>

\* send_eof_and_close: the marker, the error code, the end of that message.
Farewell == Enc["EOS"] \o Enc["D"] \o Enc["EOM"]

PeerCloses ==
  /\ ~shut /\ shut' = TRUE
  /\ wire' = wire \o Farewell
  /\ sent' = sent \o (Said["EOS"] \o Said["D"] \o Said["EOM"])
  /\ UNCHANGED <<store, stream, scan, decode, messages, read_size, call, out, closed,
                 scanned, received>>

\* The peer is gone without a word.
PeerShutsDown ==
  /\ ~shut
  /\ shut' = TRUE
  /\ UNCHANGED <<store, stream, scan, decode, messages, read_size, call, out, closed,
                 wire, sent, scanned, received>>

\* ibuf_init and the ibuf_trigger_read of start_channel.
IbufInit ==
  /\ buf_size = BufSize /\ buf = [i \in 0..BufSize - 1 |-> 0]
  /\ inp = 0 /\ cur = 0 /\ end = 0
  /\ inp_esc = FALSE /\ inp_size_mode = 0 /\ inp_data_size = 0
  /\ assert_failed = FALSE
  /\ out_esc = FALSE /\ out_size_mode = 0 /\ out_data_size = 0
  /\ eof = FALSE /\ long_msg = FALSE /\ message_count = 0 /\ handling_msg = "Idle"
  /\ read_size = BufSize - 1
  /\ call = "none" /\ out = 0 /\ closed = FALSE
  /\ wire = <<>> /\ shut = FALSE /\ sent = <<>> /\ scanned = 0 /\ received = <<>>

ReadStep == ReadEof \/ \E n \in 1..MaxBufSize : ReadDone(n)

HandlerStep == StartMessage \/ CloseAtEof \/ HandlerThrows \/ GetMoreStep

Read == ReadDirect \/ CallGetMore("read")

IbufNext ==
  \/ \E s \in Symbols : PeerSends(s)
  \/ PeerCloses \/ PeerShutsDown
  \/ ReadStep
  \/ HandlerStep
  \/ Read
  \/ CallGetMore("peek")
  \/ Close

IbufSpec == IbufInit /\ [][IbufNext]_ibuf_vars

\* The socket delivers what was sent, the dispatch thread runs the handler,
\* and the handler reads its message to the end: it may peek before it reads,
\* so that reading is not continuously enabled.
IbufFairness == WF_ibuf_vars(ReadStep) /\ WF_ibuf_vars(HandlerStep) /\ SF_ibuf_vars(Read)

IbufFairSpec == IbufSpec /\ IbufFairness

-----------------------------------------------------------------------------
(* Properties.                                                             *)

\* The messages that have completely arrived and are not read to their end.
Unhandled == {j \in Len(received) + 1 .. scanned : sent[j] = "EOM"}

\* The handler gets what the peer sent: the same bytes and the same message
\* boundaries, whatever the pieces in which they arrive and however the
\* buffer wraps and grows.
StreamIntact == IsPrefix(received, sent)

\* message_count, kept by the scanning decoder and decremented by the other,
\* is the number of messages that have completely arrived and are not yet
\* read, plus one for eof and one for a message longer than the buffer.  The
\* handler is posted or running exactly while messages are counted: none is
\* forgotten, and it never runs without one (the assertions of ibuf_get_more).
MessageCountExact ==
  ~closed =>
    /\ message_count = Cardinality(Unhandled) + (IF eof THEN 1 ELSE 0)
                       + (IF long_msg THEN 1 ELSE 0)
    /\ (message_count > 0) = (handling_msg # "Idle")

\* The assertions of ibuf_get_more: a handler that runs out of data is in a
\* message longer than the buffer, the only one counted, or at end of stream.
BlocksOnlyInLongMessage ==
  Waiting => long_msg /\ message_count = 1 /\ read_size > 0

\* The assertion of ibuf_read_done that the end of a long message finds it the
\* only one counted fails only after the end of the stream.
LongMessageIsLast == assert_failed => eof

\* The same assertion, as it stands in inputbuf.c:261.
LongMessageAlone == ~assert_failed

\* Every message that has arrived is read to its end by the handler, unless
\* the channel ends or the peer keeps back the rest of a long message.
MessagesHandled ==
  (message_count > 0) ~> \/ message_count = 0 \/ eof
                         \/ Waiting /\ wire = <<>>

\* After the end of the stream the channel is closed, also when it comes while
\* a handler runs or waits.
EofCloses == eof ~> closed

\* The two decoders agree on where messages begin and end: what the first one
\* counts the second one can read without waiting, and nothing else is counted;
\* the end of a long message is found as that of the only one until the stream ends.
DecodersAgree == MessageCountExact /\ BlocksOnlyInLongMessage /\ LongMessageIsLast

\* Everything that arrives is dealt with, the end of the stream included.
EveryMessageHandled == MessagesHandled /\ EofCloses
=============================================================================
