-------------------------- MODULE ChannelTCPProofs --------------------------
(***************************************************************************)
(* Theorems about OutputQueue and ChannelTCP, for every buffer size and    *)
(* every number of clients' locks, messages and writes: the buffers of the *)
(* output queue are legal and stable under their request; the lock count   *)
(* of a channel is exact and no event is left for a deleted channel; and   *)
(* what was accepted leaves whole and in order.                            *)
(***************************************************************************)
EXTENDS ChannelTCP, ProofLemmas

-----------------------------------------------------------------------------
(* The output queue.                                                       *)

\* struct OutputBuffer, with data left to write.
Buffer == {bf \in [data : Seq(Data), pos : Nat] :
             Len(bf.data) \in 1 .. ObufSize /\ bf.pos < Len(bf.data)}

\* The inductive invariant.  The room in the last buffer must not be negative
\* for output_queue_add to split its data correctly, so that RequestStable
\* rests on the sizes that OqTypeOK states.
OqInv == queue \in Seq(Buffer) /\ RequestStable
         /\ error \in BOOLEAN /\ accepted \in Seq(Data) /\ sent \in Seq(Data)

\* What makes a buffer legal.
LEMMA BufferIntro ==
  ASSUME NEW u \in Seq(Data), NEW p \in Nat, Len(u) \in 1 .. ObufSize, p < Len(u)
  PROVE  [data |-> u, pos |-> p] \in Buffer
<1> DEFINE r == [data |-> u, pos |-> p]
<1>1. r \in [data : Seq(Data), pos : Nat] /\ r.data = u /\ r.pos = p
  OBVIOUS
<1> HIDE DEF r
<1>2. r \in Buffer
  BY <1>1 DEF Buffer
<1> QED
  BY <1>2 DEF r

\* The fields of a buffer, and what an update of one of them makes.
LEMMA BufferFields ==
  ASSUME NEW bf \in Buffer
  PROVE  /\ bf.data \in Seq(Data) /\ bf.pos \in Nat
         /\ Len(bf.data) \in 1 .. ObufSize /\ bf.pos < Len(bf.data)
         /\ \A u : [bf EXCEPT !.data = u] = [data |-> u, pos |-> bf.pos]
         /\ \A p : [bf EXCEPT !.pos = p] = [data |-> bf.data, pos |-> p]
<1>1. bf \in [data : Seq(Data), pos : Nat]
  BY DEF Buffer
<1>2. \A u : [bf EXCEPT !.data = u] = [data |-> u, pos |-> bf.pos]
  BY <1>1
<1>3. \A p : [bf EXCEPT !.pos = p] = [data |-> bf.data, pos |-> p]
  BY <1>1
<1> QED
  BY <1>1, <1>2, <1>3 DEF Buffer

\* A request is made of data units, so that it is not None.
LEMMA RestType ==
  ASSUME NEW bf \in Buffer
  PROVE  Rest(bf) \in Seq(Data)
<1>1. bf.data \in Seq(Data) /\ bf.pos \in Nat /\ Len(bf.data) \in Nat
  BY LenProperties DEF Buffer
<1>2. \A i \in bf.pos + 1 .. Len(bf.data) : bf.data[i] \in Data
  BY <1>1, ElementOfSeq
<1> QED
  BY <1>1, <1>2, SubSeqProperties DEF Rest

\* The queue holds data exactly while a request is under way.
LEMMA RequestMeansData ==
  ASSUME OqInv
  PROVE  /\ request \in Seq(Data) \cup {None}
         /\ (request = None) = (queue = <<>>)
<1>1. CASE queue = <<>>
  BY <1>1 DEF OqInv, RequestStable, IoRequest
<1>2. CASE queue # <<>>
  <2>1. queue[1] \in Buffer
    BY <1>2 DEF OqInv
  <2> QED
    BY <1>2, <2>1, RestType, OutputQueueAssumption DEF OqInv, RequestStable, IoRequest
<1> QED
  BY <1>1, <1>2

\* The smaller of two numbers.
LEMMA MinOfTwo ==
  ASSUME NEW a \in Int, NEW b \in Int
  PROVE  Min({a, b}) = IF a <= b THEN a ELSE b
<1>1. \E x \in {a, b} : \A y \in {a, b} : x <= y
  OBVIOUS
<1>2. Min({a, b}) \in {a, b} /\ \A y \in {a, b} : Min({a, b}) <= y
  BY <1>1 DEF Min
<1> QED
  BY <1>2

\* Filling up the last buffer leaves the first one alone.
LEMMA AppendToLastFacts ==
  ASSUME NEW q \in Seq(Buffer), Len(q) > 1, NEW d \in Seq(Data), Len(d) <= Gap(q)
  PROVE  /\ AppendToLast(q, d) \in Seq(Buffer) /\ AppendToLast(q, d) # <<>>
         /\ AppendToLast(q, d)[1] = q[1]
         /\ Len(AppendToLast(q, d)) = Len(q)
         /\ \A j \in 1 .. Len(q) : j # Len(q) => AppendToLast(q, d)[j] = q[j]
         /\ AppendToLast(q, d)[Len(q)].data = q[Len(q)].data \o d
         /\ AppendToLast(q, d)[Len(q)].pos = q[Len(q)].pos
<1> DEFINE bf == q[Len(q)]
           bd == [bf EXCEPT !.data = @ \o d]
<1>1. bf \in Buffer /\ Len(q) \in Nat /\ DOMAIN q = 1 .. Len(q)
  BY LenProperties
<1>2. /\ bf.data \in Seq(Data) /\ Len(bf.data) \in 1 .. ObufSize
      /\ bf.pos \in Nat /\ bf.pos < Len(bf.data) /\ Len(d) \in Nat
      /\ Len(bf.data) + Len(d) <= ObufSize /\ ObufSize \in Nat
  BY <1>1, LenProperties, OutputQueueAssumption DEF Buffer, Gap, Last
<1>3. bf.data \o d \in Seq(Data) /\ Len(bf.data \o d) = Len(bf.data) + Len(d)
  BY <1>2, ConcatProperties
<1>4. bd = [data |-> bf.data \o d, pos |-> bf.pos]
  BY <1>1, BufferFields
<1>5. bd \in Buffer
  <2>1. Len(bf.data \o d) \in 1 .. ObufSize /\ bf.pos < Len(bf.data \o d)
    BY <1>2, <1>3
  <2> QED
    BY <1>2, <1>3, <1>4, <2>1, BufferIntro
<1>6. AppendToLast(q, d) = [q EXCEPT ![Len(q)] = bd]
  BY DEF AppendToLast
<1>7. Len(q) \in 1 .. Len(q)
  BY <1>1
<1>8. /\ AppendToLast(q, d) \in Seq(Buffer) /\ Len(AppendToLast(q, d)) = Len(q)
      /\ \A j \in 1 .. Len(q) : AppendToLast(q, d)[j] = IF j = Len(q) THEN bd ELSE q[j]
  BY <1>5, <1>6, <1>7, ExceptSeq
<1>9. bd.data = bf.data \o d /\ bd.pos = bf.pos
  BY <1>4
<1> HIDE DEF bd
<1>10. AppendToLast(q, d)[Len(q)] = bd
  BY <1>7, <1>8
<1>11. /\ AppendToLast(q, d)[Len(q)].data = q[Len(q)].data \o d
       /\ AppendToLast(q, d)[Len(q)].pos = q[Len(q)].pos
  BY <1>9, <1>10
<1>12. \A j \in 1 .. Len(q) : j # Len(q) => AppendToLast(q, d)[j] = q[j]
  BY <1>8
<1>13. AppendToLast(q, d)[1] = q[1] /\ AppendToLast(q, d) # <<>>
  <2>1. 1 \in 1 .. Len(q) /\ 1 # Len(q) /\ Len(q) # 0
    BY <1>1
  <2> QED
    BY <1>8, <1>12, <2>1, EmptySeq
<1> QED
  BY <1>8, <1>11, <1>12, <1>13

\* The loop of output_queue_add cuts its data into buffers of legal sizes.
LEMMA PiecesType ==
  ASSUME NEW d \in Seq(Data)
  PROVE  Pieces(d) \in Seq(Buffer)
<1> DEFINE L == Len(d)
           B == ObufSize
           k == (L + B - 1) \div B
           last(i) == Min({i * B, L})
           piece(i) == SubSeq(d, (i - 1) * B + 1, last(i))
<1>1. L \in Nat /\ B \in Nat \ {0} /\ \A j \in 1 .. L : d[j] \in Data
  BY LenProperties, ElementOfSeq, OutputQueueAssumption
<1>2. k \in Nat /\ k * B <= L + B - 1
  <2>1. L + B - 1 \in Nat
    BY <1>1
  <2>2. \A a \in Nat, b \in Nat \ {0} : a \div b \in Nat /\ (a \div b) * b <= a
    OBVIOUS
  <2> QED
    BY <1>1, <2>1, <2>2
<1>3. ASSUME NEW i \in 1 .. k PROVE Obuf(piece(i)) \in Buffer
  <2>1. i \in Nat \ {0} /\ i <= k
    BY <1>2
  <2>2. /\ i * B \in Nat /\ (i - 1) * B \in Nat
        /\ (i - 1) * B = i * B - B /\ i * B <= k * B /\ k * B \in Nat
    <3>1. \A a \in Nat, b \in Nat \ {0}, c \in Nat \ {0} :
            /\ a * b \in Nat
            /\ (c - 1) * b = c * b - b
            /\ c <= a => c * b <= a * b
      OBVIOUS
    <3>2. i - 1 \in Nat
      BY <2>1
    <3> QED
      BY <1>1, <1>2, <2>1, <3>1, <3>2
  <2>3. (i - 1) * B < L
    BY <1>1, <1>2, <2>2
  <2>4. last(i) = IF i * B <= L THEN i * B ELSE L
    BY <1>1, <2>2, MinOfTwo
  <2>5. /\ last(i) \in Nat /\ last(i) <= L
        /\ last(i) - (i - 1) * B \in 1 .. B
    BY <1>1, <2>2, <2>3, <2>4
  <2>6. \A j \in (i - 1) * B + 1 .. last(i) : d[j] \in Data
    BY SMTT(40), <1>1, <2>2, <2>5
  <2>7. piece(i) \in Seq(Data) /\ Len(piece(i)) = last(i) - (i - 1) * B
    <3> DEFINE m == (i - 1) * B + 1
               n == last(i)
    <3>1. m \in Int /\ n \in Int /\ m <= n
      BY SMTT(40), <1>1, <2>2, <2>5
    <3>2. \A j \in m .. n : d[j] \in Data
      BY <2>6
    <3> HIDE DEF m, n
    <3>3. SubSeq(d, m, n) \in Seq(Data) /\ Len(SubSeq(d, m, n)) = n - m + 1
      BY <3>1, <3>2, SubSeqProperties
    <3>4. n - m + 1 = last(i) - (i - 1) * B
      BY SMTT(40), <2>2, <2>5 DEF m, n
    <3>5. piece(i) = SubSeq(d, m, n)
      BY DEF m, n
    <3> QED
      BY <3>3, <3>4, <3>5
  <2> HIDE DEF piece, last, k, B
  <2>8. Len(piece(i)) \in 1 .. B
    BY <2>5, <2>7
  <2>9. Len(piece(i)) \in 1 .. ObufSize /\ 0 < Len(piece(i))
    BY <2>8, OutputQueueAssumption DEF B
  <2> QED
    BY <2>7, <2>9, BufferIntro DEF Obuf
<1> QED
  <2> DEFINE e(i) == Obuf(piece(i))
  <2>1. \A i \in 1 .. k : e(i) \in Buffer
    BY <1>3
  <2>2. Pieces(d) = [i \in 1 .. k |-> e(i)]
    BY DEF Pieces
  <2>3. k \in Nat
    BY <1>2
  <2> HIDE DEF e, k
  <2>4. [i \in 1 .. k |-> e(i)] \in [1 .. k -> Buffer]
    BY <2>1
  <2> QED
    BY <2>2, <2>3, <2>4, SeqDef

-----------------------------------------------------------------------------
(* The steps.                                                              *)

\* Giving data to the queue: whatever is put behind it, the first buffer of a
\* queue that is not empty stays.
LEMMA GrowKeepsInv ==
  ASSUME OqInv, queue' \in Seq(Buffer), NEW d \in Seq(Data),
         request' = IF queue = <<>> THEN IoRequest(queue') ELSE request,
         queue # <<>> => queue' # <<>> /\ queue'[1] = queue[1],
         accepted' = accepted \o d, UNCHANGED <<error, sent>>
  PROVE  OqInv'
<1>1. accepted' \in Seq(Data)
  BY ConcatProperties DEF OqInv
<1>2. CASE queue = <<>>
  BY <1>1, <1>2 DEF OqInv, RequestStable, IoRequest
<1>3. CASE queue # <<>>
  BY <1>1, <1>3 DEF OqInv, RequestStable, IoRequest
<1> QED
  BY <1>2, <1>3

\* output_queue_add_obuf
LEMMA AddObufInv ==
  ASSUME OqInv, NEW d \in Seq(Data), Len(d) \in 1 .. ObufSize, AddObuf(d)
  PROVE  OqInv'
<1>1. queue \in Seq(Buffer) /\ Len(queue) \in Nat
  BY LenProperties DEF OqInv
<1>2. /\ queue' \in Seq(Buffer)
      /\ queue # <<>> => queue' # <<>> /\ queue'[1] = queue[1]
  <2>1. CASE MayAppend(queue) /\ Gap(queue) >= Len(d)
    <3>1. queue' = AppendToLast(queue, d) /\ Len(queue) > 1 /\ Len(d) <= Gap(queue)
      BY <2>1 DEF AddObuf, MayAppend
    <3> QED
      BY <1>1, <3>1, AppendToLastFacts
  <2>2. CASE ~(MayAppend(queue) /\ Gap(queue) >= Len(d))
    <3>1. queue' = Append(queue, Obuf(d)) /\ Obuf(d) \in Buffer
      BY <2>2 DEF AddObuf, Obuf, Buffer
    <3>2. /\ queue' \in Seq(Buffer) /\ queue' # <<>>
          /\ \A i \in 1 .. Len(queue) : queue'[i] = queue[i]
      BY <1>1, <3>1, AppendProperties
    <3> QED
      BY <1>1, <3>2
  <2> QED
    BY <2>1, <2>2
<1> QED
  BY <1>2, GrowKeepsInv DEF AddObuf

\* output_queue_add
LEMMA AddInv ==
  ASSUME OqInv, NEW d \in Seq(Data), Add(d)
  PROVE  OqInv'
<1> DEFINE n == IF MayAppend(queue) THEN Min({Gap(queue), Len(d)}) ELSE 0
           filled == IF n = 0 THEN queue ELSE AppendToLast(queue, SubSeq(d, 1, n))
           rest == Pieces(SubSeq(d, n + 1, Len(d)))
<1>1. /\ queue \in Seq(Buffer) /\ Len(queue) \in Nat /\ Len(d) \in Nat
      /\ \A i \in 1 .. Len(d) : d[i] \in Data
  BY LenProperties, ElementOfSeq DEF OqInv
<1>2. /\ n \in Nat /\ n <= Len(d)
      /\ n # 0 => Len(queue) > 1 /\ n <= Gap(queue)
  <2>1. CASE MayAppend(queue)
    <3>1. queue[Len(queue)] \in Buffer /\ Len(queue) > 1
      BY <1>1, <2>1 DEF MayAppend
    <3>2. Gap(queue) \in Nat
      BY <1>1, <3>1, LenProperties, OutputQueueAssumption DEF Gap, Last, Buffer
    <3> QED
      BY <1>1, <2>1, <3>1, <3>2, MinOfTwo
  <2> QED
    BY <1>1, <2>1
<1>3. queue' = filled \o rest
  BY DEF Add
<1> HIDE DEF n
<1>4. SubSeq(d, n + 1, Len(d)) \in Seq(Data)
  BY <1>1, <1>2, SubSeqProperties
<1>5. rest \in Seq(Buffer)
  BY <1>4, PiecesType
<1>6. /\ filled \in Seq(Buffer)
      /\ queue # <<>> => filled # <<>> /\ filled[1] = queue[1]
  <2>1. CASE n = 0
    BY <1>1, <2>1
  <2>2. CASE n # 0
    <3>1. SubSeq(d, 1, n) \in Seq(Data) /\ Len(SubSeq(d, 1, n)) = n
      BY <1>1, <1>2, <2>2, SubSeqProperties
    <3> QED
      BY <1>1, <1>2, <2>2, <3>1, AppendToLastFacts
  <2> QED
    BY <2>1, <2>2
<1> HIDE DEF filled, rest
<1>7. /\ queue' \in Seq(Buffer)
      /\ queue # <<>> => queue' # <<>> /\ queue'[1] = queue[1]
  <2>1. /\ queue' \in Seq(Buffer) /\ Len(queue') = Len(filled) + Len(rest)
        /\ \A i \in 1 .. Len(filled) + Len(rest) :
             queue'[i] = IF i <= Len(filled) THEN filled[i] ELSE rest[i - Len(filled)]
    BY <1>3, <1>5, <1>6, ConcatProperties
  <2>2. Len(filled) \in Nat /\ Len(rest) \in Nat /\ (filled # <<>> => Len(filled) > 0)
    BY <1>5, <1>6, EmptySeq, LenProperties
  <2>3. queue' = <<>> => Len(queue') = 0
    BY EmptySeq
  <2> QED
    BY <1>6, <2>1, <2>2, <2>3
<1> QED
  BY <1>7, GrowKeepsInv DEF Add

\* output_queue_done after a write.
LEMMA DoneOkInv ==
  ASSUME OqInv, NEW n, DoneOk(n)
  PROVE  OqInv'
<1>1. /\ queue \in Seq(Buffer) /\ queue # <<>> /\ queue[1] \in Buffer
      /\ request \in Seq(Data) /\ n \in 0 .. Len(request)
      /\ sent \in Seq(Data)
  BY RequestMeansData DEF OqInv, DoneOk
<1>2. queue' \in Seq(Buffer)
  <2>1. CASE queue[1].pos + n < Len(queue[1].data)
    <3> DEFINE bf == [queue[1] EXCEPT !.pos = @ + n]
    <3>1. n \in Nat /\ queue[1].pos \in Nat /\ Len(queue) \in Nat /\ 1 \in 1 .. Len(queue)
      BY <1>1, LenProperties DEF Buffer
    <3>2. bf = [data |-> queue[1].data, pos |-> queue[1].pos + n]
      BY <1>1, BufferFields
    <3>3. bf \in Buffer
      <4>1. /\ queue[1].data \in Seq(Data) /\ queue[1].pos + n \in Nat
            /\ Len(queue[1].data) \in 1 .. ObufSize
        BY <1>1, <3>1, BufferFields
      <4> QED
        BY <2>1, <3>2, <4>1, BufferIntro
    <3>4. queue' = [queue EXCEPT ![1] = bf]
      BY <2>1 DEF DoneOk, AfterWrite
    <3> HIDE DEF bf
    <3> QED
      BY <1>1, <3>1, <3>3, <3>4, ExceptSeq
  <2>2. CASE ~(queue[1].pos + n < Len(queue[1].data))
    <3>1. queue' = Tail(queue)
      BY <2>2 DEF DoneOk, AfterWrite
    <3> QED
      BY <1>1, <3>1, HeadTailProperties
  <2> QED
    BY <2>1, <2>2
<1>3. sent' \in Seq(Data)
  <2>1. Len(request) \in Nat /\ \A i \in 1 .. Len(request) : request[i] \in Data
    BY <1>1, LenProperties, ElementOfSeq
  <2>2. SubSeq(request, 1, n) \in Seq(Data)
    BY <1>1, <2>1, SubSeqProperties
  <2> QED
    BY <1>1, <2>2, ConcatProperties DEF DoneOk
<1>4. request' = IoRequest(queue')
  BY DEF DoneOk
<1> QED
  BY <1>2, <1>3, <1>4 DEF OqInv, RequestStable, DoneOk, IoRequest

\* output_queue_done after a failed write.
LEMMA DoneErrorInv ==
  ASSUME OqInv, DoneError
  PROVE  OqInv'
  BY EmptySeq DEF OqInv, DoneError, RequestStable, IoRequest

-----------------------------------------------------------------------------
\* The invariant holds from the first state on.
LEMMA OqInvHolds == OqSpec => []OqInv
<1>1. OqInit => OqInv
  BY EmptySeq DEF OqInit, OqInv, RequestStable, IoRequest
<1>2. OqInv /\ [OqNext]_oqVars => OqInv'
  <2> SUFFICES ASSUME OqInv, [OqNext]_oqVars
               PROVE  OqInv'
    OBVIOUS
  <2>1. ASSUME NEW n \in 1 .. 2 * ObufSize, NEW d \in [1 .. n -> Data],
               (n <= ObufSize /\ AddObuf(d)) \/ Add(d)
        PROVE  OqInv'
    <3>1. d \in Seq(Data) /\ Len(d) = n
      BY OutputQueueAssumption, SeqDef
    <3> QED
      BY <2>1, <3>1, AddObufInv, AddInv, OutputQueueAssumption
  <2>2. ASSUME NEW n \in 0 .. ObufSize, DoneOk(n) PROVE OqInv'
    BY <2>2, DoneOkInv
  <2>3. CASE DoneError
    BY <2>3, DoneErrorInv
  <2>4. CASE UNCHANGED oqVars
    BY <2>4 DEF oqVars, OqInv, RequestStable, IoRequest
  <2> QED
    BY <2>1, <2>2, <2>3, <2>4 DEF OqNext
<1> QED
  BY <1>1, <1>2, PTL DEF OqSpec

\* Whatever clients give to the queue and however the writes end, no buffer
\* holds more than OUTPUT_QUEUE_BUF_SIZE or is queued after its last unit was
\* written (outputbuf.c).
THEOREM BuffersLegal == OqSpec => []OqTypeOK
<1>1. OqInv => OqTypeOK
  <2> SUFFICES ASSUME OqInv PROVE OqTypeOK
    OBVIOUS
  <2>1. \A i \in DOMAIN queue : queue[i] \in Buffer
    BY DEF OqInv
  <2>2. queue \in Seq([data : Seq(Data), pos : Nat])
    <3>1. Buffer \subseteq [data : Seq(Data), pos : Nat]
      BY DEF Buffer
    <3>2. queue \in Seq(Buffer)
      BY DEF OqInv
    <3> QED
      BY <3>1, <3>2, SeqMonotonic
  <2> QED
    BY <2>1, <2>2, BufferFields, RequestMeansData DEF OqTypeOK, OqInv
<1> QED
  BY <1>1, OqInvHolds, PTL

\* The buffer that is being written never changes under its request, and a
\* queue with data always has a request under way (outputbuf.c), for every
\* buffer size and every sequence of calls.
THEOREM RequestsStable == OqSpec => []RequestStable
<1>1. OqInv => RequestStable
  BY DEF OqInv
<1> QED
  BY <1>1, OqInvHolds, PTL

-----------------------------------------------------------------------------
(* Nothing is lost, doubled or reordered.                                  *)

\* Units of a buffer that are still to be written.
Left(bf) == Len(bf.data) - bf.pos

\* The unwritten parts of the buffers of q are consecutive pieces of a, up to
\* its end: the i-th one ends at c[i].
Laid(q, c, a) ==
  /\ c \in [0 .. Len(q) -> 0 .. Len(a)] /\ c[Len(q)] = Len(a)
  /\ \A i \in 1 .. Len(q) : c[i] = c[i - 1] + Left(q[i])
  /\ \A i \in 1 .. Len(q) : \A k \in 1 .. Left(q[i]) :
       q[i].data[q[i].pos + k] = a[c[i - 1] + k]

\* They make up what follows the first m units of a.
LaidFrom(q, m, a) ==
  \E c \in [0 .. Len(q) -> 0 .. Len(a)] : Laid(q, c, a) /\ c[0] = m

\* What was sent is the beginning of what was accepted; what is queued
\* follows it, unless a write has failed.
Kept ==
  /\ Len(sent) <= Len(accepted)
  /\ \A k \in 1 .. Len(sent) : sent[k] = accepted[k]
  /\ ~error => LaidFrom(queue, Len(sent), accepted)

\* What is left of a buffer.
LEMMA LeftFacts ==
  ASSUME NEW bf \in Buffer
  PROVE  /\ Left(bf) \in 1 .. Len(bf.data) /\ Left(bf) \in Nat /\ Left(bf) <= ObufSize
         /\ bf.pos \in Nat /\ Len(bf.data) \in Nat /\ bf.data \in Seq(Data)
         /\ Rest(bf) \in Seq(Data) /\ Len(Rest(bf)) = Left(bf)
         /\ \A k \in 1 .. Left(bf) : Rest(bf)[k] = bf.data[bf.pos + k]
<1>1. /\ bf.data \in Seq(Data) /\ bf.pos \in Nat
      /\ Len(bf.data) \in 1 .. ObufSize /\ bf.pos < Len(bf.data)
  BY BufferFields
<1>2. ObufSize \in Nat
  BY OutputQueueAssumption
<1>3. /\ Left(bf) \in 1 .. Len(bf.data) /\ Left(bf) \in Nat /\ Left(bf) <= ObufSize
      /\ Len(bf.data) \in Nat
  BY SMTT(40), <1>1, <1>2 DEF Left
<1> DEFINE d == bf.data
           m == bf.pos + 1
           n == Len(bf.data)
<1>4. m \in Int /\ n \in Int /\ m <= n /\ n - m + 1 = Left(bf) /\ m >= 1
  BY SMTT(40), <1>1, <1>3 DEF Left
<1>5. \A k \in m .. n : d[k] \in Data
  <2>1. \A k \in m .. n : k \in 1 .. Len(d)
    BY <1>4
  <2> QED
    BY <1>1, <2>1, ElementOfSeq
<1> HIDE DEF d, m, n
<1>6. /\ SubSeq(d, m, n) \in Seq(Data) /\ Len(SubSeq(d, m, n)) = Left(bf)
      /\ \A k \in 1 .. Left(bf) : SubSeq(d, m, n)[k] = d[m + k - 1]
  BY <1>4, <1>5, SubSeqProperties
<1>7. \A k \in 1 .. Left(bf) : m + k - 1 = bf.pos + k
  BY <1>1, <1>3 DEF m
<1>8. Rest(bf) = SubSeq(d, m, n)
  BY DEF Rest, d, m, n
<1> QED
  BY <1>1, <1>3, <1>6, <1>7, <1>8 DEF d

\* What Laid says in terms of Rest.
LEMMA LaidPieces ==
  ASSUME NEW q \in Seq(Buffer), NEW a \in Seq(Data), NEW c, Laid(q, c, a)
  PROVE  FlattenSeq([i \in DOMAIN q |-> Rest(q[i])]) = SubSeq(a, c[0] + 1, Len(a))
<1> DEFINE r == [i \in DOMAIN q |-> Rest(q[i])]
<1>1. Len(q) \in Nat /\ DOMAIN q = 1 .. Len(q) /\ Len(a) \in Nat
  BY LenProperties
<1>2. \A i \in 1 .. Len(q) : q[i] \in Buffer
  BY ElementOfSeq
<1>3. r \in Seq(Seq(Data)) /\ Len(r) = Len(q) /\ \A i \in 1 .. Len(q) : r[i] = Rest(q[i])
  <2>1. r \in [1 .. Len(q) -> Seq(Data)]
    BY <1>1, <1>2, LeftFacts
  <2> QED
    BY <1>1, <2>1, SeqDef
<1> HIDE DEF r
<1>4. c \in [0 .. Len(r) -> 0 .. Len(a)]
  BY <1>3 DEF Laid
<1>5. ASSUME NEW i \in 1 .. Len(r)
      PROVE  c[i - 1] <= c[i] /\ r[i] = SubSeq(a, c[i - 1] + 1, c[i])
  <2> DEFINE m == c[i - 1] + 1
             n == c[i]
             w == Left(q[i])
  <2>1. i \in 1 .. Len(q) /\ i \in 0 .. Len(q) /\ i - 1 \in 0 .. Len(q)
    BY <1>1, <1>3
  <2>2. c[i - 1] \in 0 .. Len(a) /\ c[i] \in 0 .. Len(a) /\ c[i] = c[i - 1] + w
    BY <2>1 DEF Laid
  <2>3. /\ w \in Nat \ {0} /\ Rest(q[i]) \in Seq(Data) /\ Len(Rest(q[i])) = w
        /\ \A k \in 1 .. w : Rest(q[i])[k] = q[i].data[q[i].pos + k]
    BY SMTT(40), <1>2, <2>1, LeftFacts
  <2>4. \A k \in 1 .. w : Rest(q[i])[k] = a[c[i - 1] + k]
    BY <2>1, <2>3 DEF Laid
  <2> HIDE DEF w
  <2>5. /\ m \in Int /\ n \in Int /\ m <= n /\ n - m + 1 = w /\ m >= 1 /\ n <= Len(a)
        /\ \A k \in 1 .. w : m + k - 1 = c[i - 1] + k
    <3> DEFINE x == c[i - 1]
               l == Len(a)
    <3>1. l \in Nat /\ x \in 0 .. l /\ n \in 0 .. l /\ n = x + w /\ w \in Nat \ {0} /\ m = x + 1
      BY <1>1, <2>2, <2>3
    <3> HIDE DEF x, l, m, n
    <3>2. /\ m \in Int /\ n \in Int /\ m <= n /\ n - m + 1 = w /\ m >= 1 /\ n <= l
          /\ \A k \in 1 .. w : m + k - 1 = x + k
      BY <3>1
    <3> QED
      BY <3>2 DEF x, l
  <2> HIDE DEF m, n
  <2>6. \A k \in m .. n : a[k] \in Data
    <3>1. \A k \in m .. n : k \in 1 .. Len(a)
      BY <1>1, <2>5
    <3> QED
      BY <3>1, ElementOfSeq
  <2>7. /\ SubSeq(a, m, n) \in Seq(Data) /\ Len(SubSeq(a, m, n)) = w
        /\ \A k \in 1 .. w : SubSeq(a, m, n)[k] = a[m + k - 1]
    BY <2>5, <2>6, SubSeqProperties
  <2>8. Rest(q[i]) = SubSeq(a, m, n)
    <3> DEFINE s == Rest(q[i])
               t == SubSeq(a, m, n)
    <3>1. s \in Seq(Data) /\ t \in Seq(Data) /\ Len(s) = w /\ Len(t) = w
      BY <2>3, <2>7
    <3>2. \A k \in 1 .. Len(s) : s[k] = t[k]
      BY <2>4, <2>5, <2>7, <3>1
    <3> HIDE DEF s, t
    <3>3. s = t
      BY <3>1, <3>2, SeqEqual
    <3> QED
      BY <3>3 DEF s, t
  <2>9. c[i - 1] <= c[i]
    BY <1>1, <2>2, <2>3
  <2>10. r[i] = Rest(q[i])
    BY <1>3, <2>1
  <2> QED
    BY <2>8, <2>9, <2>10 DEF m, n
<1>6. FlattenSeq(r) = SubSeq(a, c[0] + 1, c[Len(r)])
  BY <1>3, <1>4, <1>5, FlattenCut
<1> QED
  BY <1>3, <1>6 DEF r, Laid

\* What the invariant says is what the runs check.
LEMMA KeptIsIntact ==
  ASSUME OqInv, Kept
  PROVE  OutputIntact /\ (~error /\ queue = <<>> => sent = accepted)
<1>1. /\ sent \in Seq(Data) /\ accepted \in Seq(Data) /\ queue \in Seq(Buffer)
      /\ Len(sent) \in Nat /\ Len(accepted) \in Nat /\ Len(sent) <= Len(accepted)
      /\ \A k \in 1 .. Len(sent) : sent[k] = accepted[k]
  BY LenProperties DEF OqInv, Kept
<1> DEFINE p == SubSeq(accepted, 1, Len(sent))
<1>2. sent = p
  <2>1. \A k \in 1 .. Len(sent) : accepted[k] \in Data
    <3>1. \A k \in 1 .. Len(sent) : k \in 1 .. Len(accepted)
      BY <1>1
    <3> QED
      BY <1>1, <3>1, ElementOfSeq
  <2>2. /\ p \in Seq(Data) /\ Len(p) = IF 1 <= Len(sent) THEN Len(sent) - 1 + 1 ELSE 0
        /\ \A k \in 1 .. Len(sent) - 1 + 1 : p[k] = accepted[1 + k - 1]
    BY <1>1, <2>1, SubSeqProperties
  <2>3. Len(p) = Len(sent) /\ \A k \in 1 .. Len(sent) : p[k] = accepted[k]
    BY <1>1, <2>2
  <2> HIDE DEF p
  <2> QED
    BY <1>1, <2>2, <2>3, SeqEqual
<1>3. CASE error
  <2>1. SubSeq(sent, 1, Len(sent)) = sent
    BY <1>1, SubSeqFull
  <2> QED
    BY <1>1, <1>2, <1>3, <2>1 DEF OutputIntact, IsPrefix
<1>4. CASE ~error
  <2>1. PICK c \in [0 .. Len(queue) -> 0 .. Len(accepted)] :
          Laid(queue, c, accepted) /\ c[0] = Len(sent)
    BY <1>4 DEF Kept, LaidFrom
  <2>2. Pending = SubSeq(accepted, Len(sent) + 1, Len(accepted))
    BY <1>1, <2>1, LaidPieces DEF Pending
  <2>3. p \o SubSeq(accepted, Len(sent) + 1, Len(accepted)) = SubSeq(accepted, 1, Len(accepted))
    <3>1. /\ 1 \in 1 .. Len(accepted) + 1 /\ Len(sent) \in 1 - 1 .. Len(accepted)
          /\ Len(accepted) \in Len(sent) .. Len(accepted)
      BY <1>1
    <3> QED
      BY <1>1, <3>1, ConcatAdjacentSubSeq
  <2>4. SubSeq(accepted, 1, Len(accepted)) = accepted
    BY SMTT(40), <1>1, SubSeqFull
  <2>5. OutputIntact
    BY Zenon, <1>2, <1>4, <2>2, <2>3, <2>4 DEF OutputIntact
  <2>6. ASSUME queue = <<>> PROVE sent = accepted
    <3>1. Len(queue) = 0
      BY <2>6, EmptySeq
    <3>2. Len(sent) = Len(accepted)
      BY <2>1, <3>1 DEF Laid
    <3> QED
      BY <1>2, <2>4, <3>2
  <2> QED
    BY <2>5, <2>6
<1> QED
  BY <1>3, <1>4

\* What Laid gives for one buffer.
LEMMA LaidAt ==
  ASSUME NEW q \in Seq(Buffer), NEW a \in Seq(Data), NEW c, Laid(q, c, a),
         NEW i \in 1 .. Len(q)
  PROVE  /\ q[i] \in Buffer /\ Left(q[i]) \in Nat \ {0} /\ q[i].pos \in Nat
         /\ c[i - 1] \in Nat /\ c[i] \in Nat /\ c[i] = c[i - 1] + Left(q[i])
         /\ c[i] <= Len(a) /\ Len(a) \in Nat
         /\ \A k \in 1 .. Left(q[i]) : q[i].data[q[i].pos + k] = a[c[i - 1] + k]
<1>1. Len(q) \in Nat /\ Len(a) \in Nat /\ q[i] \in Buffer
  BY LenProperties, ElementOfSeq
<1>2. i \in 0 .. Len(q) /\ i - 1 \in 0 .. Len(q)
  BY <1>1
<1>3. c[i - 1] \in 0 .. Len(a) /\ c[i] \in 0 .. Len(a)
  BY <1>2 DEF Laid
<1>4. Left(q[i]) \in Nat \ {0} /\ q[i].pos \in Nat
  BY SMTT(40), <1>1, LeftFacts
<1> QED
  BY <1>1, <1>3, <1>4 DEF Laid

\* Data is put behind the last buffer, in one of its own.
LEMMA LaidAppend ==
  ASSUME NEW q \in Seq(Buffer), NEW a \in Seq(Data), NEW m, LaidFrom(q, m, a),
         NEW d \in Seq(Data), Len(d) \in 1 .. ObufSize
  PROVE  LaidFrom(Append(q, Obuf(d)), m, a \o d)
<1>0. PICK c \in [0 .. Len(q) -> 0 .. Len(a)] : Laid(q, c, a) /\ c[0] = m
  BY DEF LaidFrom
<1> DEFINE r == Append(q, Obuf(d))
           b == a \o d
           e == [i \in 0 .. Len(q) + 1 |-> IF i <= Len(q) THEN c[i] ELSE Len(a) + Len(d)]
<1>1. /\ Len(q) \in Nat /\ Len(a) \in Nat /\ Len(d) \in Nat \ {0} /\ ObufSize \in Nat
      /\ c \in [0 .. Len(q) -> 0 .. Len(a)] /\ c[Len(q)] = Len(a)
  BY <1>0, LenProperties, OutputQueueAssumption DEF Laid
<1>2. Obuf(d) \in Buffer /\ Obuf(d).data = d /\ Obuf(d).pos = 0 /\ Left(Obuf(d)) = Len(d)
  <2>1. [data |-> d, pos |-> 0] \in Buffer
    BY SMTT(40), <1>1, BufferIntro
  <2> QED
    BY <1>1, <2>1 DEF Obuf, Left
<1>3. /\ r \in Seq(Buffer) /\ Len(r) = Len(q) + 1
      /\ \A i \in 1 .. Len(q) : r[i] = q[i]
      /\ r[Len(q) + 1] = Obuf(d)
  BY <1>2, AppendProperties
<1>4. /\ Len(b) = Len(a) + Len(d)
      /\ \A k \in 1 .. Len(a) : b[k] = a[k]
      /\ \A k \in 1 .. Len(d) : b[Len(a) + k] = d[k]
  <2>1. /\ Len(b) = Len(a) + Len(d)
        /\ \A k \in 1 .. Len(a) + Len(d) : b[k] = IF k <= Len(a) THEN a[k] ELSE d[k - Len(a)]
    BY ConcatProperties
  <2> HIDE DEF b
  <2>2. ASSUME NEW k \in 1 .. Len(d) PROVE b[Len(a) + k] = d[k]
    <3>1. /\ Len(a) + k \in 1 .. Len(a) + Len(d) /\ ~(Len(a) + k <= Len(a))
          /\ (Len(a) + k) - Len(a) = k
      BY <1>1
    <3> QED
      BY <2>1, <3>1
  <2>3. ASSUME NEW k \in 1 .. Len(a) PROVE b[k] = a[k]
    BY <1>1, <2>1
  <2> QED
    BY <2>1, <2>2, <2>3
<1> HIDE DEF r, b
<1>5. e \in [0 .. Len(r) -> 0 .. Len(b)] /\ e[Len(r)] = Len(b) /\ e[0] = c[0]
  <2>1. \A i \in 0 .. Len(q) : c[i] \in 0 .. Len(a)
    BY <1>1
  <2>2. ASSUME NEW i \in 0 .. Len(q) + 1
        PROVE  (IF i <= Len(q) THEN c[i] ELSE Len(a) + Len(d)) \in 0 .. Len(b)
    <3>1. CASE i <= Len(q)
      BY <1>1, <1>4, <2>1, <3>1
    <3>2. CASE ~(i <= Len(q))
      BY <1>1, <1>4, <3>2
    <3> QED
      BY <3>1, <3>2
  <2>3. 0 \in 0 .. Len(q) + 1 /\ 0 <= Len(q) /\ Len(q) + 1 \in 0 .. Len(q) + 1 /\ ~(Len(q) + 1 <= Len(q))
    BY <1>1
  <2> QED
    BY <1>3, <1>4, <2>2, <2>3
<1>6. ASSUME NEW i \in 1 .. Len(r)
      PROVE  /\ e[i] = e[i - 1] + Left(r[i])
             /\ \A k \in 1 .. Left(r[i]) : r[i].data[r[i].pos + k] = b[e[i - 1] + k]
  <2>1. CASE i \in 1 .. Len(q)
    <3>1. e[i] = c[i] /\ e[i - 1] = c[i - 1] /\ r[i] = q[i]
      <4>1. i \in 0 .. Len(q) + 1 /\ i - 1 \in 0 .. Len(q) + 1 /\ i <= Len(q) /\ i - 1 <= Len(q)
        BY <1>1, <2>1
      <4> QED
        BY <1>3, <2>1, <4>1
    <3> HIDE DEF e
    <3>2. /\ Left(q[i]) \in Nat \ {0}
          /\ c[i - 1] \in Nat /\ c[i] = c[i - 1] + Left(q[i]) /\ c[i] <= Len(a)
          /\ \A k \in 1 .. Left(q[i]) : q[i].data[q[i].pos + k] = a[c[i - 1] + k]
      BY SMTT(40), <1>0, <2>1, LaidAt
    <3>3. ASSUME NEW k \in 1 .. Left(q[i]) PROVE b[c[i - 1] + k] = a[c[i - 1] + k]
      <4>1. c[i - 1] + k \in 1 .. Len(a)
        <5> DEFINE x == c[i - 1]
                   y == Left(q[i])
        <5>1. x \in Nat /\ y \in Nat /\ x + y <= Len(a)
          BY <3>2
        <5> HIDE DEF x, y
        <5>2. x + k \in 1 .. Len(a)
          BY <1>1, <5>1 DEF y
        <5> QED
          BY <5>2 DEF x
      <4> QED
        BY <1>4, <4>1
    <3> QED
      BY <3>1, <3>2, <3>3
  <2>2. CASE i = Len(q) + 1
    <3>1. e[i] = Len(a) + Len(d) /\ e[i - 1] = Len(a)
      <4>1. /\ i \in 0 .. Len(q) + 1 /\ i - 1 \in 0 .. Len(q) + 1
            /\ ~(i <= Len(q)) /\ i - 1 = Len(q) /\ i - 1 <= Len(q)
        BY <1>1, <2>2
      <4> QED
        BY <1>1, <4>1
    <3> HIDE DEF e
    <3>2. r[i] = Obuf(d)
      BY <1>3, <2>2
    <3>3. ASSUME NEW k \in 1 .. Left(r[i])
          PROVE  r[i].data[r[i].pos + k] = b[e[i - 1] + k]
      <4>1. k \in 1 .. Len(d) /\ 0 + k = k
        BY <1>1, <1>2, <3>2
      <4>2. r[i].data = d /\ r[i].pos = 0
        BY <1>2, <3>2
      <4>3. b[Len(a) + k] = d[k]
        BY <1>4, <4>1
      <4> QED
        BY <3>1, <4>1, <4>2, <4>3
    <3> QED
      BY <1>2, <3>1, <3>2, <3>3
  <2>3. i \in 1 .. Len(q) \/ i = Len(q) + 1
    BY <1>1, <1>3
  <2> QED
    BY <2>1, <2>2, <2>3
<1> HIDE DEF e
<1>7. Laid(r, e, b)
  BY <1>5, <1>6 DEF Laid
<1> QED
  BY <1>0, <1>5, <1>7 DEF LaidFrom, r, b

\* The last buffer is filled up.
LEMMA LaidFill ==
  ASSUME NEW q \in Seq(Buffer), NEW a \in Seq(Data), NEW m, LaidFrom(q, m, a),
         Len(q) > 1, NEW d \in Seq(Data), Len(d) <= Gap(q)
  PROVE  LaidFrom(AppendToLast(q, d), m, a \o d)
<1>0. PICK c \in [0 .. Len(q) -> 0 .. Len(a)] : Laid(q, c, a) /\ c[0] = m
  BY DEF LaidFrom
<1> DEFINE r == AppendToLast(q, d)
           b == a \o d
           e == [i \in 0 .. Len(q) |-> IF i = Len(q) THEN Len(a) + Len(d) ELSE c[i]]
           n == Len(q)
<1>1. /\ Len(q) \in Nat /\ Len(q) > 1 /\ Len(a) \in Nat /\ Len(d) \in Nat
      /\ c \in [0 .. Len(q) -> 0 .. Len(a)] /\ c[Len(q)] = Len(a)
      /\ n \in 1 .. Len(q)
  BY <1>0, LenProperties DEF Laid
<1>2. q[n] \in Buffer /\ q[n].data \in Seq(Data) /\ Len(q[n].data) \in Nat /\ q[n].pos \in Nat
      /\ Left(q[n]) \in Nat
  BY <1>1, LeftFacts, ElementOfSeq
<1>3. /\ r \in Seq(Buffer) /\ Len(r) = Len(q)
      /\ \A i \in 1 .. Len(q) : i # n => r[i] = q[i]
      /\ r[n].data = q[n].data \o d /\ r[n].pos = q[n].pos
  BY AppendToLastFacts
<1> HIDE DEF r
<1>4. /\ Len(b) = Len(a) + Len(d)
      /\ \A k \in 1 .. Len(a) + Len(d) : b[k] = IF k <= Len(a) THEN a[k] ELSE d[k - Len(a)]
      /\ Len(r[n].data) = Len(q[n].data) + Len(d)
      /\ \A k \in 1 .. Len(q[n].data) + Len(d) :
           r[n].data[k] = IF k <= Len(q[n].data) THEN q[n].data[k] ELSE d[k - Len(q[n].data)]
  BY SMTT(40), <1>2, <1>3, ConcatProperties
<1> HIDE DEF b
<1>5. e \in [0 .. Len(r) -> 0 .. Len(b)] /\ e[Len(r)] = Len(b) /\ e[0] = c[0]
  <2>1. \A i \in 0 .. Len(q) : c[i] \in 0 .. Len(a)
    BY <1>1
  <2>2. ASSUME NEW i \in 0 .. Len(q)
        PROVE  (IF i = Len(q) THEN Len(a) + Len(d) ELSE c[i]) \in 0 .. Len(b)
    BY <1>1, <1>4, <2>1
  <2>3. 0 \in 0 .. Len(q) /\ 0 # Len(q) /\ Len(q) \in 0 .. Len(q)
    BY <1>1
  <2> QED
    BY <1>3, <1>4, <2>2, <2>3
<1>6. ASSUME NEW i \in 1 .. Len(q)
      PROVE  /\ e[i] = e[i - 1] + Left(r[i])
             /\ \A k \in 1 .. Left(r[i]) : r[i].data[r[i].pos + k] = b[e[i - 1] + k]
  <2>1. e[i] = (IF i = Len(q) THEN Len(a) + Len(d) ELSE c[i]) /\ e[i - 1] = c[i - 1]
    <3>1. i \in 0 .. Len(q) /\ i - 1 \in 0 .. Len(q) /\ i - 1 # Len(q)
      BY <1>1
    <3> QED
      BY <3>1
  <2> HIDE DEF e
  <2> HIDE DEF n
  <2>2. /\ q[i] \in Buffer /\ Left(q[i]) \in Nat \ {0} /\ q[i].pos \in Nat
        /\ c[i - 1] \in Nat /\ c[i] \in Nat /\ c[i] = c[i - 1] + Left(q[i])
        /\ c[i] <= Len(a) /\ Len(a) \in Nat
        /\ \A k \in 1 .. Left(q[i]) : q[i].data[q[i].pos + k] = a[c[i - 1] + k]
    BY SMTT(40), <1>0, LaidAt
  <2>3. CASE i # n
    <3>1. r[i] = q[i] /\ e[i] = c[i]
      BY <1>3, <2>1, <2>3 DEF n
    <3>2. ASSUME NEW k \in 1 .. Left(q[i]) PROVE b[c[i - 1] + k] = a[c[i - 1] + k]
      <4>1. c[i - 1] + k \in 1 .. Len(a) + Len(d) /\ c[i - 1] + k <= Len(a)
        BY SMTT(40), <1>1, <2>2
      <4> QED
        BY <1>4, <4>1
    <3> QED
      BY <2>1, <2>2, <3>1, <3>2
  <2>4. CASE i = n
    <3>1. Left(r[n]) = Left(q[n]) + Len(d)
      BY SMTT(40), <1>1, <1>2, <1>3, <1>4 DEF Left
    <3>2. c[n] = Len(a) /\ e[n] = Len(a) + Len(d) /\ e[n - 1] = c[n - 1]
      BY <1>1, <2>1, <2>4 DEF n
    <3>3. e[n] = e[n - 1] + Left(r[n])
      <4>1. c[n - 1] \in Nat /\ Left(q[n]) \in Nat /\ c[n] = c[n - 1] + Left(q[n])
        BY <2>2, <2>4
      <4> QED
        BY SMTT(40), <1>1, <3>1, <3>2, <4>1
    <3>4. ASSUME NEW k \in 1 .. Left(r[n])
          PROVE  r[n].data[r[n].pos + k] = b[c[n - 1] + k]
      <4> DEFINE x == q[n].pos + k
                 y == c[n - 1] + k
                 w == Left(q[n])
      <4>1. /\ w \in Nat \ {0} /\ c[n - 1] \in Nat /\ Len(a) = c[n - 1] + w
            /\ Len(q[n].data) = q[n].pos + w
            /\ \A j \in 1 .. w : q[n].data[q[n].pos + j] = a[c[n - 1] + j]
        <5>1. /\ w \in Nat \ {0} /\ c[n - 1] \in Nat /\ c[n] = c[n - 1] + w
              /\ \A j \in 1 .. w : q[n].data[q[n].pos + j] = a[c[n - 1] + j]
          BY <2>2, <2>4
        <5>2. Len(q[n].data) = q[n].pos + w
          BY SMTT(40), <1>2 DEF Left
        <5> QED
          BY <3>2, <5>1, <5>2
      <4>2. /\ x \in 1 .. Len(q[n].data) + Len(d) /\ y \in 1 .. Len(a) + Len(d)
            /\ (x <= Len(q[n].data) <=> k \in 1 .. w) /\ (y <= Len(a) <=> k \in 1 .. w)
            /\ x - Len(q[n].data) = k - w /\ y - Len(a) = k - w
        <5>1. k \in Nat \ {0} /\ k <= w + Len(d)
          BY <1>1, <3>1, <4>1
        <5> DEFINE l == Len(q[n].data)
                   z == q[n].pos
                   v == c[n - 1]
        <5>2. /\ l \in Nat /\ z \in Nat /\ l = z + w /\ w \in Nat /\ Len(d) \in Nat
              /\ v \in Nat /\ Len(a) = v + w /\ x = z + k /\ y = v + k
          BY <1>1, <1>2, <4>1
        <5> HIDE DEF w, l, z, v, x, y
        <5>3. /\ x \in 1 .. l + Len(d) /\ y \in 1 .. Len(a) + Len(d)
              /\ (x <= l <=> k \in 1 .. w) /\ (y <= Len(a) <=> k \in 1 .. w)
              /\ x - l = k - w /\ y - Len(a) = k - w
          BY <5>1, <5>2
        <5> QED
          BY <5>3 DEF l
      <4>3. /\ r[n].data[x] = IF k \in 1 .. w THEN q[n].data[x] ELSE d[k - w]
            /\ b[y] = IF k \in 1 .. w THEN a[y] ELSE d[k - w]
        <5> HIDE DEF x, y, w
        <5>1. /\ r[n].data[x] = IF x <= Len(q[n].data) THEN q[n].data[x] ELSE d[x - Len(q[n].data)]
              /\ b[y] = IF y <= Len(a) THEN a[y] ELSE d[y - Len(a)]
          BY <1>4, <4>2
        <5> QED
          BY <4>2, <5>1
      <4> QED
        BY <1>3, <4>1, <4>3
    <3> QED
      BY <2>1, <2>4, <3>3, <3>4
  <2> QED
    BY <2>3, <2>4
<1> HIDE DEF e
<1>7. Laid(r, e, b)
  BY <1>3, <1>5, <1>6 DEF Laid
<1> QED
  BY <1>0, <1>5, <1>7 DEF LaidFrom, r, b

\* A short write moves buf_pos of the first buffer.
LEMMA LaidShort ==
  ASSUME NEW q \in Seq(Buffer), NEW a \in Seq(Data), NEW m, LaidFrom(q, m, a),
         q # <<>>, NEW n \in Nat, q[1].pos + n < Len(q[1].data)
  PROVE  LaidFrom([q EXCEPT ![1].pos = @ + n], m + n, a)
<1>0. PICK c \in [0 .. Len(q) -> 0 .. Len(a)] : Laid(q, c, a) /\ c[0] = m
  BY DEF LaidFrom
<1> DEFINE bf == [q[1] EXCEPT !.pos = @ + n]
           r == [q EXCEPT ![1] = bf]
           e == [i \in 0 .. Len(q) |-> IF i = 0 THEN c[0] + n ELSE c[i]]
<1>1. /\ Len(q) \in Nat \ {0} /\ Len(a) \in Nat /\ 1 \in 1 .. Len(q)
      /\ c \in [0 .. Len(q) -> 0 .. Len(a)] /\ c[Len(q)] = Len(a)
  BY <1>0, LenProperties, EmptySeq DEF Laid
<1>2. /\ q[1] \in Buffer /\ Left(q[1]) \in Nat \ {0} /\ q[1].pos \in Nat
      /\ c[0] \in Nat /\ c[1] = c[0] + Left(q[1]) /\ c[1] <= Len(a)
      /\ \A k \in 1 .. Left(q[1]) : q[1].data[q[1].pos + k] = a[c[0] + k]
  <2>1. /\ q[1] \in Buffer /\ Left(q[1]) \in Nat \ {0} /\ q[1].pos \in Nat
        /\ c[1 - 1] \in Nat /\ c[1] \in Nat /\ c[1] = c[1 - 1] + Left(q[1])
        /\ c[1] <= Len(a) /\ Len(a) \in Nat
        /\ \A k \in 1 .. Left(q[1]) : q[1].data[q[1].pos + k] = a[c[1 - 1] + k]
    BY SMTT(40), <1>0, <1>1, LaidAt
  <2>2. 1 - 1 = 0
    OBVIOUS
  <2> QED
    BY <2>1, <2>2
<1>3. bf = [data |-> q[1].data, pos |-> q[1].pos + n]
  BY <1>2, BufferFields
<1>4. q[1].data \in Seq(Data) /\ Len(q[1].data) \in 1 .. ObufSize /\ q[1].pos + n \in Nat
  BY <1>2, BufferFields
<1>5. /\ bf \in Buffer /\ bf.data = q[1].data /\ bf.pos = q[1].pos + n
      /\ Left(bf) = Left(q[1]) - n /\ Left(q[1]) - n > 0
  <2>1. bf \in Buffer
    BY <1>3, <1>4, BufferIntro
  <2>2. bf.data = q[1].data /\ bf.pos = q[1].pos + n
    BY <1>3
  <2>3. Len(q[1].data) \in Nat
    BY <1>4, LenProperties
  <2> HIDE DEF bf
  <2>4. Left(bf) = Left(q[1]) - n /\ Left(q[1]) - n > 0
    BY SMTT(40), <1>2, <2>2, <2>3 DEF Left
  <2> QED
    BY <2>1, <2>2, <2>4
<1> HIDE DEF bf
<1>6. r \in Seq(Buffer) /\ Len(r) = Len(q) /\ \A i \in 1 .. Len(q) : r[i] = IF i = 1 THEN bf ELSE q[i]
  BY <1>1, <1>5, ExceptSeq
<1>7. r = [q EXCEPT ![1].pos = @ + n]
  BY DEF bf
<1> HIDE DEF r
<1>8. e \in [0 .. Len(r) -> 0 .. Len(a)] /\ e[Len(r)] = Len(a) /\ e[0] = c[0] + n
  <2>1. c[0] + n \in 0 .. Len(a)
    BY <1>1, <1>2, <1>5
  <2>2. \A i \in 0 .. Len(q) : c[i] \in 0 .. Len(a)
    BY <1>1
  <2>3. 0 \in 0 .. Len(q) /\ Len(q) \in 0 .. Len(q) /\ Len(q) # 0
    BY <1>1
  <2> QED
    BY <1>1, <1>6, <2>1, <2>2, <2>3
<1>9. ASSUME NEW i \in 1 .. Len(q)
      PROVE  /\ e[i] = e[i - 1] + Left(r[i])
             /\ \A k \in 1 .. Left(r[i]) : r[i].data[r[i].pos + k] = a[e[i - 1] + k]
  <2>1. e[i] = c[i] /\ e[i - 1] = IF i = 1 THEN c[0] + n ELSE c[i - 1]
    <3>1. i \in 0 .. Len(q) /\ i - 1 \in 0 .. Len(q) /\ i # 0 /\ (i - 1 = 0 <=> i = 1)
      BY <1>1
    <3> QED
      BY <3>1
  <2> HIDE DEF e
  <2>2. CASE i = 1
    <3>1. r[i] = bf /\ e[i] = c[1] /\ e[i - 1] = c[0] + n
      BY <1>6, <2>1, <2>2
    <3>2. c[1] = (c[0] + n) + Left(bf)
      <4> DEFINE x == Left(q[1])
                 y == Left(bf)
      <4>1. x \in Nat /\ y = x - n /\ c[1] = c[0] + x /\ c[0] \in Nat
        BY <1>2, <1>5
      <4> HIDE DEF x, y
      <4>2. c[1] = (c[0] + n) + y
        BY <4>1
      <4> QED
        BY <4>2 DEF y
    <3>3. ASSUME NEW k \in 1 .. Left(bf)
          PROVE  bf.data[bf.pos + k] = a[(c[0] + n) + k]
      <4>1. /\ n + k \in 1 .. Left(q[1]) /\ bf.pos + k = q[1].pos + (n + k)
            /\ (c[0] + n) + k = c[0] + (n + k)
        BY SMTT(40), <1>2, <1>5
      <4> QED
        BY <1>2, <1>5, <4>1
    <3> QED
      BY <3>1, <3>2, <3>3
  <2>3. CASE i # 1
    <3>1. r[i] = q[i] /\ e[i] = c[i] /\ e[i - 1] = c[i - 1]
      BY <1>6, <2>1, <2>3
    <3> QED
      BY <1>0, <3>1 DEF Laid
  <2> QED
    BY <2>2, <2>3
<1> HIDE DEF e
<1>10. Laid(r, e, a)
  BY <1>6, <1>8, <1>9 DEF Laid
<1> QED
  BY <1>0, <1>7, <1>8, <1>10 DEF LaidFrom

\* The first buffer is written to its end.
LEMMA LaidTail ==
  ASSUME NEW q \in Seq(Buffer), NEW a \in Seq(Data), NEW m, LaidFrom(q, m, a), q # <<>>
  PROVE  LaidFrom(Tail(q), m + Left(q[1]), a)
<1>0. PICK c \in [0 .. Len(q) -> 0 .. Len(a)] : Laid(q, c, a) /\ c[0] = m
  BY DEF LaidFrom
<1> DEFINE r == Tail(q)
           e == [i \in 0 .. Len(q) - 1 |-> c[i + 1]]
<1>1. /\ Len(q) \in Nat \ {0} /\ Len(a) \in Nat
      /\ c \in [0 .. Len(q) -> 0 .. Len(a)] /\ c[Len(q)] = Len(a)
  BY <1>0, LenProperties, EmptySeq DEF Laid
<1>2. /\ r \in Seq(Buffer) /\ Len(r) = Len(q) - 1
      /\ \A i \in 1 .. Len(r) : r[i] = q[i + 1]
  BY HeadTailProperties
<1> HIDE DEF r
<1>3. e \in [0 .. Len(r) -> 0 .. Len(a)] /\ e[Len(r)] = Len(a) /\ e[0] = c[1]
  <2>1. \A i \in 0 .. Len(q) - 1 : c[i + 1] \in 0 .. Len(a)
    <3>1. \A i \in 0 .. Len(q) - 1 : i + 1 \in 0 .. Len(q)
      BY <1>1
    <3> QED
      BY <1>1, <3>1
  <2>2. 0 \in 0 .. Len(q) - 1 /\ Len(q) - 1 \in 0 .. Len(q) - 1 /\ (Len(q) - 1) + 1 = Len(q)
    BY <1>1
  <2>3. e \in [0 .. Len(q) - 1 -> 0 .. Len(a)]
    BY <2>1
  <2>4. e[Len(q) - 1] = c[(Len(q) - 1) + 1] /\ e[0] = c[0 + 1]
    BY <2>2
  <2> HIDE DEF e
  <2> QED
    BY <1>1, <1>2, <2>2, <2>3, <2>4
<1>4. c[1] = c[0] + Left(q[1])
  <2>1. 1 \in 1 .. Len(q) /\ 1 - 1 = 0
    BY <1>1
  <2> QED
    BY <1>0, <2>1 DEF Laid
<1>5. ASSUME NEW i \in 1 .. Len(r)
      PROVE  /\ e[i] = e[i - 1] + Left(r[i])
             /\ \A k \in 1 .. Left(r[i]) : r[i].data[r[i].pos + k] = a[e[i - 1] + k]
  <2>1. /\ i \in 0 .. Len(q) - 1 /\ i - 1 \in 0 .. Len(q) - 1
        /\ i + 1 \in 1 .. Len(q) /\ (i + 1) - 1 = i /\ (i - 1) + 1 = i
    BY <1>1, <1>2
  <2>2. e[i] = c[i + 1] /\ e[i - 1] = c[i] /\ r[i] = q[i + 1]
    BY <1>2, <2>1
  <2>3. /\ c[i + 1] = c[(i + 1) - 1] + Left(q[i + 1])
        /\ \A k \in 1 .. Left(q[i + 1]) :
             q[i + 1].data[q[i + 1].pos + k] = a[c[(i + 1) - 1] + k]
    BY <1>0, <2>1 DEF Laid
  <2> HIDE DEF e
  <2> QED
    BY <2>1, <2>2, <2>3
<1> HIDE DEF e
<1>6. Laid(r, e, a)
  BY <1>3, <1>5 DEF Laid
<1> QED
  BY <1>0, <1>3, <1>4, <1>6 DEF LaidFrom, r

-----------------------------------------------------------------------------
(* The steps keep the output intact.                                       *)

\* Accepting data keeps what was sent a beginning.
LEMMA GrowSent ==
  ASSUME Kept, NEW d \in Seq(Data), accepted \in Seq(Data), sent \in Seq(Data)
  PROVE  /\ Len(sent) <= Len(accepted \o d)
         /\ \A k \in 1 .. Len(sent) : sent[k] = (accepted \o d)[k]
<1>1. /\ Len(accepted \o d) = Len(accepted) + Len(d)
      /\ \A k \in 1 .. Len(accepted) + Len(d) :
           (accepted \o d)[k] = IF k <= Len(accepted) THEN accepted[k] ELSE d[k - Len(accepted)]
  BY ConcatProperties
<1>2. Len(accepted) \in Nat /\ Len(d) \in Nat /\ Len(sent) \in Nat /\ Len(sent) <= Len(accepted)
  BY LenProperties DEF Kept
<1>3. ASSUME NEW k \in 1 .. Len(sent) PROVE (accepted \o d)[k] = accepted[k]
  <2>1. k \in 1 .. Len(accepted) + Len(d) /\ k <= Len(accepted)
    BY <1>2
  <2> QED
    BY <1>1, <2>1
<1> QED
  BY <1>1, <1>2, <1>3 DEF Kept

\* output_queue_add keeps the layout.
LEMMA AddObufKept ==
  ASSUME OqInv, Kept, NEW d \in Seq(Data), Len(d) \in 1 .. ObufSize, AddObuf(d)
  PROVE  Kept'
<1>1. /\ queue \in Seq(Buffer) /\ accepted \in Seq(Data) /\ sent \in Seq(Data)
      /\ queue' \in Seq(Buffer) /\ accepted' \in Seq(Data)
      /\ accepted' = accepted \o d /\ sent' = sent /\ error' = error
      /\ Len(sent) \in Nat
  BY AddObufInv, LenProperties DEF OqInv, AddObuf
<1>2. Len(sent') <= Len(accepted') /\ \A k \in 1 .. Len(sent') : sent'[k] = accepted'[k]
  BY <1>1, GrowSent
<1>3. ASSUME ~error PROVE LaidFrom(queue', Len(sent), accepted')
  <2>1. LaidFrom(queue, Len(sent), accepted)
    BY <1>3 DEF Kept
  <2>2. CASE MayAppend(queue) /\ Gap(queue) >= Len(d)
    <3>1. queue' = AppendToLast(queue, d) /\ Len(queue) > 1
      BY <2>2 DEF AddObuf, MayAppend
    <3>2. Len(d) <= Gap(queue)
      BY <2>2 DEF Gap
    <3>3. LaidFrom(AppendToLast(queue, d), Len(sent), accepted \o d)
      BY <1>1, <2>1, <3>1, <3>2, LaidFill
    <3> QED
      BY <1>1, <3>1, <3>3
  <2>3. CASE ~(MayAppend(queue) /\ Gap(queue) >= Len(d))
    <3>1. queue' = Append(queue, Obuf(d))
      BY <2>3 DEF AddObuf
    <3>2. LaidFrom(Append(queue, Obuf(d)), Len(sent), accepted \o d)
      BY <1>1, <2>1, LaidAppend
    <3> QED
      BY <1>1, <3>1, <3>2
  <2> QED
    BY <2>2, <2>3
<1> QED
  BY <1>1, <1>2, <1>3 DEF Kept

\* output_queue_done keeps the layout after a write that took some bytes.
LEMMA DoneOkKept ==
  ASSUME OqInv, Kept, ~error, NEW n, DoneOk(n)
  PROVE  Kept'
<1>1. /\ queue \in Seq(Buffer) /\ queue # <<>> /\ request \in Seq(Data)
      /\ accepted \in Seq(Data) /\ sent \in Seq(Data) /\ n \in 0 .. Len(request)
      /\ request = Rest(queue[1])
  <2>1. queue # <<>> /\ request \in Seq(Data)
    BY RequestMeansData DEF DoneOk
  <2> QED
    BY <2>1 DEF OqInv, DoneOk, RequestStable, IoRequest
<1>2. /\ queue' \in Seq(Buffer) /\ sent' \in Seq(Data)
      /\ accepted' = accepted /\ error' = error
      /\ queue' = AfterWrite(queue, n) /\ sent' = sent \o SubSeq(request, 1, n)
  BY DoneOkInv DEF OqInv, DoneOk
<1> DEFINE bf == queue[1]
<1>3. /\ Len(queue) \in Nat \ {0} /\ 1 \in 1 .. Len(queue) /\ 1 - 1 = 0
      /\ Len(sent) \in Nat /\ Len(accepted) \in Nat
  BY <1>1, EmptySeq, LenProperties
<1>a. LaidFrom(queue, Len(sent), accepted)
  BY DEF Kept
<1>4. PICK c \in [0 .. Len(queue) -> 0 .. Len(accepted)] :
        Laid(queue, c, accepted) /\ c[0] = Len(sent)
  BY <1>a DEF LaidFrom
<1>5. /\ bf \in Buffer /\ Left(bf) \in Nat \ {0} /\ bf.pos \in Nat
      /\ c[1 - 1] \in Nat /\ c[1] \in Nat /\ c[1] = c[1 - 1] + Left(bf)
      /\ c[1] <= Len(accepted) /\ Len(accepted) \in Nat
      /\ \A k \in 1 .. Left(bf) : bf.data[bf.pos + k] = accepted[c[1 - 1] + k]
  <2>1. queue \in Seq(Buffer) /\ accepted \in Seq(Data) /\ Laid(queue, c, accepted)
        /\ 1 \in 1 .. Len(queue)
    BY <1>1, <1>3, <1>4
  <2> QED
    BY <2>1, LaidAt
<1>6. /\ Len(request) = Left(bf) /\ Left(bf) = Len(bf.data) - bf.pos /\ Len(bf.data) \in Nat
      /\ \A k \in 1 .. Left(bf) : request[k] = bf.data[bf.pos + k]
  BY <1>1, <1>5, LeftFacts DEF Left
<1>7. \A k \in 1 .. Left(bf) : request[k] = accepted[Len(sent) + k]
  BY <1>3, <1>4, <1>5, <1>6
<1>8. Len(sent) + Left(bf) <= Len(accepted)
  BY <1>3, <1>4, <1>5
<1> HIDE DEF bf
<1> DEFINE s == SubSeq(request, 1, n)
<1>9. n \in Nat /\ n <= Left(bf)
  BY <1>1, <1>5, <1>6
<1>10. s \in Seq(Data) /\ Len(s) = n /\ \A k \in 1 .. n : s[k] = request[k]
  <2>1. \A k \in 1 .. n : request[k] \in Data
    <3>1. \A k \in 1 .. n : k \in 1 .. Len(request)
      BY <1>5, <1>6, <1>9
    <3> QED
      BY <1>1, <3>1, ElementOfSeq
  <2>2. /\ s \in Seq(Data) /\ Len(s) = IF 1 <= n THEN n - 1 + 1 ELSE 0
        /\ \A k \in 1 .. n - 1 + 1 : s[k] = request[1 + k - 1]
    BY <1>9, <2>1, SubSeqProperties
  <2> HIDE DEF s
  <2> QED
    BY <1>9, <2>2
<1> HIDE DEF s
<1>11. /\ Len(sent') = Len(sent) + n
       /\ \A k \in 1 .. Len(sent) + n : sent'[k] = IF k <= Len(sent) THEN sent[k] ELSE s[k - Len(sent)]
  BY <1>1, <1>2, <1>10, ConcatProperties DEF s
<1>12. Len(sent') <= Len(accepted) /\ Len(sent') \in Nat
  BY <1>3, <1>5, <1>8, <1>9, <1>11
<1>13. ASSUME NEW k \in 1 .. Len(sent') PROVE sent'[k] = accepted[k]
  <2>1. CASE k <= Len(sent)
    <3>1. k \in 1 .. Len(sent) /\ k \in 1 .. Len(sent) + n
      BY <1>3, <1>9, <2>1
    <3> QED
      BY <1>11, <2>1, <3>1 DEF Kept
  <2>2. CASE ~(k <= Len(sent))
    <3>1. /\ k - Len(sent) \in 1 .. n /\ k - Len(sent) \in 1 .. Left(bf)
          /\ Len(sent) + (k - Len(sent)) = k /\ k \in 1 .. Len(sent) + n
      BY <1>3, <1>5, <1>9, <1>11, <2>2
    <3>2. sent'[k] = s[k - Len(sent)]
      BY <1>11, <2>2, <3>1
    <3> QED
      BY <1>7, <1>10, <3>1, <3>2
  <2> QED
    BY <2>1, <2>2
<1>14. LaidFrom(queue', Len(sent'), accepted)
  <2>1. CASE bf.pos + n < Len(bf.data)
    <3>1. queue' = [queue EXCEPT ![1].pos = @ + n]
      BY <1>2, <2>1 DEF AfterWrite, bf
    <3>2. LaidFrom([queue EXCEPT ![1].pos = @ + n], Len(sent) + n, accepted)
      BY <1>1, <1>a, <1>9, <2>1, LaidShort DEF bf
    <3> QED
      BY <1>11, <3>1, <3>2
  <2>2. CASE ~(bf.pos + n < Len(bf.data))
    <3>1. queue' = Tail(queue)
      BY <1>2, <2>2 DEF AfterWrite, bf
    <3>2. n = Left(bf)
      BY SMTT(40), <1>5, <1>6, <1>9, <2>2
    <3>3. LaidFrom(Tail(queue), Len(sent) + Left(bf), accepted)
      BY <1>1, <1>a, LaidTail DEF bf
    <3> QED
      BY <1>11, <3>1, <3>2, <3>3
  <2> QED
    BY <2>1, <2>2
<1> QED
  BY <1>2, <1>12, <1>13, <1>14 DEF Kept

\* output_queue_done keeps the layout after an error.
LEMMA DoneErrorKept ==
  ASSUME Kept, DoneError
  PROVE  Kept'
BY DEF Kept, DoneError

-----------------------------------------------------------------------------
(* The channel.                                                            *)

\* The types of the variables that the lock count depends on.
LifeType ==
  /\ obuf \in Seq(Data) /\ Len(obuf) <= ObufSize /\ todo \in Seq(Data)
  /\ lock_cnt \in Int /\ ext \in Nat /\ out_flush_cnt \in Nat
  /\ deleted \in BOOLEAN /\ drained \in BOOLEAN /\ read_pending \in BOOLEAN

\* What keeps a channel alive while its code runs: the creator's lock until
\* the input has ended after the close, and then the lock of the client that
\* writes.  A handler and the two halves of the close run only before that.
Alive ==
  /\ deleted => lock_cnt = 0
  /\ drained => state = "Disconnected" /\ ~read_pending
  /\ pc # "idle" => state # "Disconnected"
  /\ todo # <<>> => state # "Disconnected" \/ ext > 0
  /\ state = "Disconnected" \/ pc = "closing" => handling_msg # "Triggered"

CInv == OqInv /\ LifeType /\ LockAccounting /\ Alive

\* A channel that somebody needs is not deleted.
LEMMA DeletedFacts ==
  ASSUME CInv, deleted
  PROVE  /\ drained /\ request = None /\ out_flush_cnt = 0 /\ ext = 0
         /\ pc = "idle" /\ todo = <<>> /\ state = "Disconnected"
  BY DEF CInv, LifeType, LockAccounting, Alive, Count

\* An empty output buffer is a legal one.
LEMMA EmptyFits == <<>> \in Seq(Data) /\ Len(<<>>) <= ObufSize
<1>1. ObufSize \in Nat
  BY OutputQueueAssumption
<1>2. <<>> \in Seq(Data) /\ Len(<<>>) = 0
  OBVIOUS
<1> QED
  BY <1>1, <1>2

\* Handing obuf to the queue takes a lock when it posts a request.
LEMMA FlushFacts ==
  ASSUME CInv, FlushToQueue
  PROVE  /\ OqInv' /\ FlushLocks \in {0, 1}
         /\ Count(request' # None) = Count(request # None) + FlushLocks
<1>1. /\ OqInv /\ obuf \in Seq(Data) /\ Len(obuf) \in Nat /\ Len(obuf) <= ObufSize
      /\ ObufSize \in Nat
  BY LenProperties, OutputQueueAssumption DEF CInv, LifeType
<1>2. CASE Flushes
  <2>1. AddObuf(obuf) /\ Len(obuf) \in 1 .. ObufSize
    BY <1>1, <1>2, EmptySeq DEF FlushToQueue, Flushes
  <2>2. OqInv'
    BY <1>1, <2>1, AddObufInv
  <2>3. (request = None) = (queue = <<>>)
    BY <1>1, RequestMeansData
  <2>4. queue' # <<>>
    <3>1. Len(queue) \in Nat /\ queue \in Seq(Buffer)
      BY <1>1, LenProperties DEF OqInv
    <3>2. Obuf(obuf) \in Buffer
      BY <1>1, <2>1, BufferIntro DEF Obuf
    <3>3. Append(queue, Obuf(obuf)) # <<>>
      BY <3>1, <3>2, AppendProperties
    <3>4. MayAppend(queue) /\ Gap(queue) >= Len(obuf) => AppendToLast(queue, obuf) # <<>>
      <4>1. SUFFICES ASSUME MayAppend(queue), Gap(queue) >= Len(obuf)
                     PROVE  AppendToLast(queue, obuf) # <<>>
        OBVIOUS
      <4>2. Gap(queue) \in Int
        <5>1. queue[Len(queue)] \in Buffer
          BY <3>1, <4>1 DEF MayAppend
        <5> QED
          BY <1>1, <5>1, BufferFields DEF Gap, Last
      <4> QED
        BY <1>1, <3>1, <4>1, <4>2, AppendToLastFacts DEF MayAppend
    <3> QED
      BY <2>1, <3>3, <3>4 DEF AddObuf
  <2>5. request' # None
    <3>1. queue'[1] \in Buffer
      BY <2>2, <2>4 DEF OqInv
    <3>2. Rest(queue'[1]) # None
      BY <3>1, RestType, OutputQueueAssumption
    <3> QED
      BY <2>2, <2>4, <3>2 DEF OqInv, RequestStable, IoRequest
  <2> QED
    BY <1>2, <2>2, <2>3, <2>5 DEF FlushLocks, Count
<1>3. CASE ~Flushes
  BY <1>1, <1>3 DEF FlushToQueue, FlushLocks, OqInv, oqVars, RequestStable, IoRequest, Count
<1> QED
  BY <1>2, <1>3

\* A completed write gives up its lock, the next request takes one.
LEMMA DoneFacts ==
  ASSUME OqInv, DoneError \/ \E n \in 0 .. ObufSize : DoneOk(n)
  PROVE  /\ OqInv' /\ request # None /\ NextWriteLock \in {0, 1}
         /\ Count(request' # None) = NextWriteLock
<1>1. OqInv' /\ request # None
  BY DoneOkInv, DoneErrorInv DEF DoneOk, DoneError
<1>2. (request' = None) = (queue' = <<>>)
  <2>1. CASE queue' = <<>>
    BY <1>1, <2>1 DEF OqInv, RequestStable, IoRequest
  <2>2. CASE queue' # <<>>
    <3>1. queue'[1] \in Buffer
      BY <1>1, <2>2 DEF OqInv
    <3>2. Rest(queue'[1]) # None
      BY <3>1, RestType, OutputQueueAssumption
    <3> QED
      BY <1>1, <2>2, <3>2 DEF OqInv, RequestStable, IoRequest
  <2> QED
    BY <2>1, <2>2
<1> QED
  BY <1>1, <1>2 DEF NextWriteLock, Count

\* Steps that leave the queue alone.
LEMMA QueueKept ==
  ASSUME OqInv, UNCHANGED oqVars
  PROVE  OqInv' /\ request' = request
  BY DEF OqInv, oqVars, RequestStable, IoRequest

\* What a change of the lock count does to the channel.
LEMMA LockByFacts ==
  ASSUME CInv, ~deleted, NEW n \in Int, LockBy(n)
  PROVE  /\ lock_cnt' = lock_cnt + n /\ lock_cnt' \in Int
         /\ deleted' \in BOOLEAN /\ (deleted' => lock_cnt' = 0)
<1>1. lock_cnt \in Int /\ deleted \in BOOLEAN
  BY DEF CInv, LifeType
<1>2. CASE lock_cnt + n = 0
  BY <1>1, <1>2 DEF LockBy, Delete
<1>3. CASE lock_cnt + n # 0
  BY <1>1, <1>3 DEF LockBy
<1> QED
  BY <1>2, <1>3

-----------------------------------------------------------------------------
(* The steps.                                                              *)

\* channel_lock
LEMMA ClientLockInv ==
  ASSUME CInv, ClientLock
  PROVE  CInv'
<1>1. OqInv' /\ request' = request
  BY QueueKept DEF CInv, ClientLock
<1>2. /\ ~deleted /\ LockBy(1) /\ ext' = ext + 1
      /\ UNCHANGED <<state, drained, obuf, out_flush_cnt, flush_events, pc, todo,
                     read_pending, handling_msg>>
  BY DEF ClientLock, output, input
<1>3. lock_cnt' = lock_cnt + 1 /\ lock_cnt' \in Int /\ deleted' \in BOOLEAN
      /\ (deleted' => lock_cnt' = 0)
  BY <1>2, LockByFacts
<1>4. LifeType'
  BY <1>2, <1>3 DEF CInv, LifeType
<1>5. LockAccounting'
  BY <1>1, <1>2, <1>3 DEF CInv, LifeType, LockAccounting, Count
<1>6. Alive'
  BY <1>2, <1>3 DEF CInv, LifeType, Alive
<1> QED
  BY <1>1, <1>4, <1>5, <1>6 DEF CInv

\* channel_unlock, by a client that does not write.
LEMMA ClientUnlockInv ==
  ASSUME CInv, ClientUnlock
  PROVE  CInv'
<1>1. OqInv' /\ request' = request
  BY QueueKept DEF CInv, ClientUnlock
<1>2. /\ ~deleted /\ LockBy(-1) /\ ext > 0 /\ ext' = ext - 1 /\ todo = <<>>
      /\ UNCHANGED <<state, drained, obuf, out_flush_cnt, flush_events, pc, todo,
                     read_pending, handling_msg>>
  BY DEF ClientUnlock, output, input
<1>3. lock_cnt' = lock_cnt + (-1) /\ lock_cnt' \in Int /\ deleted' \in BOOLEAN
      /\ (deleted' => lock_cnt' = 0)
  BY <1>2, LockByFacts
<1>4. LifeType'
  BY <1>2, <1>3 DEF CInv, LifeType
<1>5. LockAccounting'
  BY <1>1, <1>2, <1>3 DEF CInv, LifeType, LockAccounting, Count
<1>6. Alive'
  BY <1>2, <1>3 DEF CInv, LifeType, Alive
<1> QED
  BY <1>1, <1>4, <1>5, <1>6 DEF CInv

\* tcp_write_stream
LEMMA WriteUnitInv ==
  ASSUME CInv, WriteUnit
  PROVE  CInv'
<1> DEFINE u    == Head(todo)
           full == Len(obuf) = ObufSize
           n    == (IF full THEN FlushLocks ELSE 0)
                   + (IF PostsFlush(u) /\ out_flush_cnt = 0 THEN 1 ELSE 0)
<1>1. u \in Data /\ Tail(todo) \in Seq(Data)
  BY HeadTailProperties DEF CInv, LifeType, WriteUnit
<1>2. /\ OqInv' /\ n \in Int
      /\ Count(request' # None) = Count(request # None) + (IF full THEN FlushLocks ELSE 0)
      /\ (IF full THEN FlushLocks ELSE 0) \in {0, 1}
  <2>1. CASE full
    BY <2>1, FlushFacts DEF WriteUnit
  <2>2. CASE ~full
    BY <2>2, QueueKept DEF WriteUnit, CInv, Count
  <2> QED
    BY <2>1, <2>2
<1>3. obuf' \in Seq(Data) /\ Len(obuf') <= ObufSize
  <2>1. obuf \in Seq(Data) /\ Len(obuf) \in Nat /\ Len(obuf) <= ObufSize
        /\ ObufSize \in Nat \ {0} /\ <<>> \in Seq(Data)
    BY LenProperties, OutputQueueAssumption DEF CInv, LifeType
  <2>2. CASE full
    <3>1. obuf' = Append(<<>>, u)
      BY <2>2 DEF WriteUnit
    <3> QED
      BY <1>1, <2>1, <3>1
  <2>3. CASE ~full
    <3>1. obuf' = Append(obuf, u)
      BY <2>3 DEF WriteUnit
    <3>2. obuf' \in Seq(Data) /\ Len(obuf') = Len(obuf) + 1
      BY <1>1, <2>1, <3>1, AppendProperties
    <3> QED
      BY <2>1, <2>3, <3>2
  <2> QED
    BY <2>2, <2>3
<1>4. /\ LockBy(n) /\ ~deleted /\ todo # <<>> /\ todo' = Tail(todo)
      /\ out_flush_cnt' = out_flush_cnt + (IF PostsFlush(u) THEN 1 ELSE 0)
      /\ flush_events' = flush_events + (IF PostsFlush(u) THEN 1 ELSE 0)
      /\ UNCHANGED <<state, drained, pc, ext, read_pending, handling_msg>>
  BY DEF WriteUnit, other, input
<1>5. PostsFlush(u) => out_flush_cnt < 2
  BY DEF PostsFlush
<1>6. lock_cnt' = lock_cnt + n /\ lock_cnt' \in Int /\ deleted' \in BOOLEAN
      /\ (deleted' => lock_cnt' = 0)
  BY <1>2, <1>4, LockByFacts
<1>7. LifeType'
  BY <1>1, <1>3, <1>4, <1>6 DEF CInv, LifeType
<1>8. LockAccounting'
  BY SMTT(40), <1>2, <1>4, <1>5, <1>6 DEF CInv, LifeType, LockAccounting, Count
<1>9. Alive'
  BY <1>4, <1>6 DEF CInv, LifeType, Alive
<1> QED
  BY <1>2, <1>7, <1>8, <1>9 DEF CInv

\* tcp_flush_event
LEMMA FlushEventInv ==
  ASSUME CInv, FlushEvent
  PROVE  CInv'
<1> DEFINE n == (IF FlushEventFlushes THEN FlushLocks ELSE 0)
                - (IF out_flush_cnt = 1 THEN 1 ELSE 0)
<1>1. /\ LockBy(n) /\ ~deleted /\ pc = "idle" /\ flush_events > 0 /\ todo = <<>>
      /\ flush_events' = flush_events - 1 /\ out_flush_cnt' = out_flush_cnt - 1
      /\ UNCHANGED <<state, drained, pc, todo, ext, read_pending, handling_msg>>
  BY DEF FlushEvent, Idle, input, other
<1>2. /\ OqInv' /\ (IF FlushEventFlushes THEN FlushLocks ELSE 0) \in {0, 1}
      /\ Count(request' # None)
           = Count(request # None) + (IF FlushEventFlushes THEN FlushLocks ELSE 0)
      /\ obuf' \in {obuf, <<>>}
  <2>1. CASE FlushEventFlushes
    BY <2>1, FlushFacts DEF FlushEvent
  <2>2. CASE ~FlushEventFlushes
    BY <2>2, QueueKept DEF FlushEvent, CInv, Count
  <2> QED
    BY <2>1, <2>2
<1>3. n \in Int
  BY <1>2
<1>4. lock_cnt' = lock_cnt + n /\ lock_cnt' \in Int /\ deleted' \in BOOLEAN
      /\ (deleted' => lock_cnt' = 0)
  BY <1>1, <1>3, LockByFacts
<1>5. LifeType'
  <2>1. obuf' \in Seq(Data) /\ Len(obuf') <= ObufSize
    <3>1. obuf \in Seq(Data) /\ Len(obuf) <= ObufSize
      BY DEF CInv, LifeType
    <3> QED
      BY <1>2, <3>1, EmptyFits
  <2>2. out_flush_cnt' \in Nat
    BY <1>1 DEF CInv, LifeType, LockAccounting
  <2> QED
    BY <1>1, <1>4, <2>1, <2>2 DEF CInv, LifeType
<1>6. LockAccounting'
  BY <1>1, <1>2, <1>4 DEF CInv, LifeType, LockAccounting, Count
<1>7. Alive'
  BY <1>1, <1>4 DEF CInv, LifeType, Alive
<1> QED
  BY <1>2, <1>5, <1>6, <1>7 DEF CInv

\* done_write_request
LEMMA WriteDoneInv ==
  ASSUME CInv, WriteDone
  PROVE  CInv'
<1>1. /\ OqInv' /\ request # None /\ NextWriteLock \in {0, 1}
      /\ Count(request' # None) = NextWriteLock
  BY DoneFacts DEF CInv, WriteDone
<1>2. /\ LockBy(NextWriteLock - 1) /\ ~deleted /\ NextWriteLock - 1 \in Int
      /\ UNCHANGED <<state, drained, obuf, out_flush_cnt, flush_events, pc, todo, ext,
                     read_pending, handling_msg>>
  BY <1>1 DEF WriteDone, Idle, input, other
<1>3. /\ lock_cnt' = lock_cnt + (NextWriteLock - 1) /\ lock_cnt' \in Int
      /\ deleted' \in BOOLEAN /\ (deleted' => lock_cnt' = 0)
  BY <1>2, LockByFacts
<1> HIDE DEF NextWriteLock
<1>4. LifeType'
  BY <1>2, <1>3 DEF CInv, LifeType
<1>5. LockAccounting'
  BY <1>1, <1>2, <1>3 DEF CInv, LifeType, LockAccounting, Count
<1>6. Alive'
  BY <1>2, <1>3 DEF CInv, LifeType, Alive
<1> QED
  BY <1>1, <1>4, <1>5, <1>6 DEF CInv

\* The second half of send_eof_and_close.
LEMMA EndCloseInv ==
  ASSUME CInv, EndClose
  PROVE  CInv'
<1>1. /\ OqInv' /\ FlushLocks \in {0, 1}
      /\ Count(request' # None) = Count(request # None) + FlushLocks
  BY FlushFacts DEF EndClose
<1>2. /\ LockBy(FlushLocks) /\ pc = "closing" /\ todo = <<>> /\ obuf' = <<>>
      /\ state' = "Disconnected" /\ pc' = "idle" /\ read_pending' = TRUE
      /\ UNCHANGED <<drained, out_flush_cnt, flush_events, todo, ext, handling_msg>>
  BY DEF EndClose, other, PostReadAtClose
<1>3. ~deleted /\ ~drained
  BY <1>2, DeletedFacts DEF CInv, Alive
<1>4. /\ lock_cnt' = lock_cnt + FlushLocks /\ lock_cnt' \in Int
      /\ deleted' \in BOOLEAN /\ (deleted' => lock_cnt' = 0)
  BY <1>1, <1>2, <1>3, LockByFacts
<1> HIDE DEF FlushLocks
<1>5. LifeType'
  BY <1>2, <1>4, EmptyFits DEF CInv, LifeType
<1>6. LockAccounting'
  BY <1>1, <1>2, <1>4 DEF CInv, LifeType, LockAccounting, Count
<1>7. Alive'
  BY <1>2, <1>3, <1>4 DEF CInv, LifeType, Alive
<1> QED
  BY <1>1, <1>5, <1>6, <1>7 DEF CInv

\* tcp_channel_read_done after the close: the end of the stream gives up the
\* creator's lock.
LEMMA ReadAfterCloseInv ==
  ASSUME CInv, ReadAfterClose
  PROVE  CInv'
<1>1. /\ ~deleted /\ pc = "idle" /\ todo = <<>> /\ read_pending
      /\ state = "Disconnected" /\ OqInv' /\ request' = request
      /\ UNCHANGED <<state, obuf, out_flush_cnt, flush_events, pc, todo, ext, handling_msg>>
  BY QueueKept DEF CInv, ReadAfterClose, Idle, output, other
<1>2. CASE ~peer_shut
  <2>1. UNCHANGED <<read_pending, lock_cnt, deleted, drained>>
    BY <1>2 DEF ReadAfterClose
  <2> QED
    BY <1>1, <2>1 DEF CInv, LifeType, LockAccounting, Alive, Count
<1>3. CASE peer_shut
  <2>1. LockBy(-1) /\ read_pending' = FALSE /\ drained' = TRUE
    BY <1>3 DEF ReadAfterClose
  <2>2. /\ lock_cnt' = lock_cnt + (-1) /\ lock_cnt' \in Int
        /\ deleted' \in BOOLEAN /\ (deleted' => lock_cnt' = 0)
    BY <1>1, <2>1, LockByFacts
  <2>3. ~drained
    BY <1>1 DEF CInv, Alive
  <2>4. LifeType'
    BY <1>1, <2>1, <2>2 DEF CInv, LifeType
  <2>5. LockAccounting'
    BY <1>1, <2>1, <2>2, <2>3 DEF CInv, LifeType, LockAccounting, Count
  <2>6. Alive'
    BY <1>1, <2>1, <2>2 DEF CInv, LifeType, Alive
  <2> QED
    BY <1>1, <2>4, <2>5, <2>6 DEF CInv
<1> QED
  BY <1>2, <1>3

\* A step that changes no lock keeps the invariant if it keeps Alive.
LEMMA NoLockStep ==
  ASSUME CInv, UNCHANGED <<oqVars, lock_cnt, deleted, drained, obuf, out_flush_cnt,
                           flush_events, ext>>,
         todo' \in Seq(Data), read_pending' \in BOOLEAN, Alive'
  PROVE  CInv'
<1>1. OqInv' /\ request' = request
  BY QueueKept DEF CInv
<1>2. LifeType'
  BY DEF CInv, LifeType
<1>3. LockAccounting'
  BY <1>1 DEF CInv, LockAccounting, Count
<1> QED
  BY <1>1, <1>2, <1>3 DEF CInv

\* The rest of the agent's own steps and the clients' writes and closes.
LEMMA OtherStepsInv ==
  ASSUME CInv,
         \/ Start \/ WriteMessage \/ BeginClose \/ HandleMsg \/ HandleEof
         \/ MessageRead \/ HandlerReturns \/ ReadEof \/ PeerShuts
         \/ \E m \in 0 .. MaxMsgs, full \in BOOLEAN : ReadData(m, full)
  PROVE  CInv'
<1>1. /\ <<"x", "EOM">> \in Seq(Data) /\ <<"EOS", "x", "EOM">> \in Seq(Data)
      /\ <<"x", "EOM">> # <<>> /\ <<"EOS", "x", "EOM">> # <<>>
  BY ChannelTCPAssumption
<1>2. CASE Start
  <2>1. /\ UNCHANGED <<oqVars, lock_cnt, deleted, drained, obuf, out_flush_cnt,
                       flush_events, ext, pc, handling_msg>>
        /\ todo' = <<"x", "EOM">> /\ read_pending' = TRUE
        /\ state = "StartWait" /\ state' = "Started"
    BY <1>2 DEF Start, output, other
  <2>2. Alive'
    BY <2>1 DEF CInv, Alive
  <2> QED
    BY <1>1, <2>1, <2>2, NoLockStep
<1>3. CASE WriteMessage
  <2>1. /\ UNCHANGED <<oqVars, lock_cnt, deleted, drained, obuf, out_flush_cnt,
                       flush_events, ext, pc, handling_msg, state, read_pending>>
        /\ todo' = <<"x", "EOM">>
        /\ state = "Started" \/ (state = "Disconnected" /\ ext > 0)
    BY <1>3 DEF WriteMessage, output, life, input
  <2>2. Alive'
    BY <2>1 DEF CInv, Alive
  <2>3. read_pending \in BOOLEAN
    BY DEF CInv, LifeType
  <2> QED
    BY <1>1, <2>1, <2>2, <2>3, NoLockStep
<1>4. CASE BeginClose
  <2>1. /\ UNCHANGED <<oqVars, lock_cnt, deleted, drained, obuf, out_flush_cnt,
                       flush_events, ext, state, read_pending>>
        /\ todo' = <<"EOS", "x", "EOM">> /\ pc' = "closing"
        /\ state # "Disconnected" /\ handling_msg' # "Triggered"
    BY <1>4 DEF BeginClose, CancelHandling, output, life, other
  <2>2. Alive'
    BY <2>1 DEF CInv, Alive
  <2>3. read_pending \in BOOLEAN
    BY DEF CInv, LifeType
  <2> QED
    BY <1>1, <2>1, <2>2, <2>3, NoLockStep
<1>5. CASE HandleMsg
  <2>1. /\ UNCHANGED <<oqVars, lock_cnt, deleted, drained, obuf, out_flush_cnt,
                       flush_events, ext, state, read_pending, todo>>
        /\ handling_msg = "Triggered" /\ handling_msg' = "Active" /\ pc' = "handler"
    BY <1>5 DEF HandleMsg, output, life, other
  <2>2. Alive'
    BY <2>1 DEF CInv, Alive
  <2>3. read_pending \in BOOLEAN /\ todo \in Seq(Data)
    BY DEF CInv, LifeType
  <2> QED
    BY <2>1, <2>2, <2>3, NoLockStep
<1>6. CASE HandleEof
  <2>1. /\ UNCHANGED <<oqVars, lock_cnt, deleted, drained, obuf, out_flush_cnt,
                       flush_events, ext, state, read_pending>>
        /\ handling_msg = "Triggered" /\ handling_msg' = "Idle" /\ pc' = "closing"
        /\ todo' = <<"EOS", "x", "EOM">>
    BY <1>6 DEF HandleEof, output, life, other
  <2>2. Alive'
    BY <2>1 DEF CInv, Alive
  <2>3. read_pending \in BOOLEAN
    BY DEF CInv, LifeType
  <2> QED
    BY <1>1, <2>1, <2>2, <2>3, NoLockStep
<1>7. CASE MessageRead
  <2>1. /\ UNCHANGED <<oqVars, lock_cnt, deleted, drained, obuf, out_flush_cnt,
                       flush_events, ext, state, todo, pc>>
        /\ pc = "handler" /\ state = "Started" /\ read_pending' = TRUE
    BY <1>7 DEF MessageRead, output, life, other
  <2>2. Alive'
    BY <2>1 DEF CInv, Alive
  <2>3. todo \in Seq(Data)
    BY DEF CInv, LifeType
  <2> QED
    BY <2>1, <2>2, <2>3, NoLockStep
<1>8. CASE HandlerReturns
  <2>1. /\ UNCHANGED <<oqVars, lock_cnt, deleted, drained, obuf, out_flush_cnt,
                       flush_events, ext, state, todo, read_pending, handling_msg>>
        /\ pc = "handler" /\ pc' = "idle"
    BY <1>8 DEF HandlerReturns, output, life, other, input
  <2>2. Alive'
    BY <2>1 DEF CInv, Alive
  <2>3. read_pending \in BOOLEAN /\ todo \in Seq(Data)
    BY DEF CInv, LifeType
  <2> QED
    BY <2>1, <2>2, <2>3, NoLockStep
<1>9. CASE ReadEof
  <2>1. /\ UNCHANGED <<oqVars, lock_cnt, deleted, drained, obuf, out_flush_cnt,
                       flush_events, ext, state, todo, pc>>
        /\ pc = "idle" /\ state # "Disconnected" /\ read_pending' = FALSE
    BY <1>9 DEF ReadEof, Idle, output, life, other
  <2>2. Alive'
    BY <2>1 DEF CInv, Alive
  <2>3. todo \in Seq(Data)
    BY DEF CInv, LifeType
  <2> QED
    BY <2>1, <2>2, <2>3, NoLockStep
<1>10. CASE PeerShuts
  <2>1. UNCHANGED <<oqVars, lock_cnt, deleted, drained, obuf, out_flush_cnt,
                    flush_events, ext, state, todo, pc, read_pending, handling_msg>>
    BY <1>10 DEF PeerShuts, output, life, input
  <2>2. Alive'
    BY <2>1 DEF CInv, Alive
  <2>3. read_pending \in BOOLEAN /\ todo \in Seq(Data)
    BY DEF CInv, LifeType
  <2> QED
    BY <2>1, <2>2, <2>3, NoLockStep
<1>11. ASSUME NEW m \in 0 .. MaxMsgs, NEW full \in BOOLEAN, ReadData(m, full)
       PROVE  CInv'
  <2>1. /\ UNCHANGED <<oqVars, lock_cnt, deleted, drained, obuf, out_flush_cnt,
                       flush_events, ext, state, todo, pc>>
        /\ pc = "idle" /\ state # "Disconnected" /\ read_pending' = ~full
    BY <1>11 DEF ReadData, Idle, output, life, other
  <2>2. Alive'
    BY <2>1 DEF CInv, Alive
  <2>3. todo \in Seq(Data) /\ read_pending' \in BOOLEAN
    BY <2>1 DEF CInv, LifeType
  <2> QED
    BY <2>1, <2>2, <2>3, NoLockStep
<1> QED
  BY <1>2, <1>3, <1>4, <1>5, <1>6, <1>7, <1>8, <1>9, <1>10, <1>11

-----------------------------------------------------------------------------
\* The invariant holds from create_channel on.
LEMMA CInvHolds == Spec => []CInv
<1>1. Init => CInv
  <2> SUFFICES ASSUME Init PROVE CInv
    OBVIOUS
  <2>1. OqInv /\ request = None
    BY EmptySeq DEF Init, OqInit, OqInv, RequestStable, IoRequest
  <2>2. LifeType
    <3>1. /\ obuf = <<>> /\ todo = <<>> /\ lock_cnt = 1 /\ ext = 0 /\ out_flush_cnt = 0
          /\ deleted = FALSE /\ drained = FALSE /\ read_pending = FALSE
      BY DEF Init
    <3>2. obuf \in Seq(Data) /\ Len(obuf) <= ObufSize /\ todo \in Seq(Data)
      BY <3>1, EmptyFits
    <3>3. lock_cnt \in Int /\ ext \in Nat /\ out_flush_cnt \in Nat
      BY <3>1
    <3>4. deleted \in BOOLEAN /\ drained \in BOOLEAN /\ read_pending \in BOOLEAN
      BY <3>1
    <3> QED
      BY <3>2, <3>3, <3>4 DEF LifeType
  <2>3. LockAccounting /\ Alive
    BY <2>1 DEF Init, LockAccounting, Alive, Count
  <2> QED
    BY <2>1, <2>2, <2>3 DEF CInv
<1>2. CInv /\ [Next]_vars => CInv'
  <2> SUFFICES ASSUME CInv, [Next]_vars
               PROVE  CInv'
    OBVIOUS
  <2>1. CASE UNCHANGED vars
    <3>1. UNCHANGED <<oqVars, lock_cnt, deleted, drained, obuf, out_flush_cnt,
                      flush_events, ext, state, todo, pc, read_pending, handling_msg>>
      BY <2>1 DEF vars, life, input, output, other
    <3>2. Alive'
      BY <3>1 DEF CInv, Alive
    <3>3. read_pending \in BOOLEAN /\ todo \in Seq(Data)
      BY DEF CInv, LifeType
    <3> QED
      BY <3>1, <3>2, <3>3, NoLockStep
  <2>2. CASE Next
    BY <2>2, ClientLockInv, ClientUnlockInv, WriteUnitInv, FlushEventInv, WriteDoneInv,
       EndCloseInv, ReadAfterCloseInv, OtherStepsInv DEF Next, LoopStep, ReadStep
  <2> QED
    BY <2>1, <2>2
<1> QED
  BY <1>1, <1>2, PTL DEF Spec

\* lock_cnt is the number of those who need the channel (channel_tcp.c), for
\* every buffer size, number of clients' locks and interleaving of requests,
\* flush events and closes.
THEOREM LocksExact == Spec => []LockAccounting
<1>1. CInv => LockAccounting
  BY DEF CInv
<1> QED
  BY <1>1, CInvHolds, PTL

\* When tcp_unlock deletes the channel, no request, no flush event, no posted
\* handle_channel_msg and no running code is left that would use it.
THEOREM NoUseAfterDelete == Spec => []DeletedIsUnused
<1>1. CInv => DeletedIsUnused
  <2> SUFFICES ASSUME CInv, deleted PROVE DeletedIsUnused
    BY DEF DeletedIsUnused
  <2>1. flush_events = 0 /\ ~read_pending /\ handling_msg # "Triggered"
    BY DeletedFacts DEF CInv, LockAccounting, Alive
  <2> QED
    BY <2>1, DeletedFacts DEF DeletedIsUnused
<1> QED
  BY <1>1, CInvHolds, PTL

-----------------------------------------------------------------------------
(* The output of a channel arrives whole.                                  *)

\* The units that send_eof_and_close writes, and a stream that ends in them.
EosMark == <<"EOS", "x", "EOM">>

EndsInEos(s) == EosMark = SubSeq(s, Len(s) - 2, Len(s))

\* What the shutdown of the socket relies on.  Between the two halves of the
\* close the marker is spread over the queue, obuf and the code that is still
\* to run; after it the queue has taken all of it and takes nothing more.  An
\* error of the queue is one of the channel and leaves nothing to send.
CloseBooks ==
  /\ error => out_errno /\ queue = <<>>
  /\ shut_wr => state = "Disconnected" /\ queue = <<>>
  /\ pc = "closing" /\ ~out_errno => EndsInEos((accepted \o obuf) \o todo)
  /\ state = "Disconnected" /\ ~out_errno => EndsInEos(accepted)

DInv == CInv /\ Kept /\ CloseBooks

\* The marker is data, and a stream that it was appended to ends in it.
LEMMA EosMarkEnds ==
  /\ EosMark \in Seq(Data) /\ Len(EosMark) = 3
  /\ \A s \in Seq(Data) : EndsInEos(s \o EosMark)
<1>1. EosMark \in Seq(Data) /\ Len(EosMark) = 3
  BY ChannelTCPAssumption DEF EosMark
<1> HIDE DEF EosMark
<1>2. ASSUME NEW s \in Seq(Data) PROVE EndsInEos(s \o EosMark)
  <2> DEFINE r == s \o EosMark
             m == Len(s) + 1
             n == Len(s) + 3
  <2>1. Len(s) \in Nat /\ r \in Seq(Data) /\ Len(r) = Len(s) + Len(EosMark)
    BY <1>1, LenProperties, ConcatProperties
  <2>2. m \in Len(s) + 1 .. Len(s) + Len(EosMark) /\ n \in Len(s) + 1 .. Len(s) + Len(EosMark)
        /\ m - Len(s) = 1 /\ n - Len(s) = Len(EosMark) /\ Len(r) - 2 = m /\ Len(r) = n
    BY <1>1, <2>1
  <2> HIDE DEF m, n
  <2>3. SubSeq(s \o EosMark, m, n) = SubSeq(EosMark, m - Len(s), n - Len(s))
    BY <1>1, <2>2, SubSeqOfConcat2
  <2>4. SubSeq(EosMark, 1, Len(EosMark)) = EosMark
    BY <1>1, SubSeqFull
  <2>5. SubSeq(r, m, n) = EosMark
    BY <2>2, <2>3, <2>4
  <2> HIDE DEF r
  <2>6. EndsInEos(r)
    BY <2>2, <2>5 DEF EndsInEos
  <2> QED
    BY <2>6 DEF r
<1> QED
  BY <1>1, <1>2

\* Concatenation is associative.
LEMMA Regroup == \A p, q, r \in Seq(Data) : (p \o q) \o r = p \o (q \o r)
<1> TAKE p, q, r \in Seq(Data)
<1> QED
  BY SMTT(40), ConcatAssociative

\* Moving the next unit from the code to the buffer leaves the stream as it is.
LEMMA UnitMoves ==
  ASSUME NEW a \in Seq(Data), NEW b \in Seq(Data), NEW t \in Seq(Data), t # <<>>
  PROVE  (a \o Append(b, Head(t))) \o Tail(t) = (a \o b) \o t
<1> DEFINE u == Head(t)
           w == <<u>>
<1>1. u \in Data /\ Tail(t) \in Seq(Data) /\ w \in Seq(Data) /\ a \o b \in Seq(Data)
  BY HeadTailProperties, ConcatProperties
<1>2. t = w \o Tail(t)
  OBVIOUS
<1>3. Append(b, u) = b \o w
  OBVIOUS
<1> HIDE DEF u, w
<1>4. a \o (b \o w) = (a \o b) \o w
  BY SMTT(40), <1>1, Regroup
<1>5. ((a \o b) \o w) \o Tail(t) = (a \o b) \o (w \o Tail(t))
  BY ZenonT(60), <1>1, Regroup
<1>6. (a \o Append(b, u)) \o Tail(t) = ((a \o b) \o w) \o Tail(t)
  BY <1>3, <1>4, Zenon
<1>7. (a \o b) \o (w \o Tail(t)) = (a \o b) \o t
  BY <1>2, Zenon
<1>8. (a \o Append(b, u)) \o Tail(t) = (a \o b) \o t
  BY <1>5, <1>6, <1>7, Zenon
<1> QED
  BY <1>8, Zenon DEF u

\* Handing obuf to the queue moves it behind what was accepted, unless the
\* channel is closed or broken; then nothing changes.
LEMMA FlushKept ==
  ASSUME CInv, Kept, FlushToQueue
  PROVE  /\ Kept' /\ error' = error /\ sent' = sent
         /\ Flushes => accepted' = accepted \o obuf
         /\ ~Flushes => UNCHANGED oqVars
<1>1. /\ OqInv /\ obuf \in Seq(Data) /\ Len(obuf) \in Nat /\ Len(obuf) <= ObufSize
      /\ ObufSize \in Nat
  BY LenProperties, OutputQueueAssumption DEF CInv, LifeType
<1>2. CASE Flushes
  <2>1. AddObuf(obuf) /\ Len(obuf) \in 1 .. ObufSize
    BY <1>1, <1>2, EmptySeq DEF FlushToQueue, Flushes
  <2>2. Kept'
    BY <1>1, <2>1, AddObufKept
  <2> QED
    BY <1>2, <2>1, <2>2 DEF AddObuf
<1>3. CASE ~Flushes
  BY <1>3 DEF FlushToQueue, oqVars, Kept
<1> QED
  BY <1>2, <1>3

\* A step that leaves the stream alone keeps the books.
LEMMA StreamAlone ==
  ASSUME DInv, CInv', UNCHANGED <<oqVars, out_errno, shut_wr>>,
         state' = "Disconnected" <=> state = "Disconnected",
         pc' = "closing" => pc = "closing" /\ UNCHANGED <<obuf, todo>>
  PROVE  DInv'
<1>1. Kept'
  BY DEF DInv, Kept, oqVars
<1>2. CloseBooks'
  BY DEF DInv, CloseBooks, oqVars
<1> QED
  BY <1>1, <1>2 DEF DInv

\* Both ways to close the channel hand the marker to the running code.
LEMMA BeginCloseKept ==
  ASSUME DInv, CInv', BeginClose \/ HandleEof
  PROVE  DInv'
<1>1. /\ UNCHANGED <<oqVars, obuf, out_errno, state, shut_wr>>
      /\ todo' = EosMark
  BY DEF BeginClose, HandleEof, life, output, EosMark
<1>2. Kept'
  BY <1>1 DEF DInv, Kept, oqVars
<1>3. accepted \o obuf \in Seq(Data)
  BY ConcatProperties DEF DInv, CInv, OqInv, LifeType
<1>4. EndsInEos((accepted' \o obuf') \o todo')
  <2>1. EndsInEos((accepted \o obuf) \o EosMark)
    BY <1>3, EosMarkEnds
  <2>2. (accepted' \o obuf') \o todo' = (accepted \o obuf) \o EosMark
    BY <1>1 DEF oqVars
  <2> QED
    BY <2>1, <2>2
<1>5. CloseBooks'
  BY <1>1, <1>4 DEF DInv, CloseBooks, oqVars
<1> QED
  BY <1>2, <1>5 DEF DInv

\* tcp_write_stream
LEMMA WriteUnitKept ==
  ASSUME DInv, CInv', WriteUnit
  PROVE  DInv'
<1> DEFINE full == Len(obuf) = ObufSize
<1>1. /\ obuf \in Seq(Data) /\ todo \in Seq(Data) /\ todo # <<>>
      /\ accepted \in Seq(Data) /\ ObufSize \in Nat \ {0}
      /\ Head(todo) \in Data /\ <<>> \in Seq(Data) /\ accepted \o obuf \in Seq(Data)
  BY HeadTailProperties, EmptySeq, ConcatProperties, OutputQueueAssumption
     DEF DInv, CInv, OqInv, LifeType, WriteUnit
<1>2. /\ todo' = Tail(todo) /\ UNCHANGED <<state, shut_wr, out_errno, pc>>
      /\ full => FlushToQueue /\ obuf' = Append(<<>>, Head(todo))
      /\ ~full => UNCHANGED oqVars /\ obuf' = Append(obuf, Head(todo))
  BY DEF WriteUnit
<1>3. CASE full /\ Flushes
  <2>1. Kept' /\ error' = error /\ accepted' = accepted \o obuf
    BY <1>2, <1>3, FlushKept DEF DInv
  <2>2. state # "Disconnected" /\ ~out_errno
    BY <1>3 DEF Flushes
  <2>3. (accepted' \o obuf') \o todo' = (accepted \o obuf) \o todo
    <3>1. ((accepted \o obuf) \o Append(<<>>, Head(todo))) \o Tail(todo)
            = ((accepted \o obuf) \o <<>>) \o todo
      BY SMTT(40), <1>1, UnitMoves
    <3>2. (accepted \o obuf) \o <<>> = accepted \o obuf
      BY <1>1, ConcatEmptySeq
    <3> QED
      BY <1>2, <1>3, <2>1, <3>1, <3>2
  <2>4. CloseBooks'
    BY <1>2, <2>1, <2>2, <2>3 DEF DInv, CloseBooks
  <2> QED
    BY <2>1, <2>4 DEF DInv
<1>4. CASE ~(full /\ Flushes)
  <2>1. UNCHANGED oqVars
    BY <1>2, <1>4, FlushKept DEF DInv
  <2>2. Kept'
    BY <2>1 DEF DInv, Kept, oqVars
  <2>3. ASSUME pc = "closing", ~out_errno
        PROVE  (accepted' \o obuf') \o todo' = (accepted \o obuf) \o todo
    <3>1. ~full
      <4>1. state # "Disconnected"
        BY <2>3 DEF DInv, CInv, Alive
      <4>2. full => obuf # <<>>
        BY <1>1, EmptySeq
      <4> QED
        BY <1>4, <2>3, <4>1, <4>2 DEF Flushes
    <3>2. (accepted \o Append(obuf, Head(todo))) \o Tail(todo) = (accepted \o obuf) \o todo
      BY ZenonT(60), <1>1, UnitMoves
    <3> QED
      BY <1>2, <2>1, <3>1, <3>2 DEF oqVars
  <2>4. CloseBooks'
    BY <1>2, <2>1, <2>3 DEF DInv, CloseBooks, oqVars
  <2> QED
    BY <2>2, <2>4 DEF DInv
<1> QED
  BY <1>3, <1>4

\* tcp_flush_event
LEMMA FlushEventKept ==
  ASSUME DInv, CInv', FlushEvent
  PROVE  DInv'
<1>1. UNCHANGED <<state, shut_wr, out_errno, pc>> /\ pc = "idle"
  BY DEF FlushEvent, Idle
<1>2. CASE FlushEventFlushes /\ Flushes
  <2>1. Kept' /\ error' = error /\ state # "Disconnected" /\ ~out_errno
    BY <1>2, FlushKept DEF DInv, FlushEvent, Flushes
  <2>2. CloseBooks'
    BY <1>1, <2>1 DEF DInv, CloseBooks
  <2> QED
    BY <2>1, <2>2 DEF DInv
<1>3. CASE ~(FlushEventFlushes /\ Flushes)
  <2>1. UNCHANGED oqVars
    BY <1>3, FlushKept DEF DInv, FlushEvent
  <2> QED
    BY <1>1, <2>1, StreamAlone
<1> QED
  BY <1>2, <1>3

\* done_write_request: the socket is shut down when a closed channel has
\* nothing left.
LEMMA WriteDoneKept ==
  ASSUME DInv, CInv', WriteDone
  PROVE  DInv'
<1>1. /\ UNCHANGED <<state, obuf, pc, todo>> /\ pc = "idle"
      /\ shut_wr' = (shut_wr \/ ShutsWhen)
  BY DEF WriteDone, Idle
<1>2. request # None /\ queue # <<>> /\ ~error /\ ~shut_wr
  <2>1. request # None
    BY DEF WriteDone, DoneOk, DoneError
  <2>2. queue # <<>>
    BY <2>1, RequestMeansData DEF DInv, CInv
  <2> QED
    BY <2>1, <2>2 DEF DInv, CloseBooks
<1>3. shut_wr' => state' = "Disconnected" /\ queue' = <<>>
  BY <1>1, <1>2 DEF ShutsWhen
<1>4. CASE UNCHANGED out_errno /\ \E n \in 0 .. ObufSize : DoneOk(n)
  <2>1. PICK n \in 0 .. ObufSize : DoneOk(n)
    BY <1>4
  <2>2. Kept'
    BY <1>2, <2>1, DoneOkKept DEF DInv, CInv
  <2>3. error' = error /\ accepted' = accepted
    BY <2>1 DEF DoneOk
  <2>4. CloseBooks'
    BY <1>1, <1>2, <1>3, <1>4, <2>3 DEF DInv, CloseBooks
  <2> QED
    BY <2>2, <2>4 DEF DInv
<1>5. CASE DoneError /\ out_errno' = TRUE
  <2>1. Kept'
    BY <1>5, DoneErrorKept DEF DInv
  <2>2. CloseBooks'
    BY <1>1, <1>3, <1>5 DEF CloseBooks, DoneError
  <2> QED
    BY <2>1, <2>2 DEF DInv
<1> QED
  BY <1>4, <1>5 DEF WriteDone

\* The second half of send_eof_and_close hands the rest of the marker to the
\* queue.
LEMMA EndCloseKept ==
  ASSUME DInv, CInv', EndClose
  PROVE  DInv'
<1>1. /\ pc = "closing" /\ todo = <<>> /\ FlushToQueue /\ state' = "Disconnected"
      /\ shut_wr' = (queue' = <<>>) /\ pc' = "idle" /\ out_errno' = out_errno
  BY DEF EndClose
<1>2. state # "Disconnected"
  BY <1>1 DEF DInv, CInv, Alive
<1>3. /\ Kept' /\ error' = error
      /\ Flushes => accepted' = accepted \o obuf
      /\ ~Flushes => UNCHANGED oqVars
  BY <1>1, FlushKept DEF DInv
<1>4. ~out_errno => accepted' = (accepted \o obuf) \o todo
  <2>1. accepted \in Seq(Data) /\ obuf \in Seq(Data) /\ accepted \o obuf \in Seq(Data)
    BY ConcatProperties DEF DInv, CInv, OqInv, LifeType
  <2>2. (accepted \o obuf) \o <<>> = accepted \o obuf /\ accepted \o <<>> = accepted
    BY <2>1, ConcatEmptySeq
  <2>3. ~out_errno /\ ~Flushes => obuf = <<>>
    BY <1>2 DEF Flushes
  <2> QED
    BY <1>1, <1>3, <2>2, <2>3 DEF oqVars
<1>5. ~out_errno => EndsInEos(accepted')
  BY <1>1, <1>4 DEF DInv, CloseBooks
<1>6. error' => out_errno' /\ queue' = <<>>
  <2>1. error => ~Flushes
    BY DEF DInv, CloseBooks, Flushes
  <2> QED
    BY <1>1, <1>3, <2>1 DEF DInv, CloseBooks, oqVars
<1>7. CloseBooks'
  BY <1>1, <1>5, <1>6 DEF CloseBooks
<1> QED
  BY <1>3, <1>7 DEF DInv

\* Everything else leaves the stream alone.
LEMMA OtherStepsKept ==
  ASSUME DInv, CInv',
         \/ Start \/ WriteMessage \/ HandleMsg \/ MessageRead \/ HandlerReturns
         \/ ClientLock \/ ClientUnlock \/ PeerShuts \/ ReadEof \/ ReadAfterClose
         \/ \E m \in 0 .. MaxMsgs, full \in BOOLEAN : ReadData(m, full)
         \/ UNCHANGED vars
  PROVE  DInv'
<1>1. CASE Start
  BY <1>1, StreamAlone DEF Start, Idle, output
<1>2. CASE WriteMessage
  BY <1>2, StreamAlone DEF WriteMessage, life, output
<1>3. CASE HandleMsg
  BY <1>3, StreamAlone DEF HandleMsg, life, output
<1>4. CASE MessageRead
  BY <1>4, StreamAlone DEF MessageRead, life, output
<1>5. CASE HandlerReturns
  BY <1>5, StreamAlone DEF HandlerReturns, life, output
<1>6. CASE ClientLock \/ ClientUnlock
  BY <1>6, StreamAlone DEF ClientLock, ClientUnlock, output
<1>7. CASE PeerShuts
  BY <1>7, StreamAlone DEF PeerShuts, life, output
<1>8. CASE ReadEof
  BY <1>8, StreamAlone DEF ReadEof, life, output
<1>9. CASE ReadAfterClose
  BY <1>9, StreamAlone DEF ReadAfterClose, output
<1>10. CASE \E m \in 0 .. MaxMsgs, full \in BOOLEAN : ReadData(m, full)
  BY <1>10, StreamAlone DEF ReadData, life, output
<1>11. CASE UNCHANGED vars
  BY <1>11, StreamAlone DEF vars, life, output
<1> QED
  BY <1>1, <1>2, <1>3, <1>4, <1>5, <1>6, <1>7, <1>8, <1>9, <1>10, <1>11

\* Nothing is accepted or sent when create_channel returns.
LEMMA NothingYet == Init => Kept /\ CloseBooks
<1> SUFFICES ASSUME Init PROVE Kept /\ CloseBooks
  OBVIOUS
<1>1. /\ queue = <<>> /\ error = FALSE /\ accepted = <<>> /\ sent = <<>>
      /\ shut_wr = FALSE /\ pc = "idle" /\ state = "StartWait"
  BY DEF Init, OqInit
<1>2. CloseBooks
  BY <1>1 DEF CloseBooks
<1>3. Kept
  <2> DEFINE c == [i \in 0 .. 0 |-> 0]
  <2>1. c \in [0 .. 0 -> 0 .. 0] /\ c[0] = 0 /\ Len(<<>>) = 0
    BY EmptySeq
  <2> HIDE DEF c
  <2>2. Laid(<<>>, c, <<>>)
    BY <2>1 DEF Laid
  <2>3. LaidFrom(<<>>, 0, <<>>)
    BY <2>1, <2>2 DEF LaidFrom
  <2> QED
    BY <1>1, <2>1, <2>3 DEF Kept
<1> QED
  BY <1>2, <1>3

\* The invariant of the stream and of the close.
THEOREM StreamAlways == Spec => []DInv
<1>1. Init => Kept /\ CloseBooks
  BY NothingYet
<1>2. DInv /\ CInv' /\ [Next]_vars => DInv'
  BY BeginCloseKept, WriteUnitKept, FlushEventKept, WriteDoneKept, EndCloseKept,
     OtherStepsKept DEF Next, LoopStep, ReadStep
<1>3. CInv /\ Kept /\ CloseBooks <=> DInv
  BY DEF DInv
<1> QED
  BY <1>1, <1>2, <1>3, CInvHolds, PTL DEF Spec

\* Whatever is written to a channel arrives whole and in order: short writes,
\* filled buffers and flush events lose and double nothing, and SHUT_WR is
\* called only when all of it, up to the EOS marker of send_eof_and_close, has
\* been sent, unless the connection failed (channel_tcp.c, outputbuf.c).
THEOREM OutputArrivesWhole == Spec => []OutputDelivered
<1>1. DInv => OutputDelivered
  <2> SUFFICES ASSUME DInv PROVE OutputDelivered
    OBVIOUS
  <2>1. OutputIntact /\ (~error /\ queue = <<>> => sent = accepted)
    BY KeptIsIntact DEF DInv, CInv
  <2>2. ShutAfterLastData
    <3>1. CASE shut_wr /\ ~out_errno
      <4>1. queue = <<>> /\ sent = accepted /\ EndsInEos(accepted)
        BY <2>1, <3>1 DEF DInv, CloseBooks
      <4> QED
        BY <4>1 DEF ShutAfterLastData, EndsInEos, EosMark
    <3>2. CASE ~shut_wr \/ out_errno
      BY <3>2 DEF ShutAfterLastData, DInv, CloseBooks
    <3> QED
      BY <3>1, <3>2
  <2> QED
    BY <2>1, <2>2 DEF OutputDelivered
<1> QED
  BY <1>1, StreamAlways, PTL
=============================================================================
