---------------------------- MODULE StreamsProofs ----------------------------
(***************************************************************************)
(* Proofs about the virtual streams of agent/tcf/services/streamsservice.c: *)
(* the reference count, the order of commands, and that the ring buffer    *)
(* with its readers and writers implements StreamSpec.                     *)
(***************************************************************************)
EXTENDS Streams, ProofLemmas

-----------------------------------------------------------------------------
(* Types.                                                                  *)

Sources == Channels \cup {Owner}
Byte == Sources \X Nat

\* A parked write: what is left of it, all of it, and the end after it.
Waiting == [data : Seq(Byte), all : SUBSET Byte, eos : BOOLEAN]

ClientT == [pos : Nat, reads : Seq(Nat \ {0}), writes : Seq(Waiting),
            start : Nat, got : Seq(Byte), told : BOOLEAN, acked : SUBSET Byte]

StreamT ==
  [life : {"none", "live", "freed"}, access : {"none", "READ", "WRITE"}, ref_cnt : Nat,
   deleted : BOOLEAN, clients : Seq(Channels), pos : Nat, buf : [0 .. Size -> Byte \cup {<<>>}],
   buf_inp : 0 .. Size, buf_out : 0 .. Size, eos_inp : BOOLEAN, eos_out : BOOLEAN,
   data_posted : BOOLEAN, space_posted : BOOLEAN, queue : Seq({"data", "space", "delete"}),
   cl : [Channels -> ClientT], log : Seq(Byte)]

OwnerT == [posted : BOOLEAN, buf : Seq(Byte), rd_eos : BOOLEAN, eos : BOOLEAN,
           prs : BOOLEAN, taken : Seq(Byte)]

-----------------------------------------------------------------------------
(* The inductive invariant, on a stream s and its owner o.                 *)

\* The ring holds the last Used(s) bytes of the log.
Ring(s) ==
  /\ s.pos = Len(s.log) /\ Used(s) <= s.pos
  /\ \A i \in 1 .. Used(s) :
       s.buf[(s.buf_out + i - 1) % BufLen] = s.log[s.pos - Used(s) + i]

\* What a reader with the record k has, what is still in the ring for it.
ReaderOK(s, k) ==
  /\ k.start + Len(k.got) = k.pos /\ k.pos <= s.pos /\ s.pos - Used(s) <= k.pos
  /\ k.got = SubSeq(s.log, k.start + 1, k.pos)
  /\ k.told => s.eos_inp /\ k.pos = s.pos

\* Its reads wait only when there is nothing for them.
NothingFor(s, k) == k.reads # <<>> => k.pos = s.pos /\ ~s.eos_inp

ReadersOK(s) ==
  s.access = "READ" => \A c \in Clients(s) : ReaderOK(s, s.cl[c]) /\ NothingFor(s, s.cl[c])

\* The owner of a "WRITE" stream has taken what is in the ring no more.
OwnerOK(s, o) ==
  /\ s.access # "WRITE" => o.taken = <<>> /\ ~s.eos_out
  /\ s.access = "WRITE" /\ ~s.deleted => o.taken = SubSeq(s.log, 1, s.pos - Used(s))
  /\ s.eos_out => s.eos_inp /\ Used(s) = 0

\* The references, and the event that ends the stream.
Counted(s) ==
  /\ Lists(s.clients, Clients(s))
  /\ s.ref_cnt = Len(s.clients) + (IF s.deleted THEN 0 ELSE 1)
  /\ \A i \in DOMAIN s.queue : s.queue[i] = "delete" => i = Len(s.queue) /\ s.ref_cnt = 0
  /\ s.ref_cnt = 0 /\ s.life = "live" => s.queue # <<>> /\ s.queue[Len(s.queue)] = "delete"
  /\ s.life = "freed" => s.ref_cnt = 0 /\ s.queue = <<>>

\* The owner has no request in flight when it gives up its reference.
LetsGo(s, o) == s.deleted => ~o.posted /\ (s.access = "WRITE" => ~o.prs)

LifeOK(s, o) ==
  IF s.life = "none"
  THEN s = NoStream /\ ~o.posted /\ o.prs /\ o.buf = <<>>
  ELSE s.access # "none" /\ Counted(s) /\ LetsGo(s, o)

\* The bytes of c among q are among the first n it sent.
UpTo(c, q, n) == \A i \in DOMAIN q : q[i][1] = c => q[i][2] <= n

\* The parked writes w of c, when it has sent n bytes.
QueuedOK(c, w, log, n) ==
  \A j \in DOMAIN w :
    /\ w[j].data \in Seq({c} \X Nat) /\ UpTo(c, w[j].data, n)
    /\ Rising(c, w[j].data) /\ Precede(c, log, w[j].data)
    /\ \A i \in 1 .. j - 1 : Precede(c, w[i].data, w[j].data)
    /\ w[j].all \subseteq Range(log) \cup Range(w[j].data)

OrderOK(s, sn) ==
  \A c \in Channels :
    /\ Rising(c, s.log) /\ UpTo(c, s.log, sn[c])
    /\ s.cl[c].acked \subseteq Range(s.log)
    /\ QueuedOK(c, s.cl[c].writes, s.log, sn[c])

\* What an owner of a "READ" stream adds is its own.
AddsOwn(s, o) == s.access = "READ" => o.buf \in Seq({Owner} \X Nat)

\* A stream s, its owner o, and what the channels have sent.
Good(s, o, sn) ==
  /\ s \in StreamT /\ o \in OwnerT
  /\ LifeOK(s, o) /\ Ring(s) /\ ReadersOK(s) /\ OwnerOK(s, o)
  /\ OrderOK(s, sn) /\ AddsOwn(s, o)

SInv ==
  /\ sent \in [Sources -> Nat] /\ Good(st, owner, sent)
  /\ Lists(subs, Range(subs)) /\ Range(subs) \subseteq Channels

-----------------------------------------------------------------------------
(* Operators of the model without their devices for TLC.                   *)

\* The fields of a stream.
LEMMA StreamFields ==
  ASSUME NEW s \in StreamT
  PROVE  /\ s.life \in {"none", "live", "freed"} /\ s.access \in {"none", "READ", "WRITE"}
         /\ s.ref_cnt \in Nat /\ s.deleted \in BOOLEAN /\ s.clients \in Seq(Channels)
         /\ s.pos \in Nat /\ s.buf \in [0 .. Size -> Byte \cup {<<>>}]
         /\ s.buf_inp \in 0 .. Size /\ s.buf_out \in 0 .. Size
         /\ s.eos_inp \in BOOLEAN /\ s.eos_out \in BOOLEAN
         /\ s.data_posted \in BOOLEAN /\ s.space_posted \in BOOLEAN
         /\ s.queue \in Seq({"data", "space", "delete"})
         /\ s.cl \in [Channels -> ClientT] /\ s.log \in Seq(Byte)
BY DEF StreamT

\* The fields of a client.
LEMMA ClientFields ==
  ASSUME NEW k \in ClientT
  PROVE  /\ k.pos \in Nat /\ k.reads \in Seq(Nat \ {0}) /\ k.writes \in Seq(Waiting)
         /\ k.start \in Nat /\ k.got \in Seq(Byte) /\ k.told \in BOOLEAN
         /\ k.acked \in SUBSET Byte
BY DEF ClientT

\* A part of a sequence.
LEMMA Part ==
  ASSUME NEW S, NEW q \in Seq(S), NEW m \in Nat, NEW n \in Nat, m <= n, n <= Len(q)
  PROVE  /\ SubSeq(q, m + 1, n) \in Seq(S) /\ Len(SubSeq(q, m + 1, n)) = n - m
         /\ \A i \in 1 .. n - m : SubSeq(q, m + 1, n)[i] = q[m + i]
<1>1. Len(q) \in Nat
  BY LenProperties
<1> DEFINE a == m + 1
<1>2. a \in 1 .. Len(q) + 1 /\ n \in a - 1 .. Len(q) /\ n - a + 1 = n - m
  BY <1>1
<1>3. \A i \in Nat : a + i - 1 = m + i
  OBVIOUS
<1>4. a \in Nat
  OBVIOUS
<1> HIDE DEF a
<1>5. /\ SubSeq(q, a, n) \in Seq(S) /\ Len(SubSeq(q, a, n)) = n - a + 1
      /\ \A i \in 1 .. n - a + 1 : SubSeq(q, a, n)[i] = q[a + i - 1]
  BY <1>2, SubSeqProperties
<1>6. ASSUME NEW i \in 1 .. n - m PROVE SubSeq(q, a, n)[i] = q[m + i]
  <2>1. i \in Nat /\ i \in 1 .. n - a + 1
    BY <1>2
  <2>2. a + i - 1 = m + i
    BY <1>3, <2>1
  <2> QED
    BY <1>5, <2>1, <2>2, Zenon
<1> QED
  BY <1>2, <1>5, <1>6 DEF a

\* The first n of a sequence.
LEMMA FirstOf ==
  ASSUME NEW S, NEW q \in Seq(S), NEW n \in Nat, n <= Len(q)
  PROVE  /\ SubSeq(q, 1, n) \in Seq(S) /\ Len(SubSeq(q, 1, n)) = n
         /\ \A i \in 1 .. n : SubSeq(q, 1, n)[i] = q[i]
<1>1. 0 \in Nat /\ 0 <= n /\ 0 + 1 = 1 /\ n - 0 = n /\ \A i \in 1 .. n : 0 + i = i
  OBVIOUS
<1> QED
  BY <1>1, Part

\* Min and Max of two numbers.
LEMMA OfTwo ==
  ASSUME NEW a \in Int, NEW b \in Int
  PROVE  /\ Max({a, b}) = IF a < b THEN b ELSE a
         /\ Min({a, b}) = IF a < b THEN a ELSE b
<1>1. PICK x \in {a, b} : \A y \in {a, b} : x >= y
  OBVIOUS
<1>2. PICK z \in {a, b} : \A y \in {a, b} : z =< y
  OBVIOUS
<1>3. Max({a, b}) \in {a, b} /\ \A y \in {a, b} : Max({a, b}) >= y
  BY <1>1, Zenon DEF Max
<1>4. Min({a, b}) \in {a, b} /\ \A y \in {a, b} : Min({a, b}) =< y
  BY <1>2, Zenon DEF Min
<1> QED
  BY <1>3, <1>4

-----------------------------------------------------------------------------
(* The arithmetic of the ring.                                             *)

\* A place of the ring, counted from another one.
LEMMA ModOnce ==
  ASSUME NEW b \in Nat \ {0}, NEW x \in 0 .. 2 * b - 1
  PROVE  x % b = IF x < b THEN x ELSE x - b
OBVIOUS

\* The length of the ring.
LEMMA BufLenNat == Size \in Nat \ {0} /\ BufLen \in Nat \ {0} /\ BufLen = Size + 1
BY StreamsAssumption DEF BufLen

\* How many bytes are in the ring, and how many more fit.
LEMMA UsedFree ==
  ASSUME NEW s \in StreamT
  PROVE  /\ Used(s) \in 0 .. Size /\ Free(s) = Size - Used(s)
         /\ Used(s) = IF s.buf_inp < s.buf_out THEN s.buf_inp + BufLen - s.buf_out
                      ELSE s.buf_inp - s.buf_out
<1>1. s.buf_inp \in 0 .. Size /\ s.buf_out \in 0 .. Size
  BY StreamFields
<1> DEFINE i == s.buf_inp
           o == s.buf_out
<1>2. i \in 0 .. Size /\ o \in 0 .. Size
  BY <1>1
<1>3. Used(s) = (i + BufLen - o) % BufLen /\ Free(s) = (o + BufLen - i - 1) % BufLen
  BY DEF Used, Free
<1> HIDE DEF i, o
<1> DEFINE x == i + BufLen - o
           y == o + BufLen - i - 1
<1>4. x \in 0 .. 2 * BufLen - 1 /\ y \in 0 .. 2 * BufLen - 1
  BY <1>2, BufLenNat
<1> HIDE DEF x, y
<1>5. /\ x % BufLen = IF x < BufLen THEN x ELSE x - BufLen
      /\ y % BufLen = IF y < BufLen THEN y ELSE y - BufLen
  BY <1>4, BufLenNat, ModOnce
<1>6. Used(s) = x % BufLen /\ Free(s) = y % BufLen
  BY <1>3 DEF x, y
<1>7. /\ Used(s) \in 0 .. Size /\ Free(s) = Size - Used(s)
      /\ Used(s) = IF i < o THEN i + BufLen - o ELSE i - o
  BY <1>2, <1>5, <1>6, BufLenNat DEF x, y
<1> QED
  BY <1>7 DEF i, o

\* Moving one end of the ring.
LEMMA MoveOn ==
  ASSUME NEW p \in 0 .. Size, NEW n \in 0 .. Size
  PROVE  /\ (p + n) % BufLen \in 0 .. Size
         /\ (p + n) % BufLen = IF p + n < BufLen THEN p + n ELSE p + n - BufLen
<1> DEFINE b == BufLen
<1>1. b \in Nat \ {0} /\ p \in 0 .. b - 1 /\ n \in 0 .. b - 1 /\ 0 .. Size = 0 .. b - 1
  BY BufLenNat
<1> HIDE DEF b
<1>2. (p + n) % b = IF p + n < b THEN p + n ELSE p + n - b
  BY <1>1
<1>3. (p + n) % b \in 0 .. b - 1
  BY <1>1, <1>2
<1> QED
  BY <1>1, <1>2, <1>3 DEF b

\* Where the i-th byte of the ring is, counted from each end.
LEMMA Slot ==
  ASSUME NEW s \in StreamT, NEW i \in 1 .. Size
  PROVE  /\ (s.buf_out + i - 1) % BufLen \in 0 .. Size
         /\ (((s.buf_out + i - 1) % BufLen) + BufLen - s.buf_inp) % BufLen
              = IF i <= Used(s) THEN BufLen - Used(s) + i - 1 ELSE i - Used(s) - 1
<1> DEFINE a == s.buf_inp
           o == s.buf_out
           u == Used(s)
           x == o + i - 1
           y == x % BufLen
           z == y + BufLen - a
<1>1. /\ a \in 0 .. Size /\ o \in 0 .. Size /\ u \in 0 .. Size
      /\ u = IF a < o THEN a + BufLen - o ELSE a - o
  BY StreamFields, UsedFree
<1> HIDE DEF a, o, u
<1>2. x \in 0 .. 2 * BufLen - 1
  BY <1>1, BufLenNat
<1> HIDE DEF x
<1>3. x % BufLen = IF x < BufLen THEN x ELSE x - BufLen
  BY <1>2, BufLenNat, ModOnce
<1>4. y = IF x < BufLen THEN x ELSE x - BufLen
  BY <1>3
<1> HIDE DEF y
<1>5. y \in 0 .. Size
  BY <1>2, <1>4, BufLenNat
<1>6. z \in 0 .. 2 * BufLen - 1
  BY <1>1, <1>5, BufLenNat
<1> HIDE DEF z
<1>7. z % BufLen = IF z < BufLen THEN z ELSE z - BufLen
  BY <1>6, BufLenNat, ModOnce
<1>8. z % BufLen = IF i <= u THEN BufLen - u + i - 1 ELSE i - u - 1
  BY <1>1, <1>4, <1>7, BufLenNat DEF x, z
<1> QED
  BY <1>5, <1>8, Zenon DEF x, y, z, a, o, u

-----------------------------------------------------------------------------
(* Bytes that enter the ring.                                              *)

\* What a handler leaves alone: the life of the stream and who uses it.
Fixed(s, t) ==
  /\ t.life = s.life /\ t.access = s.access /\ t.ref_cnt = s.ref_cnt
  /\ t.deleted = s.deleted /\ t.clients = s.clients

\* PutBytes as a change of a record.
PutTo(s, buf, inp, p, log, end) ==
  [s EXCEPT !.buf = buf, !.buf_inp = inp, !.pos = p, !.log = log, !.eos_inp = end]

\* Its fields.
LEMMA PutRecord ==
  ASSUME NEW s \in StreamT, NEW buf \in [0 .. Size -> Byte \cup {<<>>}],
         NEW inp \in 0 .. Size, NEW p \in Nat, NEW log \in Seq(Byte), NEW end \in BOOLEAN
  PROVE  LET t == PutTo(s, buf, inp, p, log, end)
         IN  /\ t \in StreamT /\ Fixed(s, t)
             /\ t.pos = p /\ t.log = log /\ t.buf_inp = inp /\ t.buf = buf
             /\ t.buf_out = s.buf_out /\ (t.eos_inp <=> end) /\ (t.eos_out <=> s.eos_out)
             /\ t.queue = s.queue /\ t.cl = s.cl
             /\ (t.data_posted <=> s.data_posted) /\ (t.space_posted <=> s.space_posted)
BY DEF StreamT, Fixed, PutTo

\* How many bytes of data fit.
Fits(s, data) == Min({Free(s), Len(data)})

\* How many bytes fit.
LEMMA FitsSome ==
  ASSUME NEW s \in StreamT, NEW data \in Seq(Byte)
  PROVE  /\ Fits(s, data) \in Nat /\ Fits(s, data) <= Len(data)
         /\ Fits(s, data) <= Size - Used(s) /\ Fits(s, data) <= Size
         /\ Len(data) \in Nat /\ Used(s) \in Nat
<1>1. Len(data) \in Nat
  BY LenProperties
<1>2. Used(s) \in 0 .. Size /\ Free(s) = Size - Used(s)
  BY UsedFree
<1>3. Free(s) \in Nat
  BY <1>2, BufLenNat
<1>4. Fits(s, data) = IF Free(s) < Len(data) THEN Free(s) ELSE Len(data)
  <2>1. Min({Free(s), Len(data)}) = IF Free(s) < Len(data) THEN Free(s) ELSE Len(data)
    <3> DEFINE a == Free(s)
               b == Len(data)
    <3>1. a \in Int /\ b \in Int
      BY <1>1, <1>3
    <3> HIDE DEF a, b
    <3>2. Min({a, b}) = IF a < b THEN a ELSE b
      BY <3>1, OfTwo
    <3> QED
      BY <3>2 DEF a, b
  <2> QED
    BY <2>1 DEF Fits
<1> QED
  BY <1>1, <1>2, <1>3, <1>4, BufLenNat

\* The fields after PutBytes.
PutOK(s, data, eos, n, t) ==
  /\ t \in StreamT /\ Fixed(s, t) /\ t.pos = s.pos + n
  /\ t.log = s.log \o SubSeq(data, 1, n)
  /\ t.buf_inp = (s.buf_inp + n) % BufLen /\ t.buf_out = s.buf_out
  /\ t.eos_inp <=> eos /\ n = Len(data)
  /\ t.eos_out <=> s.eos_out
  /\ t.queue = s.queue /\ t.cl = s.cl
  /\ \A i \in 0 .. Size :
       t.buf[i] = IF (i + BufLen - s.buf_inp) % BufLen < n
                  THEN data[((i + BufLen - s.buf_inp) % BufLen) + 1] ELSE s.buf[i]

\* The bytes that are put, and what is left alone.
LEMMA PutFields ==
  ASSUME NEW s \in StreamT, NEW data \in Seq(Byte), NEW eos \in BOOLEAN
  PROVE  PutOK(s, data, eos, Fits(s, data), PutBytes(s, data, eos))
<1> DEFINE n == Fits(s, data)
<1>1. Len(data) \in Nat /\ n \in Nat /\ n <= Len(data) /\ n <= Size
  BY FitsSome
<1> HIDE DEF n
<1> DEFINE K(i) == (i + BufLen - s.buf_inp) % BufLen
           buf == [i \in 0 .. Size |-> IF K(i) < n THEN data[K(i) + 1] ELSE s.buf[i]]
           inp == (s.buf_inp + n) % BufLen
           log == s.log \o SubSeq(data, 1, n)
           end == (eos /\ n = Len(data))
           p == s.pos + n
           t == PutTo(s, buf, inp, p, log, end)
<1>2. t = PutBytes(s, data, eos)
  BY Zenon DEF PutBytes, PutTo, n, Fits
<1>3. buf \in [0 .. Size -> Byte \cup {<<>>}]
  <2>1. ASSUME NEW i \in 0 .. Size PROVE K(i) \in Nat
    <3> DEFINE x == i + BufLen - s.buf_inp
    <3>1. x \in 0 .. 2 * BufLen - 1
      BY StreamFields, BufLenNat
    <3> HIDE DEF x
    <3>2. x % BufLen = IF x < BufLen THEN x ELSE x - BufLen
      BY <3>1, BufLenNat, ModOnce
    <3>3. x % BufLen \in Nat
      BY <3>1, <3>2, BufLenNat
    <3> QED
      BY <3>3, Zenon DEF x
  <2> HIDE DEF K
  <2>2. ASSUME NEW i \in 0 .. Size
        PROVE  (IF K(i) < n THEN data[K(i) + 1] ELSE s.buf[i]) \in Byte \cup {<<>>}
    <3>1. CASE K(i) < n
      <4>1. K(i) + 1 \in 1 .. Len(data)
        BY <1>1, <2>1, <3>1
      <4>2. data[K(i) + 1] \in Byte
        BY <4>1, ElementOfSeq
      <4> QED
        BY <3>1, <4>2
    <3>2. CASE ~(K(i) < n)
      BY <3>2, StreamFields
    <3> QED
      BY <3>1, <3>2
  <2> QED
    BY <2>2
<1>4. inp \in 0 .. Size
  <2>1. n \in 0 .. Size /\ s.buf_inp \in 0 .. Size
    BY <1>1, StreamFields
  <2> QED
    BY <2>1, MoveOn
<1>5. SubSeq(data, 1, n) \in Seq(Byte)
  BY <1>1, FirstOf
<1>6. log \in Seq(Byte)
  BY <1>5, StreamFields, ConcatProperties
<1>7. end \in BOOLEAN /\ p \in Nat
  BY <1>1, StreamFields
<1>8. \A i \in 0 .. Size : buf[i] = IF K(i) < n THEN data[K(i) + 1] ELSE s.buf[i]
  OBVIOUS
<1> HIDE DEF buf, inp, log, end, p
<1>9. /\ t \in StreamT /\ Fixed(s, t)
      /\ t.pos = p /\ t.log = log /\ t.buf_inp = inp /\ t.buf = buf
      /\ t.buf_out = s.buf_out /\ (t.eos_inp <=> end) /\ (t.eos_out <=> s.eos_out)
      /\ t.queue = s.queue /\ t.cl = s.cl
  BY <1>3, <1>4, <1>6, <1>7, PutRecord
<1> HIDE DEF t
<1> QED
  BY <1>2, <1>8, <1>9, Zenon DEF inp, log, end, p, PutOK, n

\* The ring after PutBytes: the old bytes are where they were and the new ones
\* follow them.
LEMMA PutRing ==
  ASSUME NEW s \in StreamT, NEW data \in Seq(Byte), NEW eos \in BOOLEAN, Ring(s),
         NEW n \in Nat, n <= Len(data), n <= Size - Used(s),
         NEW t, PutOK(s, data, eos, n, t)
  PROVE  Ring(t) /\ Used(t) = Used(s) + n
<1> DEFINE a == s.buf_inp
           o == s.buf_out
           u == Used(s)
           q == s.log
           add == SubSeq(data, 1, n)
<1>1. /\ a \in 0 .. Size /\ o \in 0 .. Size /\ u \in 0 .. Size /\ q \in Seq(Byte)
      /\ u = IF a < o THEN a + BufLen - o ELSE a - o
      /\ s.pos = Len(q) /\ Len(q) \in Nat /\ u <= Len(q) /\ n <= Size - u
  BY StreamFields, UsedFree, LenProperties DEF Ring
<1>2. /\ add \in Seq(Byte) /\ Len(add) = n /\ \A i \in 1 .. n : add[i] = data[i]
  BY FirstOf
<1>3. t \in StreamT /\ t.pos = s.pos + n /\ t.log = q \o add /\ t.buf_out = o
  BY DEF PutOK
<1>4. t.buf_inp = (a + n) % BufLen
  BY DEF PutOK
<1> DEFINE l == Len(q)
<1>11. \A i \in 1 .. u : s.buf[(o + i - 1) % BufLen] = q[l - u + i]
  BY <1>1 DEF Ring
<1>12. ASSUME NEW i \in 1 .. Size
       PROVE  /\ (o + i - 1) % BufLen \in 0 .. Size
              /\ (((o + i - 1) % BufLen) + BufLen - a) % BufLen
                   = IF i <= u THEN BufLen - u + i - 1 ELSE i - u - 1
  BY Slot
<1>13. \A i \in 0 .. Size :
         t.buf[i] = IF (i + BufLen - a) % BufLen < n
                    THEN data[((i + BufLen - a) % BufLen) + 1] ELSE s.buf[i]
  BY DEF PutOK
<1> HIDE DEF a, o, u, q, add
<1>5. \A i \in 1 .. l + n : (q \o add)[i] = IF i <= l THEN q[i] ELSE add[i - l]
  <2>1. \A i \in 1 .. Len(q) + Len(add) :
          (q \o add)[i] = IF i <= Len(q) THEN q[i] ELSE add[i - Len(q)]
    BY <1>1, <1>2, ConcatProperties
  <2> QED
    BY <1>1, <1>2, <2>1
<1>6. Len(q \o add) = l + n
  BY <1>1, <1>2, ConcatProperties
<1>14. l \in Nat /\ s.pos = l /\ u <= l
  BY <1>1
<1> HIDE DEF l
<1>7. Used(t) = u + n
  <2> DEFINE b == t.buf_inp
  <2>1. b = IF a + n < BufLen THEN a + n ELSE a + n - BufLen
    <3>1. n \in 0 .. Size
      BY <1>1, BufLenNat
    <3> QED
      BY <1>1, <1>4, <3>1, MoveOn
  <2>2. Used(t) = IF b < o THEN b + BufLen - o ELSE b - o
    BY <1>3, UsedFree
  <2> HIDE DEF b
  <2> QED
    BY <1>1, <2>1, <2>2, BufLenNat
<1>8. ASSUME NEW i \in 1 .. u + n
      PROVE  t.buf[(o + i - 1) % BufLen] = t.log[t.pos - (u + n) + i]
  <2> DEFINE x == (o + i - 1) % BufLen
             k == (x + BufLen - a) % BufLen
  <2>1. i \in 1 .. Size
    BY <1>1, BufLenNat
  <2>2. x \in 0 .. Size /\ k = IF i <= u THEN BufLen - u + i - 1 ELSE i - u - 1
    BY <2>1, <1>12
  <2>3. t.buf[x] = IF k < n THEN data[k + 1] ELSE s.buf[x]
    BY <2>2, <1>13
  <2> HIDE DEF x, k
  <2> DEFINE j == l - u + i
  <2>4. t.pos - (u + n) + i = j
    BY SMTT(40), <1>1, <1>3, <1>14
  <2>5. CASE i <= u
    <3>1. k >= n
      BY <1>1, <2>1, <2>2, <2>5, BufLenNat
    <3>2. t.buf[x] = s.buf[x]
      BY <2>2, <2>3, <2>5, <3>1, <1>1, BufLenNat
    <3>3. s.buf[x] = q[j]
      <4>1. i \in 1 .. u
        BY <1>1, <2>1, <2>5
      <4> QED
        BY <4>1, <1>11 DEF x
    <3>4. j \in 1 .. l + n /\ j <= l
      BY SMTT(40), <1>1, <1>14, <2>1, <2>5
    <3> HIDE DEF j
    <3>5. t.log[j] = q[j]
      BY <1>3, <1>5, <3>4
    <3>6. t.buf[x] = t.log[t.pos - (u + n) + i]
      BY <2>4, <3>2, <3>3, <3>5
    <3> QED
      BY <3>6 DEF x
  <2>6. CASE ~(i <= u)
    <3>1. k = i - u - 1 /\ k < n /\ k + 1 = i - u /\ i - u \in 1 .. n
      BY <1>1, <2>1, <2>2, <2>6, BufLenNat
    <3>2. t.buf[x] = data[i - u]
      BY <2>3, <3>1
    <3>7. u \in Nat /\ i \in Nat /\ i > u /\ i <= u + n
      BY <1>1, <2>1, <2>6
    <3>3. j \in 1 .. l + n /\ ~(j <= l) /\ j - l = i - u
      BY <1>14, <3>7
    <3> HIDE DEF j
    <3>4. t.log[j] = add[j - l]
      BY <1>3, <1>5, <3>3
    <3>5. add[i - u] = data[i - u]
      BY <1>2, <3>1
    <3>6. t.buf[x] = t.log[t.pos - (u + n) + i]
      BY <2>4, <3>2, <3>3, <3>4, <3>5
    <3> QED
      BY <3>6 DEF x
  <2> QED
    BY <2>5, <2>6
<1>9. t.pos = Len(t.log) /\ Used(t) <= t.pos
  BY <1>1, <1>3, <1>6, <1>7, <1>14
<1>10. Ring(t)
  BY <1>3, <1>7, <1>8, <1>9 DEF Ring
<1> QED
  BY <1>7, <1>10 DEF u

-----------------------------------------------------------------------------
(* Bytes that leave the ring, and notices to the owner.                    *)

\* The place of a byte does not depend on the place from which it is counted.
LEMMA SlotShift ==
  ASSUME NEW o \in 0 .. Size, NEW n \in Nat, NEW i \in 1 .. Size, n + i <= Size
  PROVE  (((o + n) % BufLen) + i - 1) % BufLen = (o + (n + i) - 1) % BufLen
<1> DEFINE b == BufLen
           p == (o + n) % b
           x == p + i - 1
           y == o + (n + i) - 1
<1>1. b \in Nat \ {0} /\ o \in 0 .. b - 1 /\ n \in 0 .. b - 1 /\ i \in 1 .. b - 1 /\ n + i <= b - 1
  BY BufLenNat
<1> HIDE DEF b
<1>2. p = IF o + n < b THEN o + n ELSE o + n - b
  BY <1>1
<1> HIDE DEF p
<1>3. x \in 0 .. 2 * b - 1 /\ y \in 0 .. 2 * b - 1
  BY <1>1, <1>2
<1>4. y = IF o + n < b THEN x ELSE x + b
  BY <1>1, <1>2
<1>5. o + n < b \/ x < b
  BY <1>1, <1>2
<1> HIDE DEF x, y
<1>6. /\ x % b = IF x < b THEN x ELSE x - b
      /\ y % b = IF y < b THEN y ELSE y - b
  BY <1>1, <1>3, ModOnce
<1>7. x % b = y % b
  BY <1>1, <1>3, <1>4, <1>5, <1>6
<1> QED
  BY <1>7 DEF x, y, p, b

\* Everything but the reading end of the ring, the clients and the events.
BytesSame(s, t) ==
  /\ t.pos = s.pos /\ t.log = s.log /\ t.buf = s.buf /\ t.buf_inp = s.buf_inp
  /\ (t.eos_inp <=> s.eos_inp) /\ (t.eos_out <=> s.eos_out)

\* Events that are not the last one.
Notice == {"data", "space"}
NoticesOnly(s, t) == s.queue \in Seq(Notice) => t.queue \in Seq(Notice)

\* The ring after its first n bytes were given up.
LEMMA DropRing ==
  ASSUME NEW s \in StreamT, NEW t \in StreamT, Ring(s), BytesSame(s, t),
         NEW n \in Nat, n <= Used(s), t.buf_out = (s.buf_out + n) % BufLen
  PROVE  Ring(t) /\ Used(t) = Used(s) - n
<1> DEFINE a == s.buf_inp
           o == s.buf_out
           u == Used(s)
           p == t.buf_out
           v == Used(t)
<1>1. /\ a \in 0 .. Size /\ o \in 0 .. Size /\ u \in 0 .. Size
      /\ u = IF a < o THEN a + BufLen - o ELSE a - o
      /\ t.buf_inp = a /\ n <= u
  BY StreamFields, UsedFree DEF BytesSame
<1>2. p = (o + n) % BufLen /\ v = IF a < p THEN a + BufLen - p ELSE a - p
  BY <1>1, UsedFree
<1>3. \A i \in 1 .. u : s.buf[(o + i - 1) % BufLen] = s.log[s.pos - u + i]
  BY DEF Ring
<1>4. s.pos = Len(s.log) /\ u <= s.pos /\ s.pos \in Nat
  BY StreamFields DEF Ring
<1> HIDE DEF a, o, u, p, v
<1>5. n \in 0 .. Size
  BY <1>1, BufLenNat
<1>6. p \in 0 .. Size /\ p = IF o + n < BufLen THEN o + n ELSE o + n - BufLen
  BY <1>1, <1>2, <1>5, MoveOn
<1>7. v = u - n
  BY <1>1, <1>2, <1>6, BufLenNat
<1>8. ASSUME NEW i \in 1 .. v PROVE t.buf[(p + i - 1) % BufLen] = t.log[t.pos - v + i]
  <2>1. i \in 1 .. Size /\ n + i <= Size /\ n + i \in 1 .. u /\ i \in Int
    BY <1>1, <1>7, BufLenNat
  <2>2. (p + i - 1) % BufLen = (o + (n + i) - 1) % BufLen
    BY <1>1, <1>2, <2>1, SlotShift
  <2>3. s.buf[(o + (n + i) - 1) % BufLen] = s.log[s.pos - u + (n + i)]
    <3> DEFINE m == n + i
    <3>1. m \in 1 .. u
      BY <2>1
    <3> HIDE DEF m
    <3>2. s.buf[(o + m - 1) % BufLen] = s.log[s.pos - u + m]
      BY <1>3, <3>1
    <3> QED
      BY <3>2 DEF m
  <2>4. s.pos - u + (n + i) = t.pos - v + i
    <3> DEFINE x == s.pos
               y == t.pos
    <3>1. y = x /\ u \in Nat /\ x \in Nat /\ i \in Int
      BY <1>1, <1>4, <2>1 DEF BytesSame
    <3> HIDE DEF x, y
    <3>2. x - u + (n + i) = y - v + i
      BY <1>7, <3>1
    <3> QED
      BY <3>2 DEF x, y
  <2>5. t.buf = s.buf /\ t.log = s.log
    BY DEF BytesSame
  <2> QED
    BY <2>2, <2>3, <2>4, <2>5
<1>9. t.pos = Len(t.log) /\ v <= t.pos
  <2>1. t.pos = s.pos /\ t.log = s.log
    BY DEF BytesSame
  <2> QED
    BY <1>1, <1>4, <1>7, <2>1
<1>10. Ring(t)
  BY <1>8, <1>9 DEF Ring, v, p
<1> QED
  BY <1>7, <1>10 DEF u, v

\* PostData and PostSpace change nothing but the events.
PostOK(s, t) ==
  /\ t \in StreamT /\ Fixed(s, t) /\ BytesSame(s, t) /\ t.buf_out = s.buf_out
  /\ t.cl = s.cl /\ NoticesOnly(s, t)

\* Posting a notice changes nothing but the notices.
LEMMA PostFacts ==
  ASSUME NEW s \in StreamT
  PROVE  PostOK(s, PostData(s)) /\ PostOK(s, PostSpace(s))
<1> DEFINE d == Append(s.queue, "data")
           e == Append(s.queue, "space")
<1>1. /\ d \in Seq({"data", "space", "delete"}) /\ e \in Seq({"data", "space", "delete"})
      /\ s.queue \in Seq(Notice) => d \in Seq(Notice) /\ e \in Seq(Notice)
  BY StreamFields, AppendProperties DEF Notice
<1> HIDE DEF d, e
<1> DEFINE x == [s EXCEPT !.queue = d, !.data_posted = TRUE]
           y == [s EXCEPT !.queue = e, !.space_posted = TRUE]
<1>2. /\ x \in StreamT /\ Fixed(s, x) /\ x.queue = d /\ x.buf_out = s.buf_out /\ x.cl = s.cl
  BY <1>1 DEF StreamT, Fixed
<1>3. BytesSame(s, x) /\ BytesSame(s, y)
  BY DEF StreamT, BytesSame
<1>4. /\ y \in StreamT /\ Fixed(s, y) /\ y.queue = e /\ y.buf_out = s.buf_out /\ y.cl = s.cl
  BY <1>1 DEF StreamT, Fixed
<1>5. PostOK(s, s)
  BY DEF PostOK, Fixed, BytesSame, NoticesOnly
<1>6. PostOK(s, x) /\ PostOK(s, y)
  BY <1>1, <1>2, <1>3, <1>4 DEF PostOK, NoticesOnly
<1>7. PostData(s) = (IF s.data_posted THEN s ELSE x) /\ PostSpace(s) = IF s.space_posted THEN s ELSE y
  BY Zenon DEF PostData, PostSpace, d, e
<1> HIDE DEF x, y
<1> QED
  BY <1>5, <1>6, <1>7

\* Giving up the first n bytes of the ring.
Dropped(s, n) == PostSpace([s EXCEPT !.buf_out = (@ + n) % BufLen])

DropOK(s, n, t) ==
  /\ t \in StreamT /\ Fixed(s, t) /\ BytesSame(s, t) /\ t.cl = s.cl /\ NoticesOnly(s, t)
  /\ Ring(t) /\ Used(t) = Used(s) - n

\* Dropping the oldest bytes keeps the ring exact.
LEMMA DropFacts ==
  ASSUME NEW s \in StreamT, Ring(s), NEW n \in Nat, n <= Used(s)
  PROVE  DropOK(s, n, Dropped(s, n))
<1> DEFINE o == (s.buf_out + n) % BufLen
           x == [s EXCEPT !.buf_out = o]
           t == PostSpace(x)
<1>1. Dropped(s, n) = t
  BY Zenon DEF Dropped
<1>2. o \in 0 .. Size
  <2>1. Used(s) \in 0 .. Size /\ s.buf_out \in 0 .. Size
    BY UsedFree, StreamFields
  <2>2. n \in 0 .. Size
    BY <2>1, BufLenNat
  <2> QED
    BY <2>1, <2>2, MoveOn
<1>8. o = (s.buf_out + n) % BufLen
  OBVIOUS
<1> HIDE DEF o
<1>3. x \in StreamT /\ x.buf_out = o /\ x.queue = s.queue /\ x.cl = s.cl /\ Fixed(s, x)
  BY <1>2 DEF StreamT, Fixed
<1>4. BytesSame(s, x)
  BY DEF StreamT, BytesSame
<1> HIDE DEF x
<1>5. PostOK(x, t)
  BY <1>3, PostFacts
<1> HIDE DEF t
<1>6. t \in StreamT /\ Fixed(s, t) /\ BytesSame(s, t) /\ t.cl = s.cl /\ NoticesOnly(s, t)
  BY <1>3, <1>4, <1>5 DEF PostOK, Fixed, BytesSame, NoticesOnly
<1>7. t.buf_out = (s.buf_out + n) % BufLen
  BY <1>3, <1>5, <1>8 DEF PostOK
<1>9. Ring(t) /\ Used(t) = Used(s) - n
  BY <1>6, <1>7, DropRing
<1> QED
  BY <1>1, <1>6, <1>9 DEF DropOK

-----------------------------------------------------------------------------
(* Bytes for the readers.                                                  *)

\* The handlers of a "READ" stream: every client moves on and keeps the rest.
Onward(k, m) ==
  /\ m \in ClientT
  /\ m.start = k.start /\ m.writes = k.writes /\ m.acked = k.acked
  /\ (k.told => m.told) /\ k.pos <= m.pos

ReadStep(s, t) ==
  /\ t \in StreamT /\ Fixed(s, t) /\ t.pos = s.pos /\ t.log = s.log
  /\ (t.eos_inp <=> s.eos_inp) /\ (t.eos_out <=> s.eos_out) /\ NoticesOnly(s, t)
  /\ \A c \in Channels : Onward(s.cl[c], t.cl[c])

\* Every client is a reader that has not been overtaken.
Readable(s) == s \in StreamT /\ Ring(s) /\ \A c \in Clients(s) : ReaderOK(s, s.cl[c])

\* The clients are channels, each in its place of the list.
LEMMA ClientsOf ==
  ASSUME NEW s \in StreamT
  PROVE  Clients(s) \subseteq Channels /\ \A i \in 1 .. Len(s.clients) : s.clients[i] \in Clients(s)
<1>1. s.clients \in Seq(Channels)
  BY StreamFields
<1> QED
  BY <1>1, LenProperties, ElementOfSeq DEF Clients, Range

\* advance_stream_buffer drops only bytes that every reader has.
LEMMA AdvanceFacts ==
  ASSUME NEW s, Readable(s)
  PROVE  LET t == AdvanceStreamBuffer(s)
         IN  ReadStep(s, t) /\ Readable(t) /\ t.cl = s.cl
<1> DEFINE u == Used(s)
           p == s.pos
           places == {s.cl[c].pos : c \in Clients(s)}
           read == IF places = {} THEN u ELSE Max({0, Min(places) - (p - u)})
           t == IF read = 0 THEN s ELSE Dropped(s, read)
<1>0. s \in StreamT /\ Ring(s) /\ \A c \in Clients(s) : ReaderOK(s, s.cl[c])
  BY DEF Readable
<1>1. AdvanceStreamBuffer(s) = t
  BY Zenon DEF AdvanceStreamBuffer, Dropped
<1>2. u \in Nat /\ p \in Nat /\ u <= p
  BY <1>0, StreamFields, UsedFree DEF Ring
<1>3. ASSUME NEW c \in Clients(s)
      PROVE  s.cl[c] \in ClientT /\ s.cl[c].pos \in Nat /\ p - u <= s.cl[c].pos /\ s.cl[c].pos <= p
  <2>1. s.cl[c] \in ClientT
    BY <1>0, ClientsOf, StreamFields
  <2> QED
    BY <1>0, <2>1, ClientFields DEF ReaderOK
<1> HIDE DEF u, p
<1>4. read \in Nat /\ read <= u /\ \A c \in Clients(s) : read <= s.cl[c].pos - (p - u)
  <2>1. CASE places = {}
    BY <1>2, <2>1
  <2>2. CASE places # {}
    <3> DEFINE m == Min(places)
    <3>1. m \in places /\ \A y \in places : m <= y
      <4>1. places \subseteq Nat
        BY <1>3
      <4> HIDE DEF places
      <4> QED
        BY <2>2, <4>1, MinNat
    <3>2. m \in Nat /\ p - u <= m /\ m <= p /\ \A c \in Clients(s) : m <= s.cl[c].pos
      BY <1>3, <3>1
    <3>3. read = Max({0, m - (p - u)})
      BY <2>2
    <3> HIDE DEF m, read
    <3>4. Max({0, m - (p - u)}) = m - (p - u)
      <4> DEFINE d == m - (p - u)
      <4>1. d \in Int /\ 0 \in Int /\ d >= 0
        BY <1>2, <3>2
      <4> HIDE DEF d
      <4>2. Max({0, d}) = d
        BY <4>1, OfTwo
      <4> QED
        BY <4>2 DEF d
    <3>5. read = m - (p - u)
      BY <3>3, <3>4
    <3> QED
      BY <1>2, <1>3, <3>2, <3>5
  <2> QED
    BY <2>1, <2>2
<1> HIDE DEF read
<1>5. DropOK(s, IF read = 0 THEN 0 ELSE read, t)
  <2>1. CASE read = 0
    <3>1. t = s
      BY <2>1
    <3>2. DropOK(s, 0, s)
      <4>1. Used(s) = Used(s) - 0
        BY <1>2 DEF u
      <4> QED
        BY <1>0, <4>1 DEF DropOK, Fixed, BytesSame, NoticesOnly
    <3> QED
      BY <2>1, <3>1, <3>2
  <2>2. CASE read # 0
    <3>1. t = Dropped(s, read) /\ read <= Used(s)
      BY <1>4, <2>2 DEF u
    <3> HIDE DEF t
    <3> QED
      BY <1>0, <1>4, <2>2, <3>1, DropFacts
  <2> QED
    BY <2>1, <2>2
<1> HIDE DEF t
<1>6. /\ t \in StreamT /\ Fixed(s, t) /\ BytesSame(s, t) /\ t.cl = s.cl /\ NoticesOnly(s, t)
      /\ Ring(t) /\ Used(t) = u - read
  BY <1>5, <1>4 DEF DropOK, u
<1>7. ReadStep(s, t)
  <2>1. ASSUME NEW c \in Channels PROVE Onward(s.cl[c], t.cl[c])
    <3>1. s.cl[c] \in ClientT
      BY <1>0, StreamFields
    <3> QED
      BY <1>6, <3>1, ClientFields DEF Onward
  <2> QED
    BY <1>6, <2>1 DEF ReadStep, BytesSame
<1>8. ASSUME NEW c \in Clients(t) PROVE ReaderOK(t, t.cl[c])
  <2>1. c \in Clients(s)
    BY <1>6 DEF Clients, Fixed
  <2>2. t.cl[c] = s.cl[c] /\ t.pos = p /\ t.log = s.log /\ (t.eos_inp <=> s.eos_inp)
    BY <1>6 DEF BytesSame, p
  <2>3. t.pos - Used(t) <= s.cl[c].pos
    <3> DEFINE y == s.cl[c].pos
    <3>1. y \in Nat /\ read <= y - (p - u) /\ p - (u - read) = t.pos - Used(t)
      BY <1>3, <1>4, <1>6, <2>1, <2>2
    <3> HIDE DEF y
    <3>2. p - (u - read) <= y
      BY <1>2, <1>4, <3>1
    <3> QED
      BY <3>1, <3>2 DEF y
  <2> QED
    BY <1>0, <2>1, <2>2, <2>3 DEF ReaderOK, p
<1> QED
  BY <1>1, <1>6, <1>7, <1>8 DEF Readable

\* send_read_reply as a change of the records.
Reply(k, p, got, told) == [k EXCEPT !.pos = p, !.got = got, !.told = told]
WithClient(s, c, k) == [s EXCEPT !.cl = [@ EXCEPT ![c] = k]]

ReplyOK(k, p, got, told, m) ==
  /\ m \in ClientT /\ m.pos = p /\ m.got = got /\ (m.told <=> told)
  /\ m.start = k.start /\ m.reads = k.reads /\ m.writes = k.writes
  /\ m.acked = k.acked

\* Its fields.
LEMMA ReplyFields ==
  ASSUME NEW k \in ClientT, NEW p \in Nat, NEW got \in Seq(Byte), NEW told \in BOOLEAN
  PROVE  ReplyOK(k, p, got, told, Reply(k, p, got, told))
BY DEF ClientT, Reply, ReplyOK

\* A stream of which one client has changed.
LEMMA WithClientFields ==
  ASSUME NEW s \in StreamT, NEW c \in Channels, NEW k \in ClientT
  PROVE  LET t == WithClient(s, c, k)
         IN  /\ t \in StreamT /\ Fixed(s, t) /\ BytesSame(s, t) /\ t.buf_out = s.buf_out
             /\ t.queue = s.queue /\ t.cl[c] = k
             /\ \A d \in Channels \ {c} : t.cl[d] = s.cl[d]
             /\ Used(t) = Used(s) /\ (Ring(s) => Ring(t))
<1> DEFINE f == [s.cl EXCEPT ![c] = k]
           t == [s EXCEPT !.cl = f]
<1>1. WithClient(s, c, k) = t
  BY Zenon DEF WithClient
<1>2. f \in [Channels -> ClientT] /\ f[c] = k /\ \A d \in Channels \ {c} : f[d] = s.cl[d]
  BY StreamFields
<1> HIDE DEF f
<1>3. t \in StreamT /\ Fixed(s, t) /\ t.buf_out = s.buf_out /\ t.queue = s.queue /\ t.cl = f
  BY <1>2 DEF StreamT, Fixed
<1>4. BytesSame(s, t)
  BY DEF StreamT, BytesSame
<1> HIDE DEF t
<1>5. Used(t) = Used(s)
  BY <1>3, <1>4 DEF Used, BytesSame
<1>6. ASSUME Ring(s) PROVE Ring(t)
  BY <1>3, <1>4, <1>5, <1>6 DEF Ring, BytesSame
<1> QED
  BY <1>1, <1>2, <1>3, <1>4, <1>5, <1>6

\* A part of a sequence, and what follows it.
Follows(q, a, p, n, data) == SubSeq(q, a + 1, p) \o data = SubSeq(q, a + 1, p + n)

\* What is given to a reader follows what it has.
LEMMA PartMore ==
  ASSUME NEW S, NEW q \in Seq(S), NEW a \in Nat, NEW p \in Nat, NEW n \in Nat,
         a <= p, p + n <= Len(q), NEW data \in Seq(S), Len(data) = n,
         \A i \in 1 .. n : data[i] = q[p + i]
  PROVE  Follows(q, a, p, n, data)
<1> DEFINE x == SubSeq(q, a + 1, p)
           y == SubSeq(q, a + 1, p + n)
           z == x \o data
<1>1. Len(q) \in Nat /\ p <= Len(q) /\ p + n \in Nat /\ a <= p + n
  BY LenProperties
<1>2. x \in Seq(S) /\ Len(x) = p - a /\ \A i \in 1 .. p - a : x[i] = q[a + i]
  BY <1>1, Part
<1>3. y \in Seq(S) /\ Len(y) = p + n - a /\ \A i \in 1 .. p + n - a : y[i] = q[a + i]
  BY <1>1, Part
<1> HIDE DEF x, y
<1>4. /\ z \in Seq(S) /\ Len(z) = Len(x) + Len(data)
      /\ \A i \in 1 .. Len(x) + Len(data) : z[i] = IF i <= Len(x) THEN x[i] ELSE data[i - Len(x)]
  BY <1>2, ConcatProperties
<1> HIDE DEF z
<1>5. Len(z) = Len(y)
  BY <1>2, <1>3, <1>4
<1>6. ASSUME NEW i \in 1 .. Len(z) PROVE z[i] = y[i]
  <2>1. i \in 1 .. p + n - a /\ z[i] = IF i <= p - a THEN x[i] ELSE data[i - (p - a)]
    BY <1>2, <1>3, <1>4, <1>5
  <2>2. y[i] = q[a + i]
    BY <1>3, <2>1
  <2>3. CASE i <= p - a
    BY <1>2, <2>1, <2>2, <2>3
  <2>4. CASE ~(i <= p - a)
    <3>1. i - (p - a) \in 1 .. n /\ p + (i - (p - a)) = a + i
      BY <2>1, <2>4
    <3>2. data[i - (p - a)] = q[a + i]
      BY <3>1
    <3> QED
      BY <2>1, <2>2, <2>4, <3>2
  <2> QED
    BY <2>3, <2>4
<1>7. z = y
  BY <1>3, <1>4, <1>5, <1>6, SeqEqual
<1> QED
  BY <1>7 DEF x, y, z, Follows

\* The bytes from a place of the log that is still in the ring.
LEMMA RingAt ==
  ASSUME NEW s \in StreamT, Ring(s), NEW b \in Nat, b <= Used(s), NEW i \in 1 .. b
  PROVE  /\ s.buf[(((s.buf_inp + BufLen - b) % BufLen) + i - 1) % BufLen] = s.log[s.pos - b + i]
         /\ s.pos - b + i \in 1 .. Len(s.log)
<1> DEFINE a == s.buf_inp
           o == s.buf_out
           u == Used(s)
           p == s.pos
           x == a + BufLen - b
           n == u - b
           j == n + i
<1>1. /\ a \in 0 .. Size /\ o \in 0 .. Size /\ u \in 0 .. Size
      /\ u = IF a < o THEN a + BufLen - o ELSE a - o
      /\ p \in Nat /\ u <= p /\ p = Len(s.log) /\ b <= u
  BY StreamFields, UsedFree DEF Ring
<1>2. \A k \in 1 .. u : s.buf[(o + k - 1) % BufLen] = s.log[p - u + k]
  BY DEF Ring
<1> HIDE DEF a, o, u, p
<1>3. x \in 0 .. 2 * BufLen - 1 /\ n \in Nat /\ n \in 0 .. Size
  BY <1>1, BufLenNat
<1>8. u \in Nat /\ i \in Int /\ i >= 1 /\ i <= b
  BY <1>1
<1>4. j \in 1 .. u /\ i \in 1 .. Size /\ n + i <= Size
  BY <1>1, <1>8, BufLenNat
<1>10. p \in Nat /\ u \in Nat /\ b <= u /\ u <= p /\ i \in Int /\ i >= 1 /\ i <= b
  BY <1>1, <1>8
<1>9. p - u + j = p - b + i /\ p - b + i \in 1 .. p
  BY <1>10
<1>5. x % BufLen = (o + n) % BufLen
  <2>1. (o + n) % BufLen = IF o + n < BufLen THEN o + n ELSE o + n - BufLen
    BY <1>1, <1>3, MoveOn
  <2>2. x = IF a < o THEN o + n ELSE o + n + BufLen
    BY <1>1, BufLenNat
  <2>4. o + n >= 0 /\ (a < o => o + n < 2 * BufLen) /\ (~(a < o) => o + n < BufLen)
    BY <1>1, BufLenNat
  <2> HIDE DEF x, n
  <2>3. x % BufLen = IF x < BufLen THEN x ELSE x - BufLen
    BY <1>3, BufLenNat, ModOnce
  <2> QED
    BY <1>1, <1>3, <2>1, <2>2, <2>3, <2>4, BufLenNat
<1> HIDE DEF x, n
<1>6. (((o + n) % BufLen) + i - 1) % BufLen = (o + (n + i) - 1) % BufLen
  BY <1>1, <1>3, <1>4, SlotShift
<1>7. s.buf[(o + (n + i) - 1) % BufLen] = s.log[p - u + (n + i)]
  BY <1>2, <1>4
<1> QED
  BY <1>1, <1>5, <1>6, <1>7, <1>9 DEF x, a, p

\* How much a reader at x is given when the stream is at p.
ReplyOf(u, p, x, size) ==
  LET lost == Max({0, p - x - u})
      avail == Min({u, p - x})
      n == Min({avail, size})
  IN  /\ lost = 0 /\ avail = p - x /\ avail \in Nat /\ avail <= u
      /\ n \in Nat /\ n <= avail /\ x + lost + n = x + n /\ x + n \in Nat
      /\ x + n <= p /\ p - u <= x + n /\ p - avail = x

\* The arithmetic of send_read_reply.
LEMMA ReplySizes ==
  ASSUME NEW u \in Nat, NEW p \in Nat, NEW x \in Nat, NEW size \in Nat,
         u <= p, x <= p, p - u <= x
  PROVE  ReplyOf(u, p, x, size)
<1> DEFINE b == p - x
           d == b - u
           lost == Max({0, d})
           avail == Min({u, b})
           n == Min({avail, size})
<1>1. b \in Int /\ b >= 0 /\ b <= u /\ d \in Int /\ d <= 0 /\ u \in Int /\ 0 \in Int
  OBVIOUS
<1>2. p - b = x /\ x + b = p
  OBVIOUS
<1> HIDE DEF b, d
<1>3. lost = 0
  BY <1>1, OfTwo
<1>4. avail = b
  <2>1. avail = IF u < b THEN u ELSE b
    BY <1>1, OfTwo
  <2> HIDE DEF avail
  <2> QED
    BY <1>1, <2>1
<1> HIDE DEF lost, avail
<1>5. avail \in Int /\ size \in Int
  BY <1>1, <1>4
<1>6. n = IF avail < size THEN avail ELSE size
  BY <1>5, OfTwo
<1> HIDE DEF n
<1>7. n \in Nat /\ n <= avail
  BY <1>1, <1>4, <1>6
<1>8. /\ lost = 0 /\ avail = b /\ avail \in Nat /\ avail <= u
      /\ n \in Nat /\ n <= avail /\ x + lost + n = x + n /\ x + n \in Nat
      /\ x + n <= p /\ p - u <= x + n /\ p - avail = x
  BY <1>1, <1>2, <1>3, <1>4, <1>7
<1> QED
  BY <1>8, Zenon DEF n, avail, lost, d, b, ReplyOf

\* A reader is given the next bytes of the log.
LEMMA ReplyFacts ==
  ASSUME NEW s, Readable(s), NEW c \in Clients(s), NEW size \in Nat
  PROVE  LET t == SendReadReply(s, c, size)
         IN  /\ ReadStep(s, t) /\ Readable(t) /\ t.cl[c].reads = s.cl[c].reads
             /\ \A d \in Channels \ {c} : t.cl[d] = s.cl[d]
<1> DEFINE k == s.cl[c]
           x == k.pos
           a == k.start
           g == k.got
           w == s.log
           u == Used(s)
           p == s.pos
           lost == Max({0, p - x - u})
           avail == Min({u, p - x})
           n == Min({avail, size})
           first == (s.buf_inp + BufLen - avail) % BufLen
           data == [i \in 1 .. n |-> s.buf[(first + i - 1) % BufLen]]
           to == x + lost + n
           told == k.told \/ (s.eos_inp /\ to = p)
           got == g \o data
           m == Reply(k, to, got, told)
           t == WithClient(s, c, m)
<1>0. s \in StreamT /\ Ring(s) /\ c \in Channels /\ k \in ClientT /\ ReaderOK(s, k)
  BY ClientsOf, StreamFields DEF Readable
<1>1. SendReadReply(s, c, size) = t
  BY ZenonT(60) DEF SendReadReply, WithClient, Reply
<1>2. /\ p \in Nat /\ u \in Nat /\ u <= p /\ p = Len(w) /\ w \in Seq(Byte)
      /\ x \in Nat /\ a \in Nat /\ g \in Seq(Byte) /\ k.told \in BOOLEAN
      /\ s.eos_inp \in BOOLEAN
  BY <1>0, StreamFields, ClientFields, UsedFree DEF Ring
<1>3. /\ a + Len(g) = x /\ x <= p /\ p - u <= x
      /\ g = SubSeq(w, a + 1, x) /\ (k.told => s.eos_inp /\ x = p)
  BY <1>0 DEF ReaderOK
<1>20. \A i \in 1 .. n : data[i] = s.buf[(first + i - 1) % BufLen]
  OBVIOUS
<1>21. u = Used(s) /\ p = s.pos /\ w = s.log /\ k = s.cl[c]
  OBVIOUS
<1> HIDE DEF k, x, a, g, w, u, p, t
<1>4. /\ lost = 0 /\ avail = p - x /\ avail \in Nat /\ avail <= u
      /\ n \in Nat /\ n <= avail /\ x + lost + n = x + n /\ x + n \in Nat
      /\ x + n <= p /\ p - u <= x + n /\ p - avail = x
  <2>1. ReplyOf(u, p, x, size)
    BY <1>2, <1>3, ReplySizes
  <2> QED
    BY <2>1, Zenon DEF ReplyOf
<1>6. to \in Nat /\ to = x + n /\ to <= p /\ x <= to /\ p - u <= to
  BY <1>2, <1>4
<1>22. first = (s.buf_inp + BufLen - avail) % BufLen
  OBVIOUS
<1>23. data = [i \in 1 .. n |-> s.buf[(first + i - 1) % BufLen]]
  OBVIOUS
<1> HIDE DEF lost, avail, n, first, data
<1>7. ASSUME NEW i \in 1 .. n PROVE data[i] = w[x + i] /\ w[x + i] \in Byte
  <2>1. i \in 1 .. avail
    BY <1>4
  <2>2. data[i] = s.buf[(((s.buf_inp + BufLen - avail) % BufLen) + i - 1) % BufLen]
    BY <1>20, <1>22
  <2>3. /\ s.buf[(((s.buf_inp + BufLen - avail) % BufLen) + i - 1) % BufLen] = w[p - avail + i]
        /\ p - avail + i \in 1 .. Len(w)
    BY <1>0, <1>4, <1>21, <2>1, RingAt
  <2>4. p - avail + i = x + i
    BY <1>4
  <2>6. w[p - avail + i] \in Byte
    BY <1>2, <2>3, ElementOfSeq
  <2> QED
    BY <2>2, <2>3, <2>4, <2>6
<1>8. data \in Seq(Byte) /\ Len(data) = n
  <2>1. \A i \in 1 .. n : s.buf[(first + i - 1) % BufLen] \in Byte
    BY <1>7, <1>20
  <2>2. data \in [1 .. n -> Byte] /\ DOMAIN data = 1 .. n
    BY <1>23, <2>1
  <2>3. data \in Seq(Byte)
    BY <1>4, <2>2, SeqDef
  <2>4. Len(data) \in Nat /\ 1 .. Len(data) = 1 .. n
    BY <2>2, <2>3, LenProperties
  <2> QED
    BY <1>4, <2>3, <2>4
<1>9. got = SubSeq(w, a + 1, to) /\ got \in Seq(Byte) /\ a + Len(got) = to
  <2>1. Len(g) \in Nat
    BY <1>2, LenProperties
  <2>2. a <= x /\ x + n <= Len(w)
    BY <1>2, <1>3, <1>4, <2>1
  <2>3. \A i \in 1 .. n : data[i] = w[x + i]
    BY <1>7
  <2>4. SubSeq(w, a + 1, x) \o data = SubSeq(w, a + 1, x + n)
    <3>1. Follows(w, a, x, n, data)
      BY <1>2, <1>4, <1>8, <2>2, <2>3, PartMore
    <3> QED
      BY <3>1, Zenon DEF Follows
  <2>5. got \in Seq(Byte) /\ Len(got) = Len(g) + Len(data)
    BY <1>8, <1>2, ConcatProperties
  <2>6. got = SubSeq(w, a + 1, to)
    BY <1>3, <1>6, <2>4
  <2> HIDE DEF got, to
  <2>7. a + Len(got) = to
    BY <1>2, <1>3, <1>4, <1>6, <1>8, <2>1, <2>5
  <2> QED
    BY <2>5, <2>6, <2>7
<1> HIDE DEF to, got
<1>10. /\ told \in BOOLEAN /\ (k.told => told)
       /\ (told => s.eos_inp /\ to = p)
  <2>1. x = p => to = p
    BY <1>2, <1>6
  <2> HIDE DEF told
  <2>2. told <=> k.told \/ (s.eos_inp /\ to = p)
    BY DEF told
  <2>3. told \in BOOLEAN
    BY <1>2 DEF told
  <2> QED
    BY <1>2, <1>3, <2>1, <2>2, <2>3
<1> HIDE DEF told
<1>12. /\ m \in ClientT /\ m.pos = to /\ m.got = got /\ (m.told <=> told)
       /\ m.start = k.start /\ m.reads = k.reads /\ m.writes = k.writes /\ m.acked = k.acked
  <2>1. ReplyOK(k, to, got, told, m)
    BY <1>0, <1>6, <1>9, <1>10, ReplyFields
  <2> QED
    BY <2>1, Zenon DEF ReplyOK
<1> HIDE DEF m
<1>13. /\ t \in StreamT /\ Fixed(s, t) /\ BytesSame(s, t) /\ t.queue = s.queue /\ t.cl[c] = m
       /\ \A d \in Channels \ {c} : t.cl[d] = s.cl[d]
       /\ Used(t) = Used(s) /\ Ring(t)
  BY <1>0, <1>12, WithClientFields DEF t
<1>15. ReadStep(s, t)
  <2>1. ASSUME NEW d \in Channels PROVE Onward(s.cl[d], t.cl[d])
    <3>1. CASE d = c
      <4>1. Onward(k, m)
        BY <1>6, <1>12, <1>10 DEF Onward, x
      <4> QED
        BY <1>13, <1>21, <3>1, <4>1
    <3>2. CASE d # c
      <4>1. t.cl[d] = s.cl[d] /\ s.cl[d] \in ClientT
        BY <1>0, <1>13, <3>2, StreamFields
      <4> QED
        BY <4>1, ClientFields DEF Onward
    <3> QED
      BY <3>1, <3>2
  <2> QED
    BY <1>13, <2>1 DEF ReadStep, BytesSame, NoticesOnly
<1>16. ASSUME NEW d \in Clients(t) PROVE ReaderOK(t, t.cl[d])
  <2>1. d \in Clients(s) /\ d \in Channels
    BY <1>0, <1>13, ClientsOf DEF Clients, Fixed
  <2>2. t.pos = p /\ t.log = w /\ (t.eos_inp <=> s.eos_inp) /\ Used(t) = u
    BY <1>13, <1>21 DEF BytesSame
  <2>3. CASE d = c
    <3>2. /\ m.start + Len(m.got) = m.pos /\ m.pos <= p /\ p - u <= m.pos
          /\ m.got = SubSeq(w, m.start + 1, m.pos) /\ (m.told => s.eos_inp /\ m.pos = p)
      BY <1>6, <1>9, <1>10, <1>12 DEF a
    <3> QED
      BY <1>13, <2>2, <2>3, <3>2 DEF ReaderOK
  <2>4. CASE d # c
    <3>1. t.cl[d] = s.cl[d]
      BY <1>13, <2>1, <2>4
    <3>2. ReaderOK(s, s.cl[d])
      BY <2>1 DEF Readable
    <3> QED
      BY <1>21, <2>2, <3>1, <3>2 DEF ReaderOK
  <2> QED
    BY <2>3, <2>4
<1>17. t.cl[c].reads = s.cl[c].reads
  BY <1>12, <1>13, <1>21
<1> QED
  BY <1>1, <1>13, <1>15, <1>16, <1>17 DEF Readable

-----------------------------------------------------------------------------
(* The parked reads: what adds data answers those it can.                  *)

\* The eager forms are the plain ones.
LEMMA StrictIs == ASSUME NEW s, NEW c, NEW size
                  PROVE  ServeNext(c, s, size) = ServeRead(c, s, size) /\ ServeReads(s, c) = ServeAll(c, s)
BY Zenon DEF ServeNext, ServeReads, Strict

\* Doing nothing is such a step,
LEMMA ReadStepSelf ==
  ASSUME NEW s \in StreamT
  PROVE  ReadStep(s, s)
<1>1. ASSUME NEW c \in Channels PROVE Onward(s.cl[c], s.cl[c])
  <2>1. s.cl[c] \in ClientT
    BY StreamFields
  <2> QED
    BY <2>1, ClientFields DEF Onward
<1> QED
  BY <1>1 DEF ReadStep, Fixed, NoticesOnly

\* and two such steps are one.
LEMMA ReadStepTrans ==
  ASSUME NEW s \in StreamT, NEW t, NEW v, ReadStep(s, t), ReadStep(t, v)
  PROVE  ReadStep(s, v)
<1>1. ASSUME NEW c \in Channels PROVE Onward(s.cl[c], v.cl[c])
  <2>1. s.cl[c] \in ClientT /\ Onward(s.cl[c], t.cl[c]) /\ Onward(t.cl[c], v.cl[c])
    BY StreamFields DEF ReadStep
  <2> DEFINE k == s.cl[c]
             l == t.cl[c]
             m == v.cl[c]
  <2> HIDE DEF k, l, m
  <2>2. k \in ClientT /\ l \in ClientT /\ m \in ClientT /\ Onward(k, l) /\ Onward(l, m)
    BY <2>1 DEF Onward, k, l, m
  <2>3. k.pos \in Nat /\ l.pos \in Nat /\ m.pos \in Nat
    BY <2>2, ClientFields
  <2>4. Onward(k, m)
    BY <2>2, <2>3 DEF Onward
  <2> QED
    BY <2>4 DEF k, m
<1>2. /\ v \in StreamT /\ Fixed(s, v) /\ v.pos = s.pos /\ v.log = s.log
      /\ (v.eos_inp <=> s.eos_inp) /\ (v.eos_out <=> s.eos_out) /\ NoticesOnly(s, v)
  BY DEF ReadStep, Fixed, NoticesOnly
<1> QED
  BY <1>1, <1>2 DEF ReadStep

\* The reads that are left of client c.
LessReads(s, c, r) == [s EXCEPT !.cl[c].reads = r]

\* Unlinking answered reads leaves the readers where they are.
LEMMA LessReadsFacts ==
  ASSUME NEW s, Readable(s), NEW c \in Clients(s), NEW r \in Seq(Nat \ {0})
  PROVE  LET t == LessReads(s, c, r)
         IN  /\ ReadStep(s, t) /\ Readable(t) /\ t.cl[c].reads = r
             /\ \A d \in Channels \ {c} : t.cl[d] = s.cl[d]
<1> DEFINE k == s.cl[c]
           m == [k EXCEPT !.reads = r]
           t == WithClient(s, c, m)
<1>0. s \in StreamT /\ Ring(s) /\ c \in Channels /\ k \in ClientT
  BY ClientsOf, StreamFields DEF Readable
<1>1. LessReads(s, c, r) = t
  BY <1>0, Zenon DEF LessReads, WithClient
<1>5. k = s.cl[c]
  OBVIOUS
<1> HIDE DEF k, t
<1>2. /\ m \in ClientT /\ m.pos = k.pos /\ m.got = k.got /\ (m.told <=> k.told)
      /\ m.start = k.start /\ m.reads = r /\ m.writes = k.writes /\ m.acked = k.acked
  BY <1>0 DEF ClientT
<1> HIDE DEF m
<1>3. /\ t \in StreamT /\ Fixed(s, t) /\ BytesSame(s, t) /\ t.queue = s.queue /\ t.cl[c] = m
      /\ \A d \in Channels \ {c} : t.cl[d] = s.cl[d]
      /\ Used(t) = Used(s) /\ Ring(t)
  BY <1>0, <1>2, WithClientFields DEF t
<1>4. ASSUME NEW d \in Channels PROVE Onward(s.cl[d], t.cl[d])
  <2>1. CASE d = c
    <3>1. Onward(k, m)
      BY <1>0, <1>2, ClientFields DEF Onward
    <3> QED
      BY <1>3, <1>5, <2>1, <3>1
  <2>2. CASE d # c
    <3>1. t.cl[d] = s.cl[d] /\ s.cl[d] \in ClientT
      BY <1>0, <1>3, <2>2, StreamFields
    <3> QED
      BY <3>1, ClientFields DEF Onward
  <2> QED
    BY <2>1, <2>2
<1>6. ReadStep(s, t)
  BY <1>3, <1>4 DEF ReadStep, BytesSame, NoticesOnly
<1>7. ASSUME NEW d \in Clients(t) PROVE ReaderOK(t, t.cl[d])
  <2>1. d \in Clients(s) /\ d \in Channels /\ ReaderOK(s, s.cl[d])
    BY <1>0, <1>3, ClientsOf DEF Clients, Fixed, Readable
  <2>2. t.pos = s.pos /\ t.log = s.log /\ (t.eos_inp <=> s.eos_inp) /\ Used(t) = Used(s)
    BY <1>3 DEF BytesSame
  <2>3. CASE d = c
    <3>1. ReaderOK(s, k)
      BY <1>5, <2>1, <2>3
    <3>2. ReaderOK(t, m)
      BY <1>2, <2>2, <3>1 DEF ReaderOK
    <3> QED
      BY <1>3, <2>3, <3>2
  <2>4. CASE d # c
    <3>1. t.cl[d] = s.cl[d]
      BY <1>3, <2>1, <2>4
    <3> QED
      BY <2>1, <2>2, <3>1 DEF ReaderOK
  <2> QED
    BY <2>3, <2>4
<1> QED
  BY <1>1, <1>2, <1>3, <1>6, <1>7 DEF Readable

\* The first i reads of client c were tried: the others still wait, or all that
\* wait have to.
Tried(c, i, s, t) ==
  Readable(s) /\ c \in Clients(s) =>
  /\ ReadStep(s, t) /\ Readable(t)
  /\ \A d \in Channels \ {c} : t.cl[d] = s.cl[d]
  /\ \/ t.cl[c].reads = SubSeq(s.cl[c].reads, i + 1, Len(s.cl[c].reads))
     \/ t.cl[c].pos = t.pos /\ ~t.eos_inp

\* One more parked read of a client is tried.
LEMMA TriedMore ==
  ASSUME NEW s, Readable(s), NEW c \in Clients(s), NEW i \in 1 .. Len(s.cl[c].reads),
         NEW t, Tried(c, i - 1, s, t)
  PROVE  Tried(c, i, s, ServeNext(c, t, s.cl[c].reads[i]))
<1> DEFINE q == s.cl[c].reads
           n == Len(q)
           size == q[i]
           x == SendReadReply(t, c, size)
           y == LessReads(x, c, Tail(x.cl[c].reads))
           v == IF t.cl[c].pos < t.pos \/ t.eos_inp THEN y ELSE t
<1>1. ServeNext(c, t, size) = v
  BY StrictIs, Zenon DEF ServeRead, LessReads
<1>2. s \in StreamT /\ c \in Channels /\ q \in Seq(Nat \ {0}) /\ n \in Nat
  BY ClientsOf, StreamFields, ClientFields, LenProperties DEF Readable
<1>3. size \in Nat
  BY <1>2, ElementOfSeq
<1>4. /\ ReadStep(s, t) /\ Readable(t) /\ c \in Clients(t)
      /\ \A d \in Channels \ {c} : t.cl[d] = s.cl[d]
  BY DEF Tried, ReadStep, Fixed, Clients
<1>5. t \in StreamT /\ t.cl[c] \in ClientT /\ t.cl[c].pos \in Nat /\ t.pos \in Nat
      /\ t.cl[c].pos <= t.pos /\ t.eos_inp \in BOOLEAN
  BY <1>2, <1>4, StreamFields, ClientFields DEF Readable, ReaderOK
<1>6. t.cl[c].reads = SubSeq(q, i, n) \/ (t.cl[c].pos = t.pos /\ ~t.eos_inp)
  <2>1. i - 1 + 1 = i
    OBVIOUS
  <2> QED
    BY <2>1 DEF Tried
<1>13. i \in 1 .. n /\ i \in Nat
  BY <1>2
<1> HIDE DEF q, n, size
<1>7. CASE t.cl[c].pos < t.pos \/ t.eos_inp
  <2>1. t.cl[c].reads = SubSeq(q, i, n)
    BY <1>5, <1>6, <1>7
  <2>2. /\ ReadStep(t, x) /\ Readable(x) /\ x.cl[c].reads = t.cl[c].reads
        /\ \A d \in Channels \ {c} : x.cl[d] = t.cl[d]
    BY <1>3, <1>4, ReplyFacts
  <2> DEFINE r == SubSeq(q, i, n)
  <2>3. r \in Seq(Nat \ {0}) /\ r # <<>> /\ Tail(r) = SubSeq(q, i + 1, n)
        /\ Tail(r) \in Seq(Nat \ {0})
    <3>1. i \in 1 .. Len(q) + 1 /\ n \in i - 1 .. Len(q)
      BY <1>2, <1>13 DEF n
    <3>2. r \in Seq(Nat \ {0}) /\ Len(r) = n - i + 1
      BY SMTT(40), <1>2, <3>1, SubSeqProperties
    <3>3. r # <<>>
      <4>1. n - i + 1 # 0
        BY <1>2, <1>13
      <4> HIDE DEF r
      <4> QED
        BY <3>2, <4>1, EmptySeq
    <3>4. Tail(r) = SubSeq(q, i + 1, n)
      <4>1. \A j \in 1 .. n - i + 1 : r[j] = q[i + j - 1]
        BY <1>2, <3>1, SubSeqProperties
      <4> DEFINE z == SubSeq(q, i + 1, n)
      <4>2. /\ z \in Seq(Nat \ {0}) /\ Len(z) = n - i /\ \A j \in 1 .. n - i : z[j] = q[i + j]
        <5>1. i <= n /\ n <= Len(q)
          BY <1>2, <1>13 DEF n
        <5> QED
          BY <1>2, <1>13, <5>1, Part
      <4> HIDE DEF r, z
      <4>3. /\ DOMAIN Tail(r) = 1 .. Len(r) - 1 /\ Tail(r) \in Seq(Nat \ {0})
            /\ \A j \in DOMAIN Tail(r) : Tail(r)[j] = r[j + 1]
        BY <3>2, <3>3, TailPlaces
      <4> DEFINE w == Tail(r)
      <4>4. w \in Seq(Nat \ {0}) /\ DOMAIN w = 1 .. n - i /\ \A j \in 1 .. n - i : w[j] = r[j + 1]
        <5>1. Len(r) - 1 = n - i
          BY <1>2, <1>13, <3>2
        <5> QED
          BY <4>3, <5>1
      <4> HIDE DEF w
      <4>5. Len(w) = n - i
        <5>1. Len(w) \in Nat /\ 1 .. Len(w) = 1 .. n - i
          BY <4>4, LenProperties
        <5>2. n - i \in Nat
          BY <1>2, <1>13
        <5> QED
          BY <5>1, <5>2
      <4>6. ASSUME NEW j \in 1 .. Len(w) PROVE w[j] = z[j]
        <5>1. j \in 1 .. n - i /\ j + 1 \in 1 .. n - i + 1 /\ i + (j + 1) - 1 = i + j
          BY <1>2, <1>13, <4>5
        <5>2. w[j] = r[j + 1] /\ z[j] = q[i + j]
          BY <4>2, <4>4, <5>1
        <5>3. r[j + 1] = q[i + (j + 1) - 1]
          BY <4>1, <5>1
        <5> QED
          BY <5>1, <5>2, <5>3
      <4>7. w = z
        BY <4>2, <4>4, <4>5, <4>6, SeqEqual
      <4> QED
        BY <4>7 DEF w, z
    <3>5. Tail(r) \in Seq(Nat \ {0})
      <4> HIDE DEF r
      <4> QED
        BY <3>2, <3>3, TailPlaces
    <3> QED
      BY <3>2, <3>3, <3>4, <3>5
  <2>4. x.cl[c].reads = r
    BY <2>1, <2>2
  <2> HIDE DEF r, x
  <2>5. c \in Clients(x)
    BY <1>4, <2>2 DEF ReadStep, Fixed, Clients
  <2>6. /\ ReadStep(x, y) /\ Readable(y) /\ y.cl[c].reads = Tail(r)
        /\ \A d \in Channels \ {c} : y.cl[d] = x.cl[d]
    <3>1. y = LessReads(x, c, Tail(r))
      BY <2>4
    <3> HIDE DEF y
    <3> QED
      BY ZenonT(60), <2>2, <2>3, <2>5, <3>1, LessReadsFacts
  <2> HIDE DEF y
  <2>7. ReadStep(s, y)
    BY <1>2, <1>4, <1>5, <2>2, <2>6, ReadStepTrans DEF Readable
  <2>8. Tried(c, i, s, y)
    BY <1>4, <2>2, <2>3, <2>6, <2>7 DEF Tried, q, n
  <2>9. v = y
    BY <1>7
  <2> QED
    BY <1>1, <2>8, <2>9 DEF size, q
<1>8. CASE ~(t.cl[c].pos < t.pos \/ t.eos_inp)
  <2>1. v = t /\ t.cl[c].pos = t.pos /\ ~t.eos_inp
    BY <1>5, <1>8
  <2>2. Tried(c, i, s, t)
    BY <1>4, <2>1 DEF Tried
  <2> QED
    BY <1>1, <2>1, <2>2 DEF size, q
<1> QED
  BY <1>7, <1>8

Serving == INSTANCE ProofLemmas WITH Op <- ServeNext, Rel <- Tried

\* All parked reads of one client.
LEMMA ServeAllFacts ==
  ASSUME NEW s, Readable(s), NEW c \in Clients(s)
  PROVE  LET t == ServeReads(s, c)
         IN  /\ ReadStep(s, t) /\ Readable(t) /\ NothingFor(t, t.cl[c])
             /\ \A d \in Channels \ {c} : t.cl[d] = s.cl[d]
<1> DEFINE q == s.cl[c].reads
           t == Serving!Fold(c, s, q)
<1>1. ServeReads(s, c) = t
  <2>1. ServeReads(s, c) = ServeAll(c, s)
    BY StrictIs
  <2>2. ServeAll(c, s) = t
    BY Zenon DEF ServeAll, Serving!Fold, FoldLeft, Serving!FoldLeft, MapThenFoldSet,
                 Serving!MapThenFoldSet, Max, Serving!Max
  <2> QED
    BY <2>1, <2>2
<1>2. s \in StreamT /\ c \in Channels /\ q \in Seq(Nat \ {0}) /\ Len(q) \in Nat
  BY ClientsOf, StreamFields, ClientFields, LenProperties DEF Readable
<1>3. Tried(c, 0, s, s)
  <2>1. SubSeq(q, 0 + 1, Len(q)) = q
    <3>1. 0 + 1 = 1
      OBVIOUS
    <3> HIDE DEF q
    <3> QED
      BY <1>2, <3>1, SubSeqFull
  <2> QED
    BY <1>2, <2>1, ReadStepSelf DEF Tried
<1>4. \A i \in 1 .. Len(q) : \A x : Tried(c, i - 1, s, x) => Tried(c, i, s, ServeNext(c, x, q[i]))
  BY TriedMore
<1> HIDE DEF q
<1>5. Tried(c, Len(q), s, t)
  BY SMTT(40), <1>2, <1>3, <1>4, Serving!FoldKeeps
<1> HIDE DEF t
<1>6. /\ ReadStep(s, t) /\ Readable(t) /\ \A d \in Channels \ {c} : t.cl[d] = s.cl[d]
      /\ \/ t.cl[c].reads = SubSeq(q, Len(q) + 1, Len(q))
         \/ t.cl[c].pos = t.pos /\ ~t.eos_inp
  BY <1>5 DEF Tried, q
<1>7. SubSeq(q, Len(q) + 1, Len(q)) = <<>>
  <2> DEFINE n == Len(q)
             r == SubSeq(q, n + 1, n)
  <2>1. n \in Nat /\ n <= n /\ n = Len(q)
    BY <1>2
  <2> HIDE DEF n
  <2>2. r \in Seq(Nat \ {0}) /\ Len(r) = n - n
    BY <1>2, <2>1, Part
  <2> HIDE DEF r
  <2>3. r = <<>>
    BY <2>1, <2>2, EmptySeq
  <2> QED
    BY <2>3 DEF r, n
<1>8. NothingFor(t, t.cl[c])
  BY <1>6, <1>7 DEF NothingFor
<1> QED
  BY <1>1, <1>6, <1>8

\* One step of the loop over the clients.
ServeOne(p, s, c) == ServeReads(s, c)

\* The first i clients were served.
ServedTo(p, i, s, t) ==
  Readable(s) =>
  /\ ReadStep(s, t) /\ Readable(t)
  /\ \A j \in 1 .. i : NothingFor(t, t.cl[s.clients[j]])

\* One more client is served.
LEMMA ServedMore ==
  ASSUME NEW s, Readable(s), NEW i \in 1 .. Len(s.clients), NEW t, NEW p,
         ServedTo(p, i - 1, s, t)
  PROVE  ServedTo(p, i, s, ServeOne(p, t, s.clients[i]))
<1> DEFINE c == s.clients[i]
           v == ServeReads(t, c)
<1>1. ServeOne(p, t, c) = v
  BY DEF ServeOne
<1>2. s \in StreamT /\ Len(s.clients) \in Nat
  BY StreamFields, LenProperties DEF Readable
<1>3. c \in Clients(s) /\ c \in Channels
  BY <1>2, ClientsOf
<1>4. ReadStep(s, t) /\ Readable(t) /\ \A j \in 1 .. i - 1 : NothingFor(t, t.cl[s.clients[j]])
  BY DEF ServedTo
<1>5. c \in Clients(t)
  BY <1>3, <1>4 DEF Clients, ReadStep, Fixed
<1>9. \A j \in 1 .. i : s.clients[j] \in Channels
  <2>1. \A j \in 1 .. i : j \in 1 .. Len(s.clients)
    BY <1>2
  <2> QED
    BY <1>2, <2>1, ClientsOf
<1>10. \A j \in 1 .. i : j = i \/ j \in 1 .. i - 1
  BY <1>2
<1> HIDE DEF c
<1>6. /\ ReadStep(t, v) /\ Readable(v) /\ NothingFor(v, v.cl[c])
      /\ \A d \in Channels \ {c} : v.cl[d] = t.cl[d]
  BY <1>4, <1>5, ServeAllFacts
<1> HIDE DEF v
<1>7. ReadStep(s, v)
  BY <1>2, <1>4, <1>6, ReadStepTrans
<1>8. ASSUME NEW j \in 1 .. i PROVE NothingFor(v, v.cl[s.clients[j]])
  <2> DEFINE d == s.clients[j]
  <2>1. d \in Channels /\ (d # c => j \in 1 .. i - 1)
    BY <1>9, <1>10 DEF c
  <2>3. j \in 1 .. i - 1 => NothingFor(t, t.cl[d])
    BY <1>4
  <2> HIDE DEF d
  <2>2. CASE d = c
    BY <1>6, <2>2 DEF d
  <2>4. CASE d # c
    <3>1. NothingFor(t, t.cl[d]) /\ v.cl[d] = t.cl[d]
      BY <1>6, <2>1, <2>3, <2>4
    <3>2. v.pos = t.pos /\ (v.eos_inp <=> t.eos_inp)
      BY <1>6 DEF ReadStep
    <3>3. NothingFor(v, v.cl[d])
      BY <3>1, <3>2 DEF NothingFor
    <3> QED
      BY <3>3 DEF d
  <2> QED
    BY <2>2, <2>4
<1> QED
  BY <1>1, <1>6, <1>7, <1>8 DEF ServedTo, c

ServingAll == INSTANCE ProofLemmas WITH Op <- ServeOne, Rel <- ServedTo

\* All clients are served, and the ring is advanced.
LEMMA ServeClientsFacts ==
  ASSUME NEW s, Readable(s)
  PROVE  LET t == ServeClients(s)
         IN  /\ ReadStep(s, t) /\ Readable(t)
             /\ \A c \in Clients(t) : NothingFor(t, t.cl[c])
<1> DEFINE q == s.clients
           v == ServingAll!Fold(0, s, q)
           t == AdvanceStreamBuffer(v)
<1>1. ServeClients(s) = t
  <2>1. FoldLeft(ServeReads, s, s.clients) = v
    BY Zenon DEF ServeOne, ServingAll!Fold, FoldLeft, ServingAll!FoldLeft, MapThenFoldSet,
                 ServingAll!MapThenFoldSet, Max, ServingAll!Max
  <2> HIDE DEF v
  <2>2. ServeClients(s) = Strict(AdvanceStreamBuffer, v)
    BY <2>1, Zenon DEF ServeClients
  <2> QED
    BY <2>2, Zenon DEF Strict
<1>2. s \in StreamT /\ q \in Seq(Channels)
  BY StreamFields DEF Readable
<1>3. ServedTo(0, 0, s, s)
  BY <1>2, ReadStepSelf DEF ServedTo
<1>4. \A i \in 1 .. Len(q) : \A x : ServedTo(0, i - 1, s, x) => ServedTo(0, i, s, ServeOne(0, x, q[i]))
  BY ServedMore
<1> HIDE DEF q
<1>5. ServedTo(0, Len(q), s, v)
  BY <1>2, <1>3, <1>4, ServingAll!FoldKeeps
<1> HIDE DEF v
<1>6. ReadStep(s, v) /\ Readable(v) /\ \A j \in 1 .. Len(q) : NothingFor(v, v.cl[q[j]])
  BY <1>5 DEF ServedTo, q
<1>7. ReadStep(v, t) /\ Readable(t) /\ t.cl = v.cl
  BY <1>6, AdvanceFacts
<1> HIDE DEF t
<1>8. ReadStep(s, t)
  BY <1>2, <1>6, <1>7, ReadStepTrans
<1>9. ASSUME NEW c \in Clients(t) PROVE NothingFor(t, t.cl[c])
  <2>1. c \in Clients(s)
    BY <1>8 DEF ReadStep, Fixed, Clients
  <2>2. PICK j \in 1 .. Len(q) : q[j] = c
    BY <1>2, <2>1, LenProperties DEF Clients, Range, q
  <2>3. NothingFor(v, v.cl[c]) /\ t.cl[c] = v.cl[c] /\ t.pos = v.pos /\ (t.eos_inp <=> v.eos_inp)
    BY <1>6, <1>7, <2>2 DEF ReadStep
  <2> QED
    BY <2>3 DEF NothingFor
<1> QED
  BY <1>1, <1>7, <1>8, <1>9

-----------------------------------------------------------------------------
(* virtual_stream_add_data.                                                *)

\* A part of a sequence is a part of every longer one.
LEMMA PartOfLonger ==
  ASSUME NEW S, NEW q \in Seq(S), NEW r \in Seq(S), NEW a \in Nat, NEW b \in Nat,
         a <= b, b <= Len(q)
  PROVE  SubSeq(q \o r, a + 1, b) = SubSeq(q, a + 1, b)
<1> DEFINE z == q \o r
           x == SubSeq(q, a + 1, b)
           y == SubSeq(z, a + 1, b)
<1>1. Len(q) \in Nat /\ Len(r) \in Nat
  BY LenProperties
<1>2. /\ z \in Seq(S) /\ Len(z) = Len(q) + Len(r)
      /\ \A i \in 1 .. Len(q) + Len(r) : z[i] = IF i <= Len(q) THEN q[i] ELSE r[i - Len(q)]
  BY ConcatProperties
<1> HIDE DEF z
<1>3. b <= Len(z)
  BY <1>1, <1>2
<1>4. x \in Seq(S) /\ Len(x) = b - a /\ \A i \in 1 .. b - a : x[i] = q[a + i]
  BY Part
<1>5. y \in Seq(S) /\ Len(y) = b - a /\ \A i \in 1 .. b - a : y[i] = z[a + i]
  BY <1>2, <1>3, Part
<1> HIDE DEF x, y
<1>6. ASSUME NEW i \in 1 .. Len(x) PROVE x[i] = y[i]
  <2>1. i \in 1 .. b - a /\ a + i \in 1 .. Len(q) + Len(r) /\ a + i <= Len(q)
    BY <1>1, <1>4
  <2> QED
    BY <1>2, <1>4, <1>5, <2>1
<1>7. x = y
  BY <1>4, <1>5, <1>6, SeqEqual
<1> QED
  BY <1>7 DEF x, y, z

\* What both kinds of stream promise.
AddOK(s, data, eos, a) ==
  /\ a.s \in StreamT /\ Fixed(s, a.s) /\ NoticesOnly(s, a.s) /\ Ring(a.s)
  /\ a.err <=> s.eos_inp
  /\ a.done \in Nat /\ a.done <= Len(data) /\ (s.eos_inp => a.done = 0)
  /\ a.s.pos = s.pos + a.done
  /\ a.s.log = s.log \o SubSeq(data, 1, a.done)
  /\ a.s.eos_inp <=> s.eos_inp \/ (eos /\ a.done = Len(data))
  /\ a.s.eos_out <=> s.eos_out

\* The clients of a "READ" stream are served.
ReadAdd(s, a) ==
  /\ \A c \in Channels : Onward(s.cl[c], a.s.cl[c])
  /\ \A c \in Clients(a.s) : ReaderOK(a.s, a.s.cl[c]) /\ NothingFor(a.s, a.s.cl[c])

\* The owner of a "WRITE" stream has the same before it.
WriteAdd(s, a) == a.s.cl = s.cl /\ a.s.pos - Used(a.s) = s.pos - Used(s)

\* The stream after PutBytes can be read.
LEMMA PutReadable ==
  ASSUME NEW s, Readable(s), ~s.eos_inp, NEW data \in Seq(Byte), NEW eos \in BOOLEAN,
         NEW n \in Nat, n <= Len(data), n <= Size - Used(s),
         NEW t, PutOK(s, data, eos, n, t)
  PROVE  Readable(t)
<1>1. s \in StreamT /\ Ring(s) /\ \A c \in Clients(s) : ReaderOK(s, s.cl[c])
  BY DEF Readable
<1>2. Ring(t) /\ Used(t) = Used(s) + n
  BY <1>1, PutRing
<1>3. t \in StreamT /\ Fixed(s, t) /\ t.pos = s.pos + n /\ t.log = s.log \o SubSeq(data, 1, n)
      /\ t.cl = s.cl
  BY DEF PutOK
<1>4. ASSUME NEW c \in Clients(t) PROVE ReaderOK(t, t.cl[c])
  <2> DEFINE k == s.cl[c]
             x == k.pos
             p == s.pos
             u == Used(s)
             l == t.pos
             v == Used(t)
  <2>1. c \in Clients(s) /\ k \in ClientT
    BY <1>1, <1>3, ClientsOf, StreamFields DEF Clients, Fixed
  <2>2. /\ x \in Nat /\ k.start \in Nat /\ k.got \in Seq(Byte) /\ Len(k.got) \in Nat
        /\ p \in Nat /\ u \in Nat /\ s.log \in Seq(Byte) /\ p = Len(s.log)
    BY <1>1, <2>1, StreamFields, ClientFields, UsedFree, LenProperties DEF Ring
  <2>3. /\ k.start + Len(k.got) = x /\ x <= p /\ p - u <= x
        /\ k.got = SubSeq(s.log, k.start + 1, x) /\ ~k.told
    BY <1>1, <2>1 DEF ReaderOK
  <2>4. t.cl[c] = k /\ l = p + n /\ v = u + n
    BY <1>2, <1>3
  <2>5. SubSeq(data, 1, n) \in Seq(Byte)
    BY FirstOf
  <2>10. t.log = s.log \o SubSeq(data, 1, n)
    BY <1>3
  <2> DEFINE a == k.start
             g == Len(k.got)
             w == s.log
             d == SubSeq(data, 1, n)
  <2>11. /\ a \in Nat /\ g \in Nat /\ a + g = x /\ p = Len(w) /\ w \in Seq(Byte)
         /\ d \in Seq(Byte)
    BY <2>2, <2>3, <2>5
  <2>12. /\ x \in Nat /\ p \in Nat /\ u \in Nat /\ x <= p /\ p - u <= x
         /\ l = p + n /\ v = u + n
    BY <2>2, <2>3, <2>4
  <2> HIDE DEF k, x, p, u, l, v, a, g, w, d
  <2>6. a <= x /\ x <= Len(w)
    BY <2>11, <2>12
  <2>7. SubSeq(w \o d, a + 1, x) = SubSeq(w, a + 1, x)
    BY <2>6, <2>11, <2>12, PartOfLonger
  <2>8. x <= l /\ l - v <= x
    BY <2>12
  <2>9. k.got = SubSeq(t.log, k.start + 1, x)
    BY <2>3, <2>7, <2>10 DEF a, w, d
  <2> QED
    BY <2>3, <2>4, <2>8, <2>9 DEF ReaderOK, x, l, v
<1> QED
  BY <1>2, <1>3, <1>4 DEF Readable

\* virtual_stream_add_data, on a stream that clients read or write.
LEMMA AddFacts ==
  ASSUME NEW s \in StreamT, Ring(s), NEW data \in Seq(Byte), NEW eos \in BOOLEAN
  PROVE  LET a == AddData(s, data, eos)
         IN  /\ s.access = "READ" /\ ReadersOK(s) => AddOK(s, data, eos, a) /\ ReadAdd(s, a)
             /\ s.access # "READ" => AddOK(s, data, eos, a) /\ WriteAdd(s, a)
<1> DEFINE n == IF s.eos_inp THEN 0 ELSE Fits(s, data)
           t == IF s.eos_inp THEN s ELSE PutBytes(s, data, eos)
           a == Added(s, t)
<1>1. AddData(s, data, eos) = a
  <2>1. AddData(s, data, eos) = Added(s, Filled(s, data, eos))
    BY Zenon DEF AddData, Strict
  <2> QED
    BY <2>1, Zenon DEF Filled
<1>2. /\ s.pos \in Nat /\ s.log \in Seq(Byte) /\ s.eos_inp \in BOOLEAN /\ s.eos_out \in BOOLEAN
      /\ s.pos = Len(s.log)
  BY StreamFields DEF Ring
<1>3. n \in Nat /\ n <= Len(data) /\ n <= Size - Used(s) /\ (s.eos_inp => n = 0)
  <2>1. 0 <= Len(data) /\ 0 <= Size - Used(s)
    <3>1. Len(data) \in Nat /\ Used(s) \in 0 .. Size
      BY LenProperties, UsedFree
    <3> QED
      BY <3>1, BufLenNat
  <2>2. CASE s.eos_inp
    BY <2>1, <2>2
  <2>3. CASE ~s.eos_inp
    <3>1. n = Fits(s, data)
      BY <2>3
    <3> HIDE DEF n
    <3> QED
      BY <2>3, <3>1, FitsSome
  <2> QED
    BY <2>2, <2>3
<1>4. /\ t \in StreamT /\ Fixed(s, t) /\ t.pos = s.pos + n /\ t.log = s.log \o SubSeq(data, 1, n)
      /\ (t.eos_inp <=> s.eos_inp \/ (eos /\ n = Len(data)))
      /\ (t.eos_out <=> s.eos_out) /\ t.queue = s.queue /\ t.cl = s.cl
      /\ Ring(t) /\ Used(t) = Used(s) + n
  <2>1. CASE s.eos_inp
    <3>1. t = s /\ n = 0
      BY <2>1
    <3>2. SubSeq(data, 1, 0) = <<>>
      <4> DEFINE r == SubSeq(data, 1, 0)
      <4>1. 0 \in Nat /\ 0 <= Len(data)
        BY LenProperties
      <4>2. r \in Seq(Byte) /\ Len(r) = 0
        BY <4>1, FirstOf
      <4> HIDE DEF r
      <4>3. r = <<>>
        BY <4>2, EmptySeq
      <4> QED
        BY <4>3 DEF r
    <3>3. s.log \o <<>> = s.log
      BY <1>2, ConcatEmptySeq
    <3>4. s.pos + 0 = s.pos /\ Used(s) + 0 = Used(s)
      BY <1>2, UsedFree
    <3> HIDE DEF t, n
    <3> QED
      BY <2>1, <3>1, <3>2, <3>3, <3>4 DEF Fixed
  <2>2. CASE ~s.eos_inp
    <3>1. t = PutBytes(s, data, eos) /\ n = Fits(s, data)
      BY <2>2
    <3>2. PutOK(s, data, eos, n, t)
      <4> HIDE DEF t, n
      <4> QED
        BY <3>1, PutFields
    <3> HIDE DEF t, n
    <3>3. Ring(t) /\ Used(t) = Used(s) + n
      BY <1>3, <3>2, PutRing
    <3> QED
      BY <2>2, <3>2, <3>3 DEF PutOK
  <2> QED
    BY <2>1, <2>2
<1>5. Readable(s) => Readable(t)
  <2>1. CASE s.eos_inp
    BY <2>1
  <2>2. CASE ~s.eos_inp
    <3>1. t = PutBytes(s, data, eos) /\ n = Fits(s, data)
      BY <2>2
    <3> HIDE DEF t, n
    <3>2. PutOK(s, data, eos, n, t)
      BY <3>1, PutFields
    <3> QED
      BY <1>3, <2>2, <3>2, PutReadable
  <2> QED
    BY <2>1, <2>2
<1>6. (t.eos_inp <=> s.eos_inp) /\ t.pos = s.pos => n = 0
  BY <1>2, <1>3, <1>4
<1>11. s.eos_inp => t = s
  OBVIOUS
<1> HIDE DEF t, n
<1>7. a.done = n /\ (a.err <=> s.eos_inp)
  <2>1. t.pos - s.pos = n
    <3> DEFINE x == s.pos
               y == t.pos
    <3>1. x \in Nat /\ y = x + n
      BY <1>2, <1>4
    <3> HIDE DEF x, y
    <3>2. y - x = n
      BY <1>3, <3>1
    <3> QED
      BY <3>2 DEF x, y
  <2> QED
    BY <2>1 DEF Added
<1>8. ASSUME s.access = "READ", ReadersOK(s)
      PROVE  AddOK(s, data, eos, a) /\ ReadAdd(s, a)
  <2> DEFINE v == IF ~s.eos_inp /\ (t.eos_inp \/ t.pos > s.pos) THEN ServeClients(t) ELSE t
  <2>1. a.s = v
    BY <1>8, Zenon DEF Added
  <2>2. Readable(s) /\ \A c \in Clients(s) : NothingFor(s, s.cl[c])
    BY <1>8 DEF ReadersOK, Readable
  <2>3. Readable(t)
    BY <1>5, <2>2
  <2>4. ReadStep(t, v) /\ Readable(v) /\ \A c \in Clients(v) : NothingFor(v, v.cl[c])
    <3>1. CASE ~s.eos_inp /\ (t.eos_inp \/ t.pos > s.pos)
      <4>1. v = ServeClients(t)
        BY <3>1
      <4> HIDE DEF v
      <4> QED
        BY <2>3, <4>1, ServeClientsFacts
    <3>2. CASE ~(~s.eos_inp /\ (t.eos_inp \/ t.pos > s.pos))
      <4>1. v = t
        BY <3>2
      <4> HIDE DEF v
      <4>2. t.pos = s.pos /\ (t.eos_inp <=> s.eos_inp)
        BY <1>2, <1>3, <1>4, <1>11, <3>2
      <4>3. ASSUME NEW c \in Clients(t) PROVE NothingFor(t, t.cl[c])
        <5>1. c \in Clients(s)
          BY <1>4 DEF Fixed, Clients
        <5> QED
          BY <1>4, <2>2, <4>2, <5>1 DEF NothingFor
      <4> QED
        BY <1>4, <2>3, <4>1, <4>3, ReadStepSelf
    <3> QED
      BY <3>1, <3>2
  <2> HIDE DEF v
  <2>5. v \in StreamT /\ Fixed(s, v) /\ NoticesOnly(s, v) /\ Ring(v)
    BY <1>4, <2>4 DEF ReadStep, Fixed, NoticesOnly, Readable
  <2>6. /\ v.pos = s.pos + n /\ v.log = s.log \o SubSeq(data, 1, n)
        /\ (v.eos_inp <=> s.eos_inp \/ (eos /\ n = Len(data))) /\ (v.eos_out <=> s.eos_out)
    BY <1>4, <2>4 DEF ReadStep
  <2>7. AddOK(s, data, eos, a)
    <3> HIDE DEF a
    <3> QED
      BY <1>3, <1>7, <2>1, <2>5, <2>6 DEF AddOK
  <2>8. ReadAdd(s, a)
    <3> HIDE DEF a
    <3> QED
      BY <1>4, <2>1, <2>4 DEF ReadStep, ReadAdd, Readable
  <2> QED
    BY <2>7, <2>8
<1>9. ASSUME s.access # "READ"
      PROVE  AddOK(s, data, eos, a) /\ WriteAdd(s, a)
  <2> DEFINE v == PostData(t)
  <2>1. a.s = v
    BY <1>9, Zenon DEF Added
  <2>2. PostOK(t, v)
    BY <1>4, PostFacts
  <2> HIDE DEF v
  <2>3. v \in StreamT /\ Fixed(s, v) /\ NoticesOnly(s, v) /\ v.cl = s.cl /\ Used(v) = Used(t)
    BY <1>4, <2>2 DEF PostOK, Fixed, NoticesOnly, Used, BytesSame
  <2>4. Ring(v)
    BY ZenonT(60), <1>4, <2>2, <2>3 DEF PostOK, Ring, BytesSame
  <2>6. /\ v.pos = s.pos + n /\ v.log = s.log \o SubSeq(data, 1, n)
        /\ (v.eos_inp <=> s.eos_inp \/ (eos /\ n = Len(data))) /\ (v.eos_out <=> s.eos_out)
    BY <1>4, <2>2 DEF PostOK, BytesSame
  <2>7. AddOK(s, data, eos, a)
    <3> HIDE DEF a
    <3> QED
      BY <1>3, <1>7, <2>1, <2>3, <2>4, <2>6 DEF AddOK
  <2>8. WriteAdd(s, a)
    <3>1. Used(s) \in Nat
      BY UsedFree
    <3> DEFINE x == s.pos
               u == Used(s)
               y == v.pos
               w == Used(v)
    <3>2. x \in Nat /\ u \in Nat /\ y = x + n /\ w = u + n
      BY <1>2, <1>4, <2>3, <2>6, <3>1
    <3> HIDE DEF x, u, y, w, a
    <3>3. y - w = x - u
      BY <1>3, <3>2
    <3> QED
      BY <2>1, <2>3, <3>3 DEF x, u, y, w, WriteAdd
  <2> QED
    BY <2>7, <2>8
<1> QED
  BY <1>1, <1>8, <1>9

-----------------------------------------------------------------------------
(* The order of the bytes of one channel.                                  *)

Order(c, log, n, w, acked) ==
  /\ Rising(c, log) /\ UpTo(c, log, n) /\ acked \subseteq Range(log)
  /\ QueuedOK(c, w, log, n)

\* The order of the writes, one channel at a time.
LEMMA OrderIs ==
  ASSUME NEW s, NEW sn
  PROVE  OrderOK(s, sn) <=>
           \A c \in Channels : Order(c, s.log, sn[c], s.cl[c].writes, s.cl[c].acked)
BY Zenon DEF OrderOK, Order

\* The places of two sequences, one after the other.
LEMMA JoinPlaces ==
  ASSUME NEW S, NEW p \in Seq(S), NEW q \in Seq(S)
  PROVE  /\ p \o q \in Seq(S) /\ Len(p) \in Nat /\ Len(q) \in Nat
         /\ DOMAIN p = 1 .. Len(p) /\ DOMAIN q = 1 .. Len(q)
         /\ DOMAIN (p \o q) = 1 .. Len(p) + Len(q)
         /\ \A i \in DOMAIN p : i \in DOMAIN (p \o q) /\ (p \o q)[i] = p[i]
         /\ \A i \in DOMAIN q : Len(p) + i \in DOMAIN (p \o q) /\ (p \o q)[Len(p) + i] = q[i]
         /\ \A i \in DOMAIN (p \o q) : \/ i \in DOMAIN p
                                       \/ i > Len(p) /\ i - Len(p) \in DOMAIN q /\ (p \o q)[i] = q[i - Len(p)]
         /\ Range(p \o q) = Range(p) \cup Range(q)
<1> DEFINE z == p \o q
           l == Len(p)
           m == Len(q)
<1>1. /\ z \in Seq(S) /\ Len(z) = l + m
      /\ \A i \in 1 .. l + m : z[i] = IF i <= l THEN p[i] ELSE q[i - l]
  BY ConcatProperties
<1>2. l \in Nat /\ m \in Nat /\ DOMAIN p = 1 .. l /\ DOMAIN q = 1 .. m
  BY LenProperties
<1>3. DOMAIN z = 1 .. l + m
  <2> HIDE DEF z
  <2> QED
    BY <1>1, LenProperties
<1> HIDE DEF z, l, m
<1>4. \A i \in 1 .. l : i \in 1 .. l + m /\ z[i] = p[i]
  BY <1>1, <1>2
<1>5. ASSUME NEW i \in 1 .. m PROVE l + i \in 1 .. l + m /\ z[l + i] = q[i]
  <2> DEFINE j == l + i
  <2>1. j \in 1 .. l + m /\ ~(j <= l) /\ j - l = i
    BY <1>2
  <2> HIDE DEF j
  <2>2. z[j] = q[j - l]
    BY <1>1, <2>1
  <2> QED
    BY <2>1, <2>2 DEF j
<1>6. ASSUME NEW i \in 1 .. l + m, i \notin 1 .. l
      PROVE  i > l /\ i - l \in 1 .. m /\ z[i] = q[i - l]
  <2>1. i > l /\ i - l \in 1 .. m /\ ~(i <= l)
    BY <1>2, <1>6
  <2> QED
    BY <1>1, <2>1
<1>7. Range(z) = Range(p) \cup Range(q)
  <2>1. ASSUME NEW i \in DOMAIN z PROVE z[i] \in Range(p) \cup Range(q)
    BY <1>2, <1>3, <1>4, <1>6 DEF Range
  <2>2. ASSUME NEW i \in DOMAIN p PROVE p[i] \in Range(z)
    BY <1>2, <1>3, <1>4 DEF Range
  <2>3. ASSUME NEW i \in DOMAIN q PROVE q[i] \in Range(z)
    BY <1>2, <1>3, <1>5 DEF Range
  <2>4. \A e \in Range(z) : e \in Range(p) \cup Range(q)
    BY <2>1, Zenon DEF Range
  <2>5. \A e \in Range(p) \cup Range(q) : e \in Range(z)
    BY <2>2, <2>3, Zenon DEF Range
  <2> QED
    BY <2>4, <2>5
<1> QED
  BY <1>1, <1>2, <1>3, <1>4, <1>5, <1>6, <1>7 DEF z, l, m

\* Bytes of another source leave the order of channel d as it is.
LEMMA OtherBytes ==
  ASSUME NEW d, NEW c, d # c, NEW log \in Seq(Byte), NEW add \in Seq(Byte),
         \A i \in DOMAIN add : add[i][1] = c,
         NEW n, NEW w, NEW acked, Order(d, log, n, w, acked)
  PROVE  Order(d, log \o add, n, w, acked)
<1> DEFINE z == log \o add
<1>1. /\ DOMAIN log = 1 .. Len(log) /\ Len(log) \in Nat
      /\ \A i \in DOMAIN log : i \in DOMAIN z /\ z[i] = log[i]
      /\ \A i \in DOMAIN z : \/ i \in DOMAIN log
                             \/ i - Len(log) \in DOMAIN add /\ z[i] = add[i - Len(log)]
      /\ Range(z) = Range(log) \cup Range(add)
  BY JoinPlaces
<1> HIDE DEF z
<1>2. ASSUME NEW i \in DOMAIN z, z[i][1] = d PROVE i \in DOMAIN log /\ z[i] = log[i]
  BY <1>1, <1>2
<1>3. Rising(d, z) /\ UpTo(d, z, n) /\ acked \subseteq Range(z)
  <2>1. Rising(d, log) /\ UpTo(d, log, n) /\ acked \subseteq Range(log)
    BY DEF Order
  <2>2. Rising(d, z)
    BY <1>2, <2>1, Zenon DEF Rising
  <2>3. UpTo(d, z, n)
    BY <1>2, <2>1, Zenon DEF UpTo
  <2> QED
    BY <1>1, <2>1, <2>2, <2>3
<1>4. QueuedOK(d, w, z, n)
  <2>1. QueuedOK(d, w, log, n)
    BY DEF Order
  <2>2. ASSUME NEW j \in DOMAIN w PROVE Precede(d, z, w[j].data) /\ w[j].all \subseteq Range(z) \cup Range(w[j].data)
    <3>1. Precede(d, log, w[j].data) /\ w[j].all \subseteq Range(log) \cup Range(w[j].data)
      BY <2>1 DEF QueuedOK
    <3>2. Precede(d, z, w[j].data)
      BY <1>2, <3>1, Zenon DEF Precede
    <3> QED
      BY <1>1, <3>1, <3>2
  <2> QED
    BY <2>1, <2>2 DEF QueuedOK
<1> QED
  BY <1>3, <1>4 DEF Order, z

\* w with its first write shortened to its bytes after the first m.
Shortened(w, m, v) ==
  /\ DOMAIN v = DOMAIN w /\ v[1].data = SubSeq(w[1].data, m + 1, Len(w[1].data))
  /\ v[1].all = w[1].all
  /\ \A j \in DOMAIN w : j # 1 => v[j].data = w[j].data /\ v[j].all = w[j].all

\* The first m bytes of the first write that waits enter the log.
LEMMA FirstBytes ==
  ASSUME NEW c \in Channels, NEW log \in Seq(Byte), NEW n \in Nat, NEW w \in Seq(Waiting), w # <<>>,
         NEW acked, Order(c, log, n, w, acked),
         NEW m \in Nat, m <= Len(w[1].data), NEW v, Shortened(w, m, v)
  PROVE  /\ Order(c, log \o SubSeq(w[1].data, 1, m), n, v, acked)
         /\ \A i \in DOMAIN SubSeq(w[1].data, 1, m) : SubSeq(w[1].data, 1, m)[i][1] = c
         /\ m = Len(w[1].data) => w[1].all \subseteq Range(log \o SubSeq(w[1].data, 1, m))
<1> DEFINE b == w[1].data
           l == Len(b)
           add == SubSeq(b, 1, m)
           rest == SubSeq(b, m + 1, l)
           z == log \o add
<1>1. /\ Rising(c, log) /\ UpTo(c, log, n) /\ acked \subseteq Range(log) /\ QueuedOK(c, w, log, n)
  BY DEF Order
<1>2. 1 \in DOMAIN w /\ DOMAIN w = 1 .. Len(w) /\ Len(w) \in Nat
  BY LenProperties, EmptySeq
<1>3. /\ b \in Seq({c} \X Nat) /\ UpTo(c, b, n) /\ Rising(c, b) /\ Precede(c, log, b)
      /\ w[1].all \subseteq Range(log) \cup Range(b)
  BY <1>1, <1>2 DEF QueuedOK
<1> HIDE DEF b
<1>4. l \in Nat /\ DOMAIN b = 1 .. l /\ \A i \in 1 .. l : b[i] \in {c} \X Nat
  BY <1>3, LenProperties, ElementOfSeq
<1>5. m <= l
  BY DEF b
<1> HIDE DEF l
<1>6. /\ add \in Seq({c} \X Nat) /\ Len(add) = m /\ \A i \in 1 .. m : add[i] = b[i]
  BY <1>3, <1>5, FirstOf DEF l
<1>7. /\ rest \in Seq({c} \X Nat) /\ Len(rest) = l - m /\ \A i \in 1 .. l - m : rest[i] = b[m + i]
  <2>1. m <= l /\ l <= Len(b)
    BY <1>4, <1>5 DEF l
  <2> QED
    BY <1>3, <1>4, <2>1, Part
<1> HIDE DEF add, rest
<1>8. DOMAIN add = 1 .. m /\ DOMAIN rest = 1 .. l - m
  BY <1>6, <1>7, LenProperties
<1>9. add \in Seq(Byte)
  <2>1. \A k \in 1 .. Len(add) : add[k] \in Byte
    BY <1>4, <1>5, <1>6 DEF Byte, Sources
  <2> QED
    BY <1>6, <2>1, SeqWithin
<1>10. /\ DOMAIN log = 1 .. Len(log) /\ Len(log) \in Nat /\ Range(z) = Range(log) \cup Range(add)
       /\ \A i \in DOMAIN z : \/ i \in DOMAIN log /\ z[i] = log[i]
                              \/ i > Len(log) /\ i - Len(log) \in DOMAIN add /\ z[i] = add[i - Len(log)]
       /\ DOMAIN z = 1 .. Len(log) + Len(add)
  BY SMTT(40), <1>9, JoinPlaces
<1> HIDE DEF z
<1>11. \A i \in DOMAIN b : b[i][1] = c /\ b[i][2] \in Nat
  BY <1>4
<1>12. \A i \in DOMAIN add : i \in DOMAIN b /\ add[i] = b[i]
  BY <1>4, <1>5, <1>6, <1>8
<1>13. \A i \in DOMAIN rest : m + i \in DOMAIN b /\ rest[i] = b[m + i]
  <2>1. ASSUME NEW i \in 1 .. l - m PROVE m + i \in 1 .. l
    BY <1>4, <1>5
  <2> QED
    BY <1>4, <1>7, <1>8, <2>1
<1>14. \A i \in DOMAIN add, j \in DOMAIN rest : i < m + j
  BY <1>4, <1>5, <1>8
<1>15. Range(b) \subseteq Range(add) \cup Range(rest)
  <2>1. ASSUME NEW i \in DOMAIN b PROVE b[i] \in Range(add) \cup Range(rest)
    <3>1. CASE i <= m
      <4>1. i \in DOMAIN add /\ b[i] = add[i]
        BY <1>4, <1>5, <1>6, <1>8, <3>1
      <4> QED
        BY <4>1 DEF Range
    <3>2. CASE ~(i <= m)
      <4>1. i - m \in 1 .. l - m /\ m + (i - m) = i
        BY SMTT(40), <1>4, <1>5, <3>2
      <4>2. i - m \in DOMAIN rest /\ b[i] = rest[i - m]
        BY <1>7, <1>8, <4>1
      <4> QED
        BY <4>2 DEF Range
    <3> QED
      BY <3>1, <3>2
  <2> QED
    BY <2>1, Zenon DEF Range
<1>16. Rising(c, z) /\ UpTo(c, z, n)
  <2>1. ASSUME NEW i \in DOMAIN z, NEW j \in DOMAIN z, i < j, z[i][1] = c, z[j][1] = c
        PROVE  z[i][2] < z[j][2]
    <3>1. CASE j \in DOMAIN log /\ z[j] = log[j]
      <4>1. i \in DOMAIN log
        BY <1>10, <2>1, <3>1
      <4>2. z[i] = log[i]
        BY <1>10, <4>1
      <4> QED
        BY <1>1, <2>1, <3>1, <4>1, <4>2 DEF Rising
    <3>2. CASE j > Len(log) /\ j - Len(log) \in DOMAIN add /\ z[j] = add[j - Len(log)]
      <4>1. j - Len(log) \in DOMAIN b /\ z[j] = b[j - Len(log)]
        BY <1>12, <3>2
      <4>2. CASE i \in DOMAIN log /\ z[i] = log[i]
        BY <1>3, <2>1, <4>1, <4>2 DEF Precede
      <4>3. CASE i > Len(log) /\ i - Len(log) \in DOMAIN add /\ z[i] = add[i - Len(log)]
        <5>1. i - Len(log) \in DOMAIN b /\ z[i] = b[i - Len(log)]
          BY <1>12, <4>3
        <5>2. i - Len(log) < j - Len(log)
          BY <1>10, <2>1
        <5> QED
          BY <1>3, <1>11, <4>1, <5>1, <5>2 DEF Rising
      <4> QED
        BY <1>10, <4>2, <4>3
    <3> QED
      BY <1>10, <3>1, <3>2
  <2>2. ASSUME NEW i \in DOMAIN z, z[i][1] = c PROVE z[i][2] <= n
    <3>1. CASE i \in DOMAIN log /\ z[i] = log[i]
      BY <1>1, <2>2, <3>1 DEF UpTo
    <3>2. CASE i - Len(log) \in DOMAIN add /\ z[i] = add[i - Len(log)]
      BY <1>3, <1>12, <2>2, <3>2 DEF UpTo
    <3> QED
      BY <1>10, <3>1, <3>2
  <2>3. Rising(c, z)
    BY <2>1, Zenon DEF Rising
  <2>4. UpTo(c, z, n)
    BY <2>2, Zenon DEF UpTo
  <2> QED
    BY <2>3, <2>4
<1>17. ASSUME NEW q, Precede(c, log, q), Precede(c, b, q) PROVE Precede(c, z, q)
  <2>1. ASSUME NEW i \in DOMAIN z, NEW j \in DOMAIN q, z[i][1] = c PROVE z[i][2] < q[j][2]
    <3>1. CASE i \in DOMAIN log /\ z[i] = log[i]
      BY <1>17, <2>1, <3>1 DEF Precede
    <3>2. CASE i - Len(log) \in DOMAIN add /\ z[i] = add[i - Len(log)]
      BY <1>12, <1>17, <2>1, <3>2 DEF Precede
    <3> QED
      BY <1>10, <3>1, <3>2
  <2> QED
    BY <2>1, Zenon DEF Precede
<1>18. UpTo(c, rest, n) /\ Rising(c, rest)
  <2>1. UpTo(c, rest, n)
    BY <1>3, <1>13 DEF UpTo
  <2>2. ASSUME NEW i \in DOMAIN rest, NEW j \in DOMAIN rest, i < j PROVE rest[i][2] < rest[j][2]
    <3>1. m + i < m + j
      BY <1>4, <1>5, <1>8, <2>2
    <3> QED
      BY <1>3, <1>11, <1>13, <3>1 DEF Rising
  <2>3. Rising(c, rest)
    BY <2>2, Zenon DEF Rising
  <2> QED
    BY <2>1, <2>3
<1>19. Precede(c, z, rest)
  <2>1. ASSUME NEW i \in DOMAIN z, NEW j \in DOMAIN rest, z[i][1] = c PROVE z[i][2] < rest[j][2]
    <3>1. CASE i \in DOMAIN log /\ z[i] = log[i]
      BY <1>3, <1>13, <2>1, <3>1 DEF Precede
    <3>2. CASE i - Len(log) \in DOMAIN add /\ z[i] = add[i - Len(log)]
      <4> DEFINE k == i - Len(log)
      <4>1. k \in DOMAIN add /\ z[i] = b[k] /\ k \in DOMAIN b /\ k < m + j
        BY <1>12, <1>14, <3>2
      <4> HIDE DEF k
      <4> QED
        BY <1>3, <1>11, <1>13, <4>1 DEF Rising
    <3> QED
      BY <1>10, <3>1, <3>2
  <2> QED
    BY <2>1, Zenon DEF Precede
<1>20. ASSUME NEW q, Precede(c, b, q) PROVE Precede(c, rest, q)
  BY <1>13, <1>20, ZenonT(60) DEF Precede
<1>21. DOMAIN v = DOMAIN w /\ v[1].data = rest /\ v[1].all = w[1].all
       /\ \A j \in DOMAIN w : j # 1 => v[j].data = w[j].data /\ v[j].all = w[j].all
  BY DEF Shortened, rest, l, b
<1>22. QueuedOK(c, v, z, n)
  <2>1. ASSUME NEW j \in DOMAIN v
        PROVE  /\ v[j].data \in Seq({c} \X Nat) /\ UpTo(c, v[j].data, n)
               /\ Rising(c, v[j].data) /\ Precede(c, z, v[j].data)
               /\ \A i \in 1 .. j - 1 : Precede(c, v[i].data, v[j].data)
               /\ v[j].all \subseteq Range(z) \cup Range(v[j].data)
    <3>1. CASE j = 1
      <4>1. v[1].all \subseteq Range(z) \cup Range(rest)
        BY <1>3, <1>10, <1>15, <1>21
      <4>2. 1 .. j - 1 = {}
        BY <3>1
      <4> QED
        BY <1>7, <1>18, <1>19, <1>21, <3>1, <4>1, <4>2
    <3>2. CASE j # 1
      <4> DEFINE q == w[j].data
      <4>1. j \in DOMAIN w /\ v[j].data = q /\ v[j].all = w[j].all
        BY <1>21, <3>2
      <4>2. /\ q \in Seq({c} \X Nat) /\ UpTo(c, q, n) /\ Rising(c, q) /\ Precede(c, log, q)
            /\ \A i \in 1 .. j - 1 : Precede(c, w[i].data, q)
            /\ w[j].all \subseteq Range(log) \cup Range(q)
        BY <1>1, <4>1 DEF QueuedOK
      <4>3. 1 \in 1 .. j - 1 /\ \A i \in 1 .. j - 1 : i \in DOMAIN w
        BY <1>2, <3>2, <4>1
      <4>4. Precede(c, b, q)
        BY <4>2, <4>3 DEF b
      <4> HIDE DEF q
      <4>5. Precede(c, z, q) /\ Precede(c, rest, q)
        BY <1>17, <1>20, <4>2, <4>4
      <4>6. ASSUME NEW i \in 1 .. j - 1 PROVE Precede(c, v[i].data, q)
        BY <1>21, <4>2, <4>3, <4>5
      <4>7. v[j].all \subseteq Range(z) \cup Range(q)
        BY <1>10, <4>1, <4>2
      <4> QED
        BY <4>1, <4>2, <4>5, <4>6, <4>7
    <3> QED
      BY <3>1, <3>2
  <2> QED
    BY <2>1 DEF QueuedOK
<1>23. Order(c, z, n, v, acked)
  BY <1>1, <1>10, <1>16, <1>22 DEF Order
<1>24. ASSUME m = l PROVE w[1].all \subseteq Range(z)
  <2>1. rest = <<>>
    <3>1. l - m = 0
      BY <1>4, <1>24
    <3> QED
      BY <1>7, <3>1, EmptySeq
  <2>2. Range(rest) = {}
    BY <2>1 DEF Range
  <2> QED
    BY <1>3, <1>10, <1>15, <2>2
<1>25. \A i \in DOMAIN add : add[i][1] = c
  BY <1>11, <1>12
<1> QED
  BY <1>23, <1>24, <1>25, Zenon DEF z, add, l, b

\* The first write that waits is answered.
LEMMA FirstGone ==
  ASSUME NEW c, NEW log, NEW n, NEW w \in Seq(Waiting), w # <<>>, NEW acked,
         Order(c, log, n, w, acked), NEW more, more \subseteq Range(log)
  PROVE  Order(c, log, n, Tail(w), acked \cup more)
<1> DEFINE v == Tail(w)
<1>1. /\ Len(w) \in Nat /\ DOMAIN w = 1 .. Len(w) /\ DOMAIN v = 1 .. Len(w) - 1
      /\ \A i \in DOMAIN v : v[i] = w[i + 1]
  BY TailPlaces
<1> HIDE DEF v
<1>2. QueuedOK(c, w, log, n)
  BY DEF Order
<1>3. ASSUME NEW j \in DOMAIN v
      PROVE  /\ v[j].data \in Seq({c} \X Nat) /\ UpTo(c, v[j].data, n)
             /\ Rising(c, v[j].data) /\ Precede(c, log, v[j].data)
             /\ \A i \in 1 .. j - 1 : Precede(c, v[i].data, v[j].data)
             /\ v[j].all \subseteq Range(log) \cup Range(v[j].data)
  <2> DEFINE k == j + 1
  <2>1. k \in DOMAIN w /\ v[j] = w[k] /\ \A i \in 1 .. j - 1 : i + 1 \in 1 .. k - 1 /\ i \in DOMAIN v
    BY <1>1
  <2> HIDE DEF k
  <2>2. /\ w[k].data \in Seq({c} \X Nat) /\ UpTo(c, w[k].data, n)
        /\ Rising(c, w[k].data) /\ Precede(c, log, w[k].data)
        /\ \A i \in 1 .. k - 1 : Precede(c, w[i].data, w[k].data)
        /\ w[k].all \subseteq Range(log) \cup Range(w[k].data)
    BY <1>2, <2>1 DEF QueuedOK
  <2>3. ASSUME NEW i \in 1 .. j - 1 PROVE Precede(c, v[i].data, v[j].data)
    <3>1. v[i] = w[i + 1] /\ i + 1 \in 1 .. k - 1
      BY <1>1, <2>1
    <3> QED
      BY <2>1, <2>2, <3>1
  <2> QED
    BY <2>1, <2>2, <2>3
<1>4. QueuedOK(c, v, log, n)
  BY <1>3 DEF QueuedOK
<1> QED
  BY <1>4 DEF Order, v

\* A write is parked: its bytes are the next ones of the channel.
LEMMA ParkOrder ==
  ASSUME NEW c, NEW log, NEW n \in Nat, NEW w \in Seq(Waiting), NEW acked,
         Order(c, log, n, w, acked), NEW x \in Waiting, NEW k \in Nat,
         x.data = [i \in 1 .. k |-> <<c, n + i>>], x.all \subseteq Range(x.data),
         \A i \in DOMAIN log : log[i] \in Byte
  PROVE  Order(c, log, n + k, Append(w, x), acked)
<1> DEFINE v == Append(w, x)
           b == x.data
           h == n + k
<1>1. /\ Len(w) \in Nat /\ DOMAIN w = 1 .. Len(w) /\ DOMAIN v = 1 .. Len(w) + 1
      /\ \A i \in DOMAIN w : v[i] = w[i]
      /\ v[Len(w) + 1] = x
  BY AppendPlaces
<1>2. DOMAIN b = 1 .. k /\ \A i \in 1 .. k : b[i] = <<c, n + i>>
  OBVIOUS
<1>3. x.all \subseteq Range(b)
  OBVIOUS
<1>20. b \in Seq({c} \X Nat)
  <2>1. b \in [1 .. k -> {c} \X Nat]
    OBVIOUS
  <2> HIDE DEF b
  <2> QED
    BY <2>1, SeqDef
<1>21. h \in Nat /\ n <= h
  OBVIOUS
<1> HIDE DEF v, b
<1>22. \A i \in DOMAIN b : b[i][1] = c /\ b[i][2] \in Nat /\ b[i][2] > n /\ b[i][2] <= h
  BY <1>2
<1> HIDE DEF h
<1>4. QueuedOK(c, w, log, n) /\ Rising(c, log) /\ UpTo(c, log, n) /\ acked \subseteq Range(log)
  BY DEF Order
<1>5. ASSUME NEW q, UpTo(c, q, n), \A i \in DOMAIN q : q[i][2] \in Nat
      PROVE  UpTo(c, q, h) /\ Precede(c, q, b)
  <2>1. ASSUME NEW i \in DOMAIN q, q[i][1] = c PROVE q[i][2] <= h /\ \A j \in DOMAIN b : q[i][2] < b[j][2]
    <3> DEFINE y == q[i][2]
    <3>1. y \in Nat /\ y <= n
      BY <1>5, <2>1 DEF UpTo
    <3> HIDE DEF y
    <3>2. y <= h /\ \A j \in DOMAIN b : y < b[j][2]
      BY <1>21, <1>22, <3>1
    <3> QED
      BY <3>2 DEF y
  <2>2. UpTo(c, q, h)
    BY <2>1, Zenon DEF UpTo
  <2>3. Precede(c, q, b)
    BY <2>1, Zenon DEF Precede
  <2> QED
    BY <2>2, <2>3
<1>6. UpTo(c, log, h) /\ Precede(c, log, b)
  <2>1. \A i \in DOMAIN log : log[i][2] \in Nat
    BY DEF Byte
  <2> QED
    BY <1>4, <1>5, <2>1
<1>7. ASSUME NEW j \in DOMAIN w PROVE UpTo(c, w[j].data, h) /\ Precede(c, w[j].data, b)
  <2>1. w[j].data \in Seq({c} \X Nat) /\ UpTo(c, w[j].data, n)
    BY <1>4 DEF QueuedOK
  <2>2. \A i \in DOMAIN w[j].data : w[j].data[i][2] \in Nat
    <3> DEFINE q == w[j].data
    <3> HIDE DEF q
    <3>1. q \in Seq({c} \X Nat)
      BY <2>1 DEF q
    <3>2. \A i \in DOMAIN q : q[i] \in {c} \X Nat
      BY <3>1, LenProperties, ElementOfSeq
    <3>3. \A i \in DOMAIN q : q[i][2] \in Nat
      BY <3>2
    <3> QED
      BY <3>3 DEF q
  <2> QED
    BY <1>5, <2>1, <2>2
<1>8. Rising(c, b)
  <2>1. ASSUME NEW i \in DOMAIN b, NEW j \in DOMAIN b, i < j PROVE b[i][2] < b[j][2]
    <3>1. b[i] = <<c, n + i>> /\ b[j] = <<c, n + j>> /\ n + i < n + j
      BY <1>2, <2>1
    <3> QED
      BY <3>1
  <2> QED
    BY <2>1, Zenon DEF Rising
<1>9. UpTo(c, b, h)
  BY <1>22 DEF UpTo
<1>10. ASSUME NEW j \in DOMAIN v
       PROVE  /\ v[j].data \in Seq({c} \X Nat) /\ UpTo(c, v[j].data, h)
              /\ Rising(c, v[j].data) /\ Precede(c, log, v[j].data)
              /\ \A i \in 1 .. j - 1 : Precede(c, v[i].data, v[j].data)
              /\ v[j].all \subseteq Range(log) \cup Range(v[j].data)
  <2>1. CASE j = Len(w) + 1
    <3>1. v[j].data = b /\ v[j].all \subseteq Range(b)
      BY <1>1, <1>3, <2>1 DEF b
    <3>2. ASSUME NEW i \in 1 .. j - 1 PROVE Precede(c, v[i].data, b)
      <4>1. i \in DOMAIN w /\ v[i] = w[i]
        BY <1>1, <2>1
      <4> QED
        BY <1>7, <4>1
    <3> QED
      BY <1>6, <1>8, <1>9, <1>20, <3>1, <3>2
  <2>2. CASE j # Len(w) + 1
    <3>3. j \in 1 .. Len(w) /\ \A i \in 1 .. j - 1 : i \in 1 .. Len(w)
      BY <1>1, <2>2
    <3>1. j \in DOMAIN w /\ v[j] = w[j] /\ \A i \in 1 .. j - 1 : v[i] = w[i]
      BY <1>1, <3>3
    <3>2. /\ w[j].data \in Seq({c} \X Nat)
          /\ Rising(c, w[j].data) /\ Precede(c, log, w[j].data)
          /\ \A i \in 1 .. j - 1 : Precede(c, w[i].data, w[j].data)
          /\ w[j].all \subseteq Range(log) \cup Range(w[j].data)
      BY <1>4, <3>1 DEF QueuedOK
    <3> QED
      BY <1>7, <3>1, <3>2
  <2> QED
    BY <2>1, <2>2
<1>11. QueuedOK(c, v, log, h)
  BY <1>10 DEF QueuedOK
<1> QED
  BY <1>4, <1>6, <1>11 DEF Order, v, h

-----------------------------------------------------------------------------
(* The parked writes: virtual_stream_get_data tries the first of each      *)
(* client.                                                                 *)

\* The log has grown, unless it was closed.
Grown(s, t) ==
  /\ Len(s.log) <= Len(t.log) /\ \A i \in 1 .. Len(s.log) : t.log[i] = s.log[i]
  /\ s.eos_inp => t.eos_inp /\ t.log = s.log

\* Adding data extends the log.
LEMMA AddGrown ==
  ASSUME NEW s \in StreamT, NEW data \in Seq(Byte), NEW eos, NEW a, AddOK(s, data, eos, a)
  PROVE  Grown(s, a.s)
<1> DEFINE w == s.log
           d == SubSeq(data, 1, a.done)
<1>1. w \in Seq(Byte) /\ d \in Seq(Byte)
  <2>1. a.done \in Nat /\ a.done <= Len(data)
    BY DEF AddOK
  <2> QED
    BY <2>1, StreamFields, FirstOf
<1>2. a.s.log = w \o d /\ (a.s.eos_inp <=> s.eos_inp \/ (eos /\ a.done = Len(data)))
  BY DEF AddOK
<1>5. s.eos_inp => a.done = 0
  BY DEF AddOK
<1>6. a.done = 0 => d = <<>>
  <2>1. a.done \in Nat /\ a.done <= Len(data)
    BY DEF AddOK
  <2>2. Len(d) = a.done
    BY <2>1, FirstOf
  <2> HIDE DEF d
  <2> QED
    BY <1>1, <2>2, EmptySeq
<1> HIDE DEF w, d
<1>3. /\ Len(w \o d) = Len(w) + Len(d) /\ Len(w) \in Nat /\ Len(d) \in Nat
      /\ \A i \in 1 .. Len(w) + Len(d) : (w \o d)[i] = IF i <= Len(w) THEN w[i] ELSE d[i - Len(w)]
  BY <1>1, ConcatProperties, LenProperties
<1>4. Len(w) <= Len(w \o d) /\ \A i \in 1 .. Len(w) : (w \o d)[i] = w[i]
  BY <1>3
<1>7. s.eos_inp => w \o d = w
  BY <1>1, <1>5, <1>6, ConcatEmptySeq
<1> QED
  BY <1>2, <1>4, <1>7 DEF Grown, w

\* A stream whose handler took bytes of parked writes.
WriteStep(s, t) ==
  /\ t \in StreamT /\ Fixed(s, t) /\ NoticesOnly(s, t) /\ Ring(t)
  /\ t.pos - Used(t) = s.pos - Used(s) /\ (t.eos_out <=> s.eos_out) /\ Grown(s, t)

\* A log extends itself,
LEMMA GrownSelf == ASSUME NEW s \in StreamT PROVE Grown(s, s)
BY StreamFields, LenProperties DEF Grown

\* and extensions compose.
LEMMA GrownTrans ==
  ASSUME NEW s \in StreamT, NEW t \in StreamT, NEW v \in StreamT, Grown(s, t), Grown(t, v)
  PROVE  Grown(s, v)
<1>1. Len(s.log) \in Nat /\ Len(t.log) \in Nat /\ Len(v.log) \in Nat
  BY StreamFields, LenProperties
<1>2. Len(s.log) <= Len(v.log)
  BY <1>1 DEF Grown
<1>3. ASSUME NEW i \in 1 .. Len(s.log) PROVE v.log[i] = s.log[i]
  <2>1. i \in 1 .. Len(t.log)
    BY <1>1 DEF Grown
  <2> QED
    BY <2>1 DEF Grown
<1>4. s.eos_inp => v.eos_inp /\ v.log = s.log
  BY DEF Grown
<1> QED
  BY <1>2, <1>3, <1>4 DEF Grown

\* Two such steps are one.
LEMMA WriteStepTrans ==
  ASSUME NEW s \in StreamT, NEW t, NEW v, WriteStep(s, t), WriteStep(t, v)
  PROVE  WriteStep(s, v)
<1>1. Grown(s, v)
  BY GrownTrans DEF WriteStep
<1> QED
  BY <1>1 DEF WriteStep, Fixed, NoticesOnly

\* The writes w that wait for channel c, and what was answered.
Queueing(s, c, q, r, t) ==
  /\ t \in StreamT /\ Fixed(s, t) /\ BytesSame(s, t) /\ t.buf_out = s.buf_out
  /\ t.queue = s.queue /\ t.cl[c].writes = q /\ t.cl[c].acked = r
  /\ \A d \in Channels \ {c} : t.cl[d] = s.cl[d]
  /\ Used(t) = Used(s) /\ (Ring(s) => Ring(t))

\* Its fields.
LEMMA QueueingIs ==
  ASSUME NEW s \in StreamT, NEW c \in Channels, NEW k \in ClientT
  PROVE  Queueing(s, c, k.writes, k.acked, WithClient(s, c, k))
<1> DEFINE t == WithClient(s, c, k)
<1>1. /\ t \in StreamT /\ Fixed(s, t) /\ BytesSame(s, t) /\ t.buf_out = s.buf_out
      /\ t.queue = s.queue /\ t.cl[c] = k
      /\ \A d \in Channels \ {c} : t.cl[d] = s.cl[d]
      /\ Used(t) = Used(s) /\ (Ring(s) => Ring(t))
  BY WithClientFields
<1> HIDE DEF t
<1> QED
  BY <1>1 DEF Queueing, t

\* The three ways to change what waits.
LEMMA QueueingOf ==
  ASSUME NEW s \in StreamT, NEW c \in Channels, NEW q \in Seq(Waiting), NEW r \in SUBSET Byte
  PROVE  /\ Queueing(s, c, q, s.cl[c].acked, [s EXCEPT !.cl[c].writes = q])
         /\ Queueing(s, c, s.cl[c].writes, r, [s EXCEPT !.cl[c].acked = r])
         /\ Queueing(s, c, q, r, [s EXCEPT !.cl[c].writes = q, !.cl[c].acked = r])
<1> DEFINE k == s.cl[c]
           x == [k EXCEPT !.writes = q]
           y == [k EXCEPT !.acked = r]
           z == [k EXCEPT !.writes = q, !.acked = r]
<1>1. k \in ClientT
  BY StreamFields
<1>2. /\ [s EXCEPT !.cl[c].writes = q] = WithClient(s, c, x)
      /\ [s EXCEPT !.cl[c].acked = r] = WithClient(s, c, y)
      /\ [s EXCEPT !.cl[c].writes = q, !.cl[c].acked = r] = WithClient(s, c, z)
  BY Zenon DEF WithClient
<1>3. k = s.cl[c]
  OBVIOUS
<1> HIDE DEF k
<1>4. x \in ClientT /\ x.writes = q /\ x.acked = k.acked
  BY <1>1 DEF ClientT
<1>5. y \in ClientT /\ y.writes = k.writes /\ y.acked = r
  BY <1>1 DEF ClientT
<1>6. z \in ClientT /\ z.writes = q /\ z.acked = r
  BY <1>1 DEF ClientT
<1> HIDE DEF x, y, z
<1>7. Queueing(s, c, x.writes, x.acked, WithClient(s, c, x))
  BY <1>4, QueueingIs
<1>8. Queueing(s, c, y.writes, y.acked, WithClient(s, c, y))
  BY <1>5, QueueingIs
<1>9. Queueing(s, c, z.writes, z.acked, WithClient(s, c, z))
  BY <1>6, QueueingIs
<1> QED
  BY <1>2, <1>3, <1>4, <1>5, <1>6, <1>7, <1>8, <1>9

\* What waits for the channels other than c.
OthersOrder(s, c, sn) ==
  \A d \in Channels \ {c} : Order(d, s.log, sn[d], s.cl[d].writes, s.cl[d].acked)

\* Bytes of the first write of a queue w of channel c were added to s.
LEMMA GiveOrder ==
  ASSUME NEW s \in StreamT, NEW sn \in [Sources -> Nat], NEW c \in Channels,
         NEW w \in Seq(Waiting), w # <<>>, NEW acked, Order(c, s.log, sn[c], w, acked),
         OthersOrder(s, c, sn), NEW eos, NEW a, AddOK(s, w[1].data, eos, a), a.s.cl = s.cl,
         NEW v, Shortened(w, a.done, v)
  PROVE  /\ Order(c, a.s.log, sn[c], v, acked) /\ OthersOrder(a.s, c, sn)
         /\ a.done = Len(w[1].data) => w[1].all \subseteq Range(a.s.log)
<1> DEFINE b == w[1].data
           m == a.done
           add == SubSeq(b, 1, m)
<1>1. m \in Nat /\ m <= Len(b) /\ a.s.log = s.log \o add
  BY DEF AddOK
<1>2. s.log \in Seq(Byte) /\ sn[c] \in Nat
  BY StreamFields DEF Sources
<1>3. /\ Order(c, s.log \o add, sn[c], v, acked)
      /\ \A i \in DOMAIN add : add[i][1] = c
      /\ m = Len(b) => w[1].all \subseteq Range(s.log \o add)
  <2>1. m \in Nat /\ m <= Len(w[1].data) /\ Shortened(w, m, v)
    BY <1>1
  <2> HIDE DEF m
  <2> QED
    BY <1>2, <2>1, FirstBytes, Zenon
<1>4. add \in Seq(Byte)
  <2>1. w[1] \in Waiting
    BY LenProperties, EmptySeq, ElementOfSeq
  <2>2. b \in Seq(Byte)
    BY <2>1 DEF Waiting
  <2> HIDE DEF b, m
  <2> QED
    BY <1>1, <2>2, FirstOf
<1> HIDE DEF add, b, m
<1>5. ASSUME NEW d \in Channels \ {c}
      PROVE  Order(d, a.s.log, sn[d], a.s.cl[d].writes, a.s.cl[d].acked)
  <2>1. Order(d, s.log, sn[d], s.cl[d].writes, s.cl[d].acked)
    BY DEF OthersOrder
  <2>2. Order(d, s.log \o add, sn[d], s.cl[d].writes, s.cl[d].acked)
    BY <1>2, <1>3, <1>4, <2>1, OtherBytes
  <2> QED
    BY <1>1, <2>2
<1>6. OthersOrder(a.s, c, sn)
  BY <1>5 DEF OthersOrder
<1> QED
  BY <1>1, <1>3, <1>6 DEF b, m

\* The order of all channels, when that of c is known.
LEMMA QueueOrder ==
  ASSUME NEW x \in StreamT, NEW sn, NEW c \in Channels, NEW q, NEW r, NEW t,
         Queueing(x, c, q, r, t), Order(c, x.log, sn[c], q, r), OthersOrder(x, c, sn)
  PROVE  OrderOK(t, sn)
<1>1. ASSUME NEW d \in Channels PROVE Order(d, t.log, sn[d], t.cl[d].writes, t.cl[d].acked)
  <2>1. t.log = x.log
    BY DEF Queueing, BytesSame
  <2>2. CASE d = c
    BY <2>1, <2>2 DEF Queueing
  <2>3. CASE d # c
    <3>1. t.cl[d] = x.cl[d] /\ Order(d, x.log, sn[d], x.cl[d].writes, x.cl[d].acked)
      BY <2>3 DEF Queueing, OthersOrder
    <3> QED
      BY <2>1, <3>1
  <2> QED
    BY <2>2, <2>3
<1> QED
  BY <1>1, OrderIs

\* The queue w after m bytes of its first write were taken.
Rest(w, m) == [w EXCEPT ![1].data = SubSeq(@, m + 1, Len(@))]

\* What is left of the first parked write.
LEMMA RestFacts ==
  ASSUME NEW w \in Seq(Waiting), w # <<>>, NEW m \in Nat, m <= Len(w[1].data)
  PROVE  /\ Rest(w, m) \in Seq(Waiting) /\ Shortened(w, m, Rest(w, m))
         /\ Rest(w, m) # <<>> /\ Tail(Rest(w, m)) = Tail(w)
<1> DEFINE b == w[1].data
           rest == SubSeq(b, m + 1, Len(b))
           x == [w[1] EXCEPT !.data = rest]
           v == [w EXCEPT ![1] = x]
<1>1. Rest(w, m) = v
  BY Zenon DEF Rest
<1>2. Len(w) \in Nat \ {0} /\ DOMAIN w = 1 .. Len(w) /\ 1 \in 1 .. Len(w) /\ w[1] \in Waiting
  BY LenProperties, EmptySeq, ElementOfSeq
<1>3. b \in Seq(Byte) /\ Len(b) \in Nat /\ m <= Len(b)
  BY <1>2, LenProperties DEF Waiting
<1>14. b = w[1].data
  OBVIOUS
<1> HIDE DEF b
<1>4. rest \in Seq(Byte)
  <2>1. Len(b) <= Len(b)
    BY <1>3
  <2> QED
    BY <1>3, <2>1, Part
<1>15. rest = SubSeq(b, m + 1, Len(b))
  OBVIOUS
<1> HIDE DEF rest
<1>5. x \in Waiting /\ x.data = rest /\ x.all = w[1].all
  BY <1>2, <1>4 DEF Waiting
<1> HIDE DEF x
<1>6. v \in Seq(Waiting) /\ Len(v) = Len(w) /\ DOMAIN v = 1 .. Len(w)
      /\ \A j \in 1 .. Len(w) : v[j] = IF j = 1 THEN x ELSE w[j]
  <2>1. v \in [1 .. Len(w) -> Waiting]
    <3>1. w \in [1 .. Len(w) -> Waiting]
      BY <1>2, ElementOfSeq, LenProperties
    <3> QED
      BY <1>2, <1>5, <3>1
  <2>2. \A j \in 1 .. Len(w) : v[j] = IF j = 1 THEN x ELSE w[j]
    BY <1>2
  <2> HIDE DEF v
  <2>3. v \in Seq(Waiting) /\ DOMAIN v = 1 .. Len(w)
    BY <1>2, <2>1, SeqDef
  <2>4. Len(v) \in Nat /\ 1 .. Len(v) = 1 .. Len(w)
    BY <2>3, LenProperties
  <2>5. Len(v) = Len(w)
    BY <1>2, <2>4
  <2> QED
    BY <2>2, <2>3, <2>5
<1> HIDE DEF v
<1>7. Shortened(w, m, v)
  BY <1>2, <1>5, <1>6, <1>14, <1>15 DEF Shortened
<1>8. v # <<>>
  BY <1>2, <1>6, EmptySeq
<1>9. Tail(v) = Tail(w)
  <2> DEFINE y == Tail(v)
             z == Tail(w)
  <2>1. /\ DOMAIN y = 1 .. Len(v) - 1 /\ y \in Seq(Waiting)
        /\ \A i \in DOMAIN y : y[i] = v[i + 1]
    BY <1>6, <1>8, TailPlaces
  <2>2. /\ DOMAIN z = 1 .. Len(w) - 1 /\ z \in Seq(Waiting)
        /\ \A i \in DOMAIN z : z[i] = w[i + 1]
    BY TailPlaces
  <2> HIDE DEF y, z
  <2>3. Len(y) \in Nat /\ Len(z) \in Nat /\ 1 .. Len(y) = 1 .. Len(z) /\ DOMAIN y = 1 .. Len(y)
    BY <1>6, <2>1, <2>2, LenProperties, Zenon
  <2>4. Len(y) = Len(z)
    BY <2>3
  <2>5. ASSUME NEW i \in 1 .. Len(y) PROVE y[i] = z[i]
    <3>1. i \in DOMAIN y /\ i \in DOMAIN z
      BY <1>6, <2>1, <2>2, <2>3, Zenon
    <3>2. i + 1 \in 1 .. Len(w) /\ i + 1 # 1
      BY <1>2, <2>2, <3>1
    <3>3. v[i + 1] = w[i + 1]
      BY <1>6, <3>2
    <3> QED
      BY <2>1, <2>2, <3>1, <3>3
  <2>6. y = z
    BY <2>1, <2>2, <2>4, <2>5, SeqEqual
  <2> QED
    BY <2>6 DEF y, z
<1> QED
  BY <1>1, <1>6, <1>7, <1>8, <1>9

\* A "WRITE" stream whose channels are in order.
Writing(s, sn) == s \in StreamT /\ Ring(s) /\ s.access # "READ" /\ OrderOK(s, sn)

\* A stream x of which only what waits for c has changed.
LEMMA QueueStep ==
  ASSUME NEW s \in StreamT, NEW x, WriteStep(s, x), NEW c, NEW q, NEW r, NEW t,
         Queueing(x, c, q, r, t)
  PROVE  WriteStep(s, t)
<1>1. x \in StreamT /\ Ring(x)
  BY DEF WriteStep
<1>2. t.pos = x.pos /\ t.log = x.log /\ (t.eos_inp <=> x.eos_inp) /\ (t.eos_out <=> x.eos_out)
      /\ t.queue = x.queue /\ Used(t) = Used(x) /\ Ring(t) /\ t \in StreamT /\ Fixed(x, t)
  BY <1>1 DEF Queueing, BytesSame
<1> QED
  BY <1>2 DEF WriteStep, Fixed, NoticesOnly, Grown

\* Adding data is such a step.
LEMMA AddWriteStep ==
  ASSUME NEW s \in StreamT, NEW data \in Seq(Byte), NEW eos, NEW a, AddOK(s, data, eos, a),
         WriteAdd(s, a)
  PROVE  WriteStep(s, a.s)
<1>1. Grown(s, a.s)
  BY AddGrown
<1> QED
  BY <1>1 DEF WriteStep, AddOK, WriteAdd

\* The parked writes of one client are fed to the ring.
LEMMA FedFacts ==
  ASSUME NEW sn \in [Sources -> Nat], NEW s, Writing(s, sn), NEW c \in Channels
  PROVE  WriteStep(s, FeedWrite(s, c)) /\ Writing(FeedWrite(s, c), sn)
<1> DEFINE w == s.cl[c].writes
           h == Head(w)
           acked == s.cl[c].acked
           a == AddData(s, h.data, h.eos)
           t == IF w = <<>> THEN s ELSE Fed(c, h, a)
<1>0. s \in StreamT /\ Ring(s) /\ s.access # "READ" /\ OrderOK(s, sn)
  BY DEF Writing
<1>1. FeedWrite(s, c) = t
  <2>1. FeedWrite(s, c) = FeedFirst(c, s)
    BY Zenon DEF FeedWrite, Strict
  <2>2. FeedFirst(c, s) = t
    BY Zenon DEF FeedFirst, Strict
  <2> QED
    BY <2>1, <2>2
<1>2. CASE w = <<>>
  <2>1. t = s
    BY <1>2
  <2>2. WriteStep(s, s)
    BY <1>0, GrownSelf DEF WriteStep, Fixed, NoticesOnly
  <2> QED
    BY <1>1, <2>1, <2>2
<1>3. CASE w # <<>>
  <2>1. w \in Seq(Waiting) /\ acked \in SUBSET Byte
    BY <1>0, StreamFields, ClientFields
  <2>2. h = w[1] /\ h \in Waiting
    <3> HIDE DEF w
    <3> QED
      BY <1>3, <2>1, TailPlaces
  <2>3. h.data \in Seq(Byte) /\ h.eos \in BOOLEAN /\ h.all \in SUBSET Byte
    BY <2>2 DEF Waiting
  <2>4. t = Fed(c, h, a)
    BY <1>3
  <2>20. w = s.cl[c].writes /\ acked = s.cl[c].acked
    OBVIOUS
  <2>5. AddOK(s, h.data, h.eos, a) /\ WriteAdd(s, a)
    <3> HIDE DEF h
    <3> QED
      BY <1>0, <2>3, AddFacts
  <2> HIDE DEF w, h, acked, a, t
  <2>6. WriteStep(s, a.s) /\ a.s.cl = s.cl /\ a.s \in StreamT
    BY <1>0, <2>3, <2>5, AddWriteStep DEF WriteAdd, AddOK
  <2> DEFINE m == a.done
             v == Rest(w, m)
             x == a.s
  <2>7. m \in Nat /\ m <= Len(w[1].data) /\ m <= Len(h.data)
    BY <2>2, <2>5 DEF AddOK
  <2>8. v \in Seq(Waiting) /\ Shortened(w, m, v) /\ v # <<>> /\ Tail(v) = Tail(w)
    <3> HIDE DEF m
    <3> QED
      BY <1>3, <2>1, <2>7, RestFacts
  <2>9. Order(c, s.log, sn[c], w, acked) /\ OthersOrder(s, c, sn)
    <3>1. \A d \in Channels : Order(d, s.log, sn[d], s.cl[d].writes, s.cl[d].acked)
      BY <1>0, OrderIs
    <3> QED
      BY <2>20, <3>1 DEF OthersOrder
  <2> HIDE DEF v
  <2>10. /\ Order(c, x.log, sn[c], v, acked) /\ OthersOrder(x, c, sn)
         /\ m = Len(w[1].data) => w[1].all \subseteq Range(x.log)
    <3>1. AddOK(s, w[1].data, h.eos, a)
      BY <2>2, <2>5
    <3> QED
      BY <1>0, <1>3, <2>1, <2>6, <2>8, <2>9, <3>1, GiveOrder
  <2>11. x.cl[c].writes = w /\ x.cl[c].acked = acked
    BY <2>6, <2>20
  <2>13. x.access = s.access
    BY <2>6 DEF WriteStep, Fixed
  <2>14. ASSUME NEW q, NEW r, Queueing(x, c, q, r, t), Order(c, x.log, sn[c], q, r)
         PROVE  WriteStep(s, t) /\ Writing(t, sn)
    <3>1. WriteStep(s, t)
      BY <1>0, <2>6, <2>14, QueueStep
    <3>2. OrderOK(t, sn)
      BY <2>6, <2>10, <2>14, QueueOrder
    <3> QED
      BY <1>0, <3>1, <3>2 DEF Writing, WriteStep, Fixed
  <2> HIDE DEF m, x
  <2>15. CASE a.err
    <3>1. t = [x EXCEPT !.cl[c].writes = <<>>]
      BY <2>4, <2>15 DEF Fed, x
    <3>2. <<>> \in Seq(Waiting)
      BY SMTT(40), EmptySeq
    <3>3. Queueing(x, c, <<>>, acked, t)
      BY <2>1, <2>6, <2>11, <3>1, <3>2, QueueingOf DEF x
    <3>4. Order(c, x.log, sn[c], <<>>, acked)
      BY <2>10 DEF Order, QueuedOK
    <3> QED
      BY <1>1, <2>14, <3>3, <3>4
  <2>16. CASE ~a.err /\ m = Len(h.data)
    <3> DEFINE q == Tail(w)
               r == acked \cup h.all
    <3>1. t = [x EXCEPT !.cl[c].writes = q, !.cl[c].acked = r]
      <4>1. t = [a.s EXCEPT !.cl[c].writes = Tail(@), !.cl[c].acked = @ \cup h.all]
        BY <2>4, <2>16 DEF Fed, m
      <4>2. t = [x EXCEPT !.cl[c].writes = Tail(x.cl[c].writes), !.cl[c].acked = x.cl[c].acked \cup h.all]
        BY <4>1, Zenon DEF x
      <4> QED
        BY <2>11, <4>2
    <3>2. q \in Seq(Waiting) /\ r \in SUBSET Byte
      <4>1. q \in Seq(Waiting)
        BY <1>3, <2>1, TailPlaces
      <4> QED
        BY <2>1, <2>3, <4>1
    <3>3. Order(c, x.log, sn[c], q, r)
      <4>1. h.all \subseteq Range(x.log)
        BY <2>2, <2>10, <2>16
      <4>2. Order(c, x.log, sn[c], Tail(v), r)
        BY <2>8, <2>10, <4>1, FirstGone
      <4> QED
        BY <2>8, <4>2
    <3> HIDE DEF q, r
    <3>4. Queueing(x, c, q, r, t)
      BY <2>6, <3>1, <3>2, QueueingOf DEF x
    <3> QED
      BY <1>1, <2>14, <3>3, <3>4
  <2>17. CASE ~a.err /\ m # Len(h.data)
    <3>1. t = [x EXCEPT !.cl[c].writes = v]
      <4>1. t = [a.s EXCEPT !.cl[c].writes[1].data = SubSeq(@, a.done + 1, Len(@))]
        BY <2>4, <2>17 DEF Fed, m
      <4>2. t = [x EXCEPT !.cl[c].writes = [x.cl[c].writes EXCEPT ![1].data = SubSeq(@, m + 1, Len(@))]]
        BY <4>1, Zenon DEF x, m
      <4>3. t = [x EXCEPT !.cl[c].writes = [w EXCEPT ![1].data = SubSeq(@, m + 1, Len(@))]]
        BY <2>11, <4>2, ZenonT(60)
      <4> QED
        BY <4>3, Zenon DEF v, Rest
    <3>2. Queueing(x, c, v, acked, t)
      BY <2>1, <2>6, <2>8, <2>11, <3>1, QueueingOf DEF x
    <3> QED
      BY <1>1, <2>10, <2>14, <3>2
  <2> QED
    BY <2>15, <2>16, <2>17
<1> QED
  BY <1>2, <1>3

\* One step of the loop over the clients.
FeedOne(sn, s, c) == FeedWrite(s, c)

\* After the first i clients.
FedTo(sn, i, s, t) ==
  sn \in [Sources -> Nat] /\ Writing(s, sn) => WriteStep(s, t) /\ Writing(t, sn)

Feeding == INSTANCE ProofLemmas WITH Op <- FeedOne, Rel <- FedTo

\* The parked writes of all clients are fed to the ring.
LEMMA FeedFacts ==
  ASSUME NEW sn \in [Sources -> Nat], NEW s, Writing(s, sn)
  PROVE  WriteStep(s, FeedClients(s)) /\ Writing(FeedClients(s), sn)
<1> DEFINE q == s.clients
           t == Feeding!Fold(sn, s, q)
<1>1. FeedClients(s) = t
  BY Zenon DEF FeedClients, FeedOne, Feeding!Fold, FoldLeft, Feeding!FoldLeft, MapThenFoldSet,
               Feeding!MapThenFoldSet, Max, Feeding!Max
<1>2. s \in StreamT /\ Ring(s) /\ q \in Seq(Channels)
  BY StreamFields DEF Writing
<1>3. FedTo(sn, 0, s, s)
  BY <1>2, GrownSelf DEF FedTo, WriteStep, Fixed, NoticesOnly
<1>4. ASSUME NEW i \in 1 .. Len(q), NEW x, FedTo(sn, i - 1, s, x)
      PROVE  FedTo(sn, i, s, FeedOne(sn, x, q[i]))
  <2>1. WriteStep(s, x) /\ Writing(x, sn)
    BY <1>4 DEF FedTo
  <2>2. q[i] \in Channels
    BY <1>2, ElementOfSeq
  <2>3. WriteStep(x, FeedOne(sn, x, q[i])) /\ Writing(FeedOne(sn, x, q[i]), sn)
    BY <2>1, <2>2, FedFacts DEF FeedOne
  <2>4. WriteStep(s, FeedOne(sn, x, q[i]))
    BY <1>2, <2>1, <2>3, WriteStepTrans
  <2> QED
    BY <2>3, <2>4 DEF FedTo
<1> HIDE DEF q
<1>5. FedTo(sn, Len(q), s, t)
  BY <1>2, <1>3, <1>4, Feeding!FoldKeeps
<1> HIDE DEF t
<1> QED
  BY <1>1, <1>5 DEF FedTo

\* Sequences that begin in the same way.
LEMMA PartSame ==
  ASSUME NEW S, NEW q \in Seq(S), NEW r \in Seq(S), NEW a \in Nat, NEW b \in Nat,
         a <= b, b <= Len(q), b <= Len(r), \A i \in 1 .. b : r[i] = q[i]
  PROVE  SubSeq(r, a + 1, b) = SubSeq(q, a + 1, b)
<1> DEFINE x == SubSeq(q, a + 1, b)
           y == SubSeq(r, a + 1, b)
<1>1. x \in Seq(S) /\ Len(x) = b - a /\ \A i \in 1 .. b - a : x[i] = q[a + i]
  BY Part
<1>2. y \in Seq(S) /\ Len(y) = b - a /\ \A i \in 1 .. b - a : y[i] = r[a + i]
  BY Part
<1> HIDE DEF x, y
<1>3. ASSUME NEW i \in 1 .. Len(y) PROVE y[i] = x[i]
  <2>1. i \in 1 .. b - a
    BY <1>2
  <2>2. a + i \in 1 .. b
    BY <2>1
  <2> QED
    BY <1>1, <1>2, <2>1, <2>2
<1>4. y = x
  BY <1>1, <1>2, <1>3, SeqEqual
<1> QED
  BY <1>4 DEF x, y

\* What virtual_stream_get_data returns and leaves.
GetOK(s, g, sn) ==
  /\ g.data \in Seq(Byte) /\ g.eos \in BOOLEAN
  /\ g.s \in StreamT /\ Fixed(s, g.s) /\ NoticesOnly(s, g.s) /\ Ring(g.s)
  /\ Grown(s, g.s) /\ OrderOK(g.s, sn)
  /\ SubSeq(s.log, 1, s.pos - Used(s)) \o g.data = SubSeq(g.s.log, 1, g.s.pos - Used(g.s))
  /\ s.eos_out => g.s.eos_out
  /\ g.s.eos_out => g.s.eos_inp /\ Used(g.s) = 0

\* virtual_stream_get_data takes the oldest bytes of the ring.
LEMMA GetFacts ==
  ASSUME NEW sn \in [Sources -> Nat], NEW s, Writing(s, sn), NEW size \in Nat,
         s.eos_out => s.eos_inp /\ Used(s) = 0
  PROVE  GetOK(s, GetData(s, size), sn)
<1> DEFINE n == Min({Used(s), size})
           eos == Used(s) <= size /\ s.eos_inp
           e == s.eos_out \/ eos
           x == [s EXCEPT !.eos_out = e]
           y == FeedClients(x)
           t == Take(y, n)
           data == [i \in 1 .. n |-> s.buf[(s.buf_out + i - 1) % BufLen]]
           g == GetData(s, size)
<1>0. s \in StreamT /\ Ring(s) /\ s.access # "READ" /\ OrderOK(s, sn)
  BY DEF Writing
<1>1. g.data = data /\ (g.eos <=> eos) /\ g.eos \in BOOLEAN /\ g.s = t
  <2> DEFINE k == Strict(LAMBDA z : Take(z, n), FeedClients(x))
  <2>1. g = [data |-> data, eos |-> eos, s |-> k]
    BY Zenon DEF GetData
  <2>2. k = t
    BY Zenon DEF Strict
  <2>3. s.eos_inp \in BOOLEAN
    BY <1>0, StreamFields
  <2>4. eos \in BOOLEAN
    BY <2>3
  <2> HIDE DEF g, data, eos, k, t
  <2> QED
    BY <2>1, <2>2, <2>4

<1> DEFINE u == Used(s)
           p == s.pos
           w == s.log
<1>2. u \in Nat /\ p \in Nat /\ u <= p /\ p = Len(w) /\ w \in Seq(Byte) /\ s.eos_out \in BOOLEAN
      /\ s.eos_inp \in BOOLEAN /\ u <= Size
  BY <1>0, StreamFields, UsedFree, BufLenNat DEF Ring
<1>20. (eos <=> u <= size /\ s.eos_inp) /\ (e <=> s.eos_out \/ eos) /\ (s.eos_out => s.eos_inp /\ u = 0)
  OBVIOUS
<1>21. n = Min({u, size})
  OBVIOUS
<1>23. e \in BOOLEAN
  BY <1>2
<1> HIDE DEF u, eos, e, n, g
<1>3. n \in Nat /\ n <= u /\ (u <= size => n = u)
  <2>1. u \in Int /\ size \in Int
    BY <1>2
  <2>2. n = IF u < size THEN u ELSE size
    BY <1>21, <2>1, OfTwo
  <2> QED
    BY <1>2, <2>2
<1>4. ASSUME NEW i \in 1 .. n PROVE data[i] = w[p - u + i] /\ data[i] \in Byte
  <2>1. i \in 1 .. Used(s)
    BY <1>2, <1>3 DEF u
  <2>2. data[i] = w[p - u + i]
    BY <1>0, <2>1 DEF Ring, u
  <2>3. p - u + i \in 1 .. Len(w)
    <3> HIDE DEF p, w
    <3>1. i \in Int /\ i >= 1 /\ i <= u
      BY <1>2, <1>3
    <3> QED
      BY <1>2, <3>1
  <2> HIDE DEF data, p, w
  <2>4. w[p - u + i] \in Byte
    BY <1>2, <2>3, ElementOfSeq
  <2> QED
    BY <2>2, <2>4
<1>5. data \in Seq(Byte) /\ Len(data) = n
  <2>1. data \in [1 .. n -> Byte] /\ DOMAIN data = 1 .. n
    <3>1. DOMAIN data = 1 .. n /\ data = [i \in 1 .. n |-> data[i]]
      OBVIOUS
    <3> HIDE DEF data
    <3> QED
      BY <1>4, <3>1
  <2> HIDE DEF data
  <2>2. data \in Seq(Byte)
    BY <1>3, <2>1, SeqDef
  <2>3. Len(data) \in Nat /\ 1 .. Len(data) = 1 .. n
    BY <2>1, <2>2, LenProperties
  <2> QED
    BY <1>3, <2>2, <2>3
<1> HIDE DEF data, p, w
<1>24. p = s.pos /\ w = s.log /\ u = Used(s)
  BY DEF p, w, u
<1>6. /\ x \in StreamT /\ Fixed(s, x) /\ x.queue = s.queue /\ x.cl = s.cl /\ x.log = w /\ x.pos = p
      /\ (x.eos_inp <=> s.eos_inp) /\ (x.eos_out <=> e) /\ Used(x) = u /\ Ring(x)
  <2>1. x \in StreamT /\ Fixed(s, x) /\ x.queue = s.queue /\ x.cl = s.cl /\ x.log = w /\ x.pos = p
        /\ (x.eos_inp <=> s.eos_inp) /\ (x.eos_out <=> e)
    BY <1>0, <1>23 DEF StreamT, Fixed, w, p
  <2>2. x.buf = s.buf /\ x.buf_inp = s.buf_inp /\ x.buf_out = s.buf_out
    BY <1>0 DEF StreamT
  <2> HIDE DEF x
  <2>3. Used(x) = u
    BY <2>2 DEF Used, u
  <2>4. Ring(x)
    BY <1>0, <1>24, <2>1, <2>2, <2>3 DEF Ring
  <2> QED
    BY <2>1, <2>3, <2>4
<1> HIDE DEF x
<1>7. Writing(x, sn)
  <2>1. OrderOK(x, sn)
    BY <1>0, <1>6 DEF OrderOK, w
  <2> QED
    BY <1>0, <1>6, <2>1 DEF Writing, Fixed
<1>8. WriteStep(x, y) /\ Writing(y, sn)
  BY <1>7, FeedFacts
<1> HIDE DEF y
<1> DEFINE l == y.pos
           v == Used(y)
<1>9. /\ y \in StreamT /\ Fixed(s, y) /\ NoticesOnly(s, y) /\ Ring(y) /\ OrderOK(y, sn)
      /\ l - v = p - u /\ (y.eos_out <=> e)
  BY <1>6, <1>8 DEF WriteStep, Writing, Fixed, NoticesOnly
<1>10. /\ Len(w) <= Len(y.log) /\ \A i \in 1 .. Len(w) : y.log[i] = w[i]
       /\ (s.eos_inp => y.eos_inp /\ y.log = w)
  BY <1>6, <1>8 DEF WriteStep, Grown
<1>11. l = Len(y.log) /\ l \in Nat /\ v \in Nat /\ v <= l /\ y.log \in Seq(Byte)
  BY <1>9, StreamFields, UsedFree DEF Ring
<1>25. l = y.pos /\ v = Used(y)
  OBVIOUS
<1> HIDE DEF l, v
<1>12. n <= v /\ (y.log = w => v = u)
  <2>1. v = u + (l - p)
    BY <1>2, <1>9, <1>11
  <2>2. p <= l /\ (y.log = w => l = p)
    BY <1>2, <1>10, <1>11
  <2> QED
    BY SMTT(40), <1>2, <1>3, <1>11, <2>1, <2>2
<1>13. DropOK(y, n, t)
  <2>1. CASE n > 0
    <3>1. t = Dropped(y, n)
      BY <2>1 DEF Take, Dropped
    <3> HIDE DEF t
    <3> QED
      BY <1>3, <1>9, <1>12, <1>25, <3>1, DropFacts
  <2>2. CASE ~(n > 0)
    <3>1. t = y /\ n = 0
      BY <1>3, <2>2 DEF Take
    <3> HIDE DEF t
    <3>2. Used(y) = Used(y) - 0
      BY <1>11, <1>25
    <3> QED
      BY <1>9, <3>1, <3>2 DEF DropOK, Fixed, BytesSame, NoticesOnly
  <2> QED
    BY <2>1, <2>2
<1> HIDE DEF t
<1>14. /\ t \in StreamT /\ Fixed(s, t) /\ NoticesOnly(s, t) /\ Ring(t) /\ t.cl = y.cl
       /\ t.log = y.log /\ t.pos = l /\ Used(t) = v - n /\ (t.eos_inp <=> y.eos_inp)
       /\ (t.eos_out <=> e)
  BY <1>9, <1>13, <1>25 DEF DropOK, Fixed, NoticesOnly, BytesSame
<1>15. OrderOK(t, sn)
  BY <1>9, <1>14 DEF OrderOK
<1>16. Grown(s, t)
  BY <1>10, <1>14 DEF Grown, w
<1>17. SubSeq(w, 1, p - u) \o data = SubSeq(t.log, 1, t.pos - Used(t))
  <2> DEFINE b == p - u
  <2>1. b \in Nat /\ b + n <= Len(w) /\ 0 <= b /\ 0 \in Nat /\ 0 + 1 = 1 /\ 0 <= b + n /\ b + n \in Nat
    BY <1>2, <1>3
  <2>2. \A i \in 1 .. n : data[i] = w[b + i]
    BY <1>4
  <2>8. p \in Int /\ u \in Int /\ l \in Int /\ v \in Int /\ n \in Int /\ l - v = p - u
    BY <1>2, <1>3, <1>9, <1>11
  <2>5. l - (v - n) = b + n
    BY <2>8
  <2> HIDE DEF b
  <2>3. Follows(w, 0, b, n, data)
    BY <1>2, <1>3, <1>5, <2>1, <2>2, PartMore
  <2>4. SubSeq(w, 1, b) \o data = SubSeq(w, 1, b + n)
    BY <2>1, <2>3 DEF Follows
  <2>6. SubSeq(y.log, 0 + 1, b + n) = SubSeq(w, 0 + 1, b + n)
    <3> DEFINE k == b + n
    <3>1. k \in Nat /\ 0 <= k /\ k <= Len(w) /\ k <= Len(y.log)
      BY <1>2, <1>10, <1>11, <2>1
    <3> HIDE DEF k
    <3>2. \A i \in 1 .. k : y.log[i] = w[i]
      <4>1. \A i \in 1 .. k : i \in 1 .. Len(w)
        BY <1>2, <3>1
      <4> QED
        BY <1>10, <4>1
    <3>3. SubSeq(y.log, 0 + 1, k) = SubSeq(w, 0 + 1, k)
      BY <1>2, <1>11, <2>1, <3>1, <3>2, PartSame
    <3> QED
      BY <3>3 DEF k
  <2>7. SubSeq(t.log, 1, t.pos - Used(t)) = SubSeq(y.log, 1, b + n)
    BY <1>14, <2>5
  <2> QED
    BY <2>1, <2>4, <2>6, <2>7 DEF b
<1>18. t.eos_out => t.eos_inp /\ Used(t) = 0
  <2>1. SUFFICES ASSUME e PROVE y.eos_inp /\ v - n = 0
    BY <1>14
  <2>2. s.eos_inp /\ n = u
    BY <1>2, <1>3, <1>20, <2>1
  <2> QED
    BY <1>2, <1>10, <1>12, <2>2
<1>19. s.eos_out => t.eos_out
  BY <1>14, <1>20
<1>22. SubSeq(s.log, 1, s.pos - Used(s)) \o g.data = SubSeq(g.s.log, 1, g.s.pos - Used(g.s))
  BY <1>1, <1>17, <1>24
<1> QED
  BY <1>1, <1>5, <1>14, <1>15, <1>16, <1>18, <1>19, <1>22 DEF GetOK, g

-----------------------------------------------------------------------------
(* References.                                                             *)

\* While there is a reference, the last event has not been posted.
LEMMA CountedQueue ==
  ASSUME NEW s \in StreamT, Counted(s), s.ref_cnt > 0
  PROVE  s.queue \in Seq(Notice)
<1>1. s.queue \in Seq({"data", "space", "delete"})
  BY StreamFields
<1>2. ASSUME NEW k \in 1 .. Len(s.queue) PROVE s.queue[k] \in Notice
  <2>1. s.queue[k] \in {"data", "space", "delete"} /\ k \in DOMAIN s.queue
    BY <1>1, ElementOfSeq, LenProperties
  <2>2. s.queue[k] # "delete"
    <3>1. s.ref_cnt \in Nat /\ s.ref_cnt # 0
      BY StreamFields
    <3> QED
      BY <2>1, <3>1 DEF Counted
  <2> QED
    BY <2>1, <2>2 DEF Notice
<1> QED
  BY <1>1, <1>2, SeqWithin

\* A queue of notices is no trace of the end.
LEMMA NoticesAre ==
  ASSUME NEW q \in Seq(Notice)
  PROVE  \A i \in DOMAIN q : q[i] # "delete"
BY LenProperties, ElementOfSeq DEF Notice

\* The books of the references do not depend on the bytes.
LEMMA CountedKept ==
  ASSUME NEW s \in StreamT, NEW t \in StreamT, Counted(s), s.ref_cnt > 0,
         s.life # "none", Fixed(s, t), NoticesOnly(s, t)
  PROVE  Counted(t)
<1>1. t.queue \in Seq(Notice)
  BY CountedQueue DEF NoticesOnly
<1>2. \A i \in DOMAIN t.queue : t.queue[i] # "delete"
  BY <1>1, NoticesAre
<1>3. t.clients = s.clients /\ t.ref_cnt = s.ref_cnt /\ t.deleted = s.deleted /\ t.life = s.life
      /\ Clients(t) = Clients(s)
  BY DEF Fixed, Clients
<1>4. t.ref_cnt # 0 /\ t.life # "freed"
  <2>1. s.ref_cnt \in Nat /\ s.ref_cnt # 0
    BY StreamFields
  <2>2. s.life # "freed"
    BY <2>1 DEF Counted
  <2> QED
    BY <1>3, <2>1, <2>2
<1> QED
  BY <1>2, <1>3, <1>4 DEF Counted

\* What giving up a reference leaves alone.
OnlyRefs(s, t) ==
  /\ t \in StreamT /\ t.life = s.life /\ t.access = s.access /\ t.deleted = s.deleted
  /\ t.clients = s.clients /\ t.cl = s.cl /\ BytesSame(s, t) /\ t.buf_out = s.buf_out
  /\ Used(t) = Used(s) /\ (Ring(s) => Ring(t))

\* The last reference posts the end.
LEMMA ReleaseFacts ==
  ASSUME NEW s \in StreamT, s.life = "live", s.queue \in Seq(Notice),
         Lists(s.clients, Clients(s)),
         s.ref_cnt = Len(s.clients) + (IF s.deleted THEN 0 ELSE 1) + 1
  PROVE  LET t == Release(s) IN OnlyRefs(s, t) /\ Counted(t) /\ t.ref_cnt = s.ref_cnt - 1
<1> DEFINE n == s.ref_cnt - 1
           x == [s EXCEPT !.ref_cnt = n]
           q == Append(s.queue, "delete")
           y == [x EXCEPT !.queue = q]
           t == IF n = 0 THEN y ELSE x
<1>1. n \in Nat /\ n = Len(s.clients) + (IF s.deleted THEN 0 ELSE 1) /\ Len(s.clients) \in Nat
  <2> DEFINE l == Len(s.clients)
             d == IF s.deleted THEN 0 ELSE 1
             m == s.ref_cnt
  <2>1. l \in Nat /\ d \in Nat /\ m = l + d + 1 /\ n = m - 1
    BY StreamFields, LenProperties
  <2> HIDE DEF l, d, m, n
  <2>2. n \in Nat /\ n = l + d
    BY <2>1
  <2> QED
    BY <2>1, <2>2 DEF l, d, n
<1>2. /\ q \in Seq({"data", "space", "delete"}) /\ q # <<>> /\ q[Len(q)] = "delete"
      /\ \A i \in DOMAIN q : q[i] = "delete" => i = Len(q)
  <2> DEFINE p == s.queue
  <2>1. p \in Seq(Notice) /\ p \in Seq({"data", "space", "delete"})
    BY StreamFields
  <2> HIDE DEF p
  <2>2. /\ Len(p) \in Nat /\ DOMAIN p = 1 .. Len(p) /\ \A i \in DOMAIN p : p[i] # "delete"
    BY <2>1, LenProperties, NoticesAre
  <2> DEFINE r == Append(p, "delete")
  <2>3. /\ r \in Seq({"data", "space", "delete"}) /\ DOMAIN r = 1 .. Len(p) + 1
        /\ \A i \in DOMAIN p : r[i] = p[i]
        /\ r[Len(p) + 1] = "delete"
    BY <2>1, AppendPlaces
  <2>4. Len(r) = Len(p) + 1
    BY <2>1, AppendProperties
  <2> HIDE DEF r
  <2>5. r # <<>>
    BY <2>2, <2>3, <2>4, EmptySeq
  <2>6. \A i \in DOMAIN r : i \in DOMAIN p \/ i = Len(p) + 1
    BY <2>2, <2>3
  <2> QED
    BY <2>2, <2>3, <2>4, <2>5, <2>6 DEF r, p
<1>3. Release(s) = t
  <2>1. n \in Nat
    BY <1>1
  <2>2. x.ref_cnt = n /\ x.queue = s.queue
    BY <2>1 DEF StreamT
  <2> QED
    BY <2>2, Zenon DEF Release
<1> HIDE DEF n, q
<1>4. x \in StreamT /\ x.ref_cnt = n /\ x.queue = s.queue /\ x.life = s.life /\ x.access = s.access
      /\ x.deleted = s.deleted /\ x.clients = s.clients /\ x.cl = s.cl /\ x.buf_out = s.buf_out
  BY <1>1 DEF StreamT
<1>5. BytesSame(s, x)
  BY DEF StreamT, BytesSame
<1> HIDE DEF x
<1>6. y \in StreamT /\ y.ref_cnt = n /\ y.queue = q /\ y.life = s.life /\ y.access = s.access
      /\ y.deleted = s.deleted /\ y.clients = s.clients /\ y.cl = s.cl /\ y.buf_out = s.buf_out
  BY <1>2, <1>4 DEF StreamT
<1>7. BytesSame(x, y)
  BY <1>4 DEF StreamT, BytesSame
<1> HIDE DEF y
<1>8. /\ t \in StreamT /\ t.ref_cnt = n /\ t.life = s.life /\ t.access = s.access
      /\ t.deleted = s.deleted /\ t.clients = s.clients /\ t.cl = s.cl /\ t.buf_out = s.buf_out
      /\ t.queue = IF n = 0 THEN q ELSE s.queue
  BY <1>4, <1>6
<1>9. BytesSame(s, t)
  BY <1>5, <1>7 DEF BytesSame
<1> HIDE DEF t
<1>10. Used(t) = Used(s)
  BY <1>8, <1>9 DEF Used, BytesSame
<1>11. Ring(s) => Ring(t)
  BY <1>8, <1>9, <1>10 DEF Ring, BytesSame
<1>12. OnlyRefs(s, t)
  BY <1>8, <1>9, <1>10, <1>11 DEF OnlyRefs
<1>13. Counted(t)
  <2>1. Clients(t) = Clients(s)
    BY <1>8 DEF Clients
  <2>2. \A i \in DOMAIN t.queue : t.queue[i] = "delete" => i = Len(t.queue) /\ n = 0
    <3>1. CASE n = 0
      BY <1>2, <1>8, <3>1
    <3>2. CASE n # 0
      BY <1>8, <3>2, NoticesAre
    <3> QED
      BY <3>1, <3>2
  <2>3. n = 0 => t.queue # <<>> /\ t.queue[Len(t.queue)] = "delete"
    BY <1>2, <1>8
  <2> QED
    BY <1>1, <1>8, <2>1, <2>2, <2>3 DEF Counted
<1> QED
  BY <1>3, <1>8, <1>12, <1>13 DEF n

-----------------------------------------------------------------------------
(* What the handlers keep of a stream and its owner.                       *)

\* Somebody holds a reference: the stream is there.
LEMMA Referenced ==
  ASSUME NEW s \in StreamT, Counted(s), s.life # "none", ~s.deleted \/ Clients(s) # {}
  PROVE  s.ref_cnt > 0 /\ s.life = "live"
<1> DEFINE l == Len(s.clients)
           d == IF s.deleted THEN 0 ELSE 1
           n == s.ref_cnt
<1>1. l \in Nat /\ d \in Nat /\ n = l + d /\ (s.life = "freed" => n = 0)
  BY StreamFields, LenProperties DEF Counted
<1>2. d = 1 \/ l # 0
  <2>1. CASE ~s.deleted
    BY <2>1
  <2>2. CASE Clients(s) # {}
    <3>1. PICK c : c \in Clients(s)
      BY <2>2
    <3>2. \E i \in DOMAIN s.clients : TRUE
      BY <3>1, Zenon DEF Clients, Range
    <3> QED
      BY <3>2, StreamFields, LenProperties
  <2> QED
    BY <2>1, <2>2
<1>3. s.life \in {"none", "live", "freed"}
  BY StreamFields
<1> HIDE DEF l, d, n
<1>4. n > 0
  BY <1>1, <1>2
<1>5. s.life # "freed"
  BY <1>1, <1>4
<1> QED
  BY <1>3, <1>4, <1>5 DEF n

\* What is left of Good when references and events are put aside.
Body(s, o, sn) ==
  /\ s \in StreamT /\ o \in OwnerT
  /\ Ring(s) /\ ReadersOK(s) /\ OwnerOK(s, o) /\ OrderOK(s, sn) /\ AddsOwn(s, o)

\* The invariant in two parts.
LEMMA GoodIs ==
  ASSUME NEW s, NEW o, NEW sn
  PROVE  Good(s, o, sn) <=> Body(s, o, sn) /\ LifeOK(s, o)
BY Zenon DEF Good, Body

\* The same bytes for the same clients.
SameView(s, t) ==
  /\ t \in StreamT /\ t.access = s.access /\ t.clients = s.clients /\ t.cl = s.cl
  /\ BytesSame(s, t) /\ Used(t) = Used(s) /\ (Ring(s) => Ring(t))
  /\ (s.deleted => t.deleted)

\* A step that changes neither bytes nor clients keeps the first part.
LEMMA SameBody ==
  ASSUME NEW s, NEW o, NEW sn, Body(s, o, sn), NEW t, SameView(s, t),
         NEW p \in OwnerT, p.taken = o.taken, AddsOwn(s, p)
  PROVE  Body(t, p, sn)
<1>1. s \in StreamT /\ t \in StreamT /\ Ring(t)
  BY DEF Body, SameView
<1>2. /\ t.access = s.access /\ t.cl = s.cl /\ t.log = s.log /\ t.pos = s.pos
      /\ (t.eos_inp <=> s.eos_inp) /\ (t.eos_out <=> s.eos_out) /\ Used(t) = Used(s)
      /\ (s.deleted => t.deleted)
  BY DEF SameView, BytesSame
<1>3. Clients(t) = Clients(s)
  BY DEF SameView, Clients
<1>4. ReadersOK(t)
  <2>1. ReadersOK(s)
    BY DEF Body
  <2>2. \A k : (ReaderOK(s, k) => ReaderOK(t, k)) /\ (NothingFor(s, k) => NothingFor(t, k))
    BY <1>2 DEF ReaderOK, NothingFor
  <2> QED
    BY <1>2, <1>3, <2>1, <2>2 DEF ReadersOK
<1>5. OwnerOK(t, p)
  BY <1>2 DEF OwnerOK, Body
<1>6. OrderOK(t, sn) /\ AddsOwn(t, p)
  BY <1>2 DEF OrderOK, AddsOwn, Body
<1> QED
  BY <1>1, <1>4, <1>5, <1>6 DEF Body

\* The owner gives up its reference.
LEMMA DeleteFacts ==
  ASSUME NEW s \in StreamT, s.life = "live", Counted(s), ~s.deleted, s.access # "none"
  PROVE  LET t == VirtualStreamDelete(s)
         IN  SameView(s, t) /\ Counted(t) /\ t.life = "live" /\ t.deleted
<1> DEFINE x == [s EXCEPT !.deleted = TRUE]
           t == Release(x)
<1>1. VirtualStreamDelete(s) = t
  BY Zenon DEF VirtualStreamDelete
<1>2. /\ x \in StreamT /\ x.life = "live" /\ x.access = s.access /\ x.deleted
      /\ x.clients = s.clients /\ x.cl = s.cl /\ x.buf_out = s.buf_out /\ x.queue = s.queue
      /\ x.ref_cnt = s.ref_cnt
  BY DEF StreamT
<1>3. BytesSame(s, x)
  BY DEF StreamT, BytesSame
<1> HIDE DEF x
<1>4. s.ref_cnt > 0
  BY Referenced
<1>5. x.queue \in Seq(Notice)
  BY <1>2, <1>4, CountedQueue
<1>6. Lists(x.clients, Clients(x))
  BY <1>2 DEF Counted, Clients
<1>7. x.ref_cnt = Len(x.clients) + (IF x.deleted THEN 0 ELSE 1) + 1
  <2> DEFINE l == Len(s.clients)
  <2>1. l \in Nat /\ s.ref_cnt = l + 1
    BY StreamFields, LenProperties DEF Counted
  <2>2. x.ref_cnt = l + 1 /\ Len(x.clients) = l /\ (IF x.deleted THEN 0 ELSE 1) = 0
    BY <1>2, <2>1
  <2> HIDE DEF l
  <2> QED
    BY <2>1, <2>2
<1>8. OnlyRefs(x, t) /\ Counted(t)
  BY <1>2, <1>5, <1>6, <1>7, ReleaseFacts
<1> HIDE DEF t
<1>9. Used(x) = Used(s) /\ (Ring(s) => Ring(x))
  <2>1. Used(x) = Used(s)
    BY <1>2, <1>3 DEF Used, BytesSame
  <2> QED
    BY <1>2, <1>3, <2>1 DEF Ring, BytesSame
<1>10. SameView(s, t) /\ t.life = "live" /\ t.deleted
  BY <1>2, <1>3, <1>8, <1>9 DEF OnlyRefs, SameView, BytesSame
<1> QED
  BY <1>1, <1>8, <1>10

\* So nothing but the owner's hold on the stream changes.
LEMMA DeleteGood ==
  ASSUME NEW s, NEW o, NEW sn, Body(s, o, sn), s.life = "live", s.access # "none",
         Counted(s), ~s.deleted,
         NEW p \in OwnerT, p.taken = o.taken, AddsOwn(s, p), ~p.posted,
         s.access = "WRITE" => ~p.prs
  PROVE  Good(VirtualStreamDelete(s), p, sn)
<1> DEFINE t == VirtualStreamDelete(s)
<1>1. s \in StreamT
  BY DEF Body
<1>2. SameView(s, t) /\ Counted(t) /\ t.life = "live" /\ t.deleted
  BY <1>1, DeleteFacts
<1> HIDE DEF t
<1>3. Body(t, p, sn)
  BY <1>2, SameBody
<1>4. LifeOK(t, p)
  BY <1>2 DEF LifeOK, LetsGo, SameView
<1> QED
  BY <1>3, <1>4, GoodIs DEF t

-----------------------------------------------------------------------------
(* The owner's callbacks.                                                  *)

\* p is how q begins.
Begins(p, q) == Len(p) <= Len(q) /\ \A i \in 1 .. Len(p) : q[i] = p[i]

\* What a callback does to those who read: they move on, the log grows.
Moves(s, o, t, p) ==
  /\ t.access = s.access /\ t.clients = s.clients /\ Grown(s, t)
  /\ s.access = "READ" => \A c \in Channels : Onward(s.cl[c], t.cl[c])
  /\ s.access = "WRITE" => (t.deleted <=> s.deleted) /\ (s.eos_out => t.eos_out)
  /\ Begins(o.taken, p.taken)

\* The fields of an owner.
LEMMA OwnerFields ==
  ASSUME NEW o \in OwnerT
  PROVE  /\ o.posted \in BOOLEAN /\ o.buf \in Seq(Byte) /\ o.rd_eos \in BOOLEAN
         /\ o.eos \in BOOLEAN /\ o.prs \in BOOLEAN /\ o.taken \in Seq(Byte)
BY DEF OwnerT

\* Every sequence begins itself.
LEMMA BeginsSelf == ASSUME NEW p \in Seq(Byte) PROVE Begins(p, p)
BY LenProperties DEF Begins

\* A sequence begins a longer one.
LEMMA BeginsMore ==
  ASSUME NEW p \in Seq(Byte), NEW q \in Seq(Byte)
  PROVE  Begins(p, p \o q)
<1>1. /\ Len(p \o q) = Len(p) + Len(q) /\ Len(p) \in Nat /\ Len(q) \in Nat
      /\ \A i \in 1 .. Len(p) + Len(q) : (p \o q)[i] = IF i <= Len(p) THEN p[i] ELSE q[i - Len(p)]
  BY ConcatProperties, LenProperties
<1>2. Len(p) <= Len(p \o q) /\ \A i \in 1 .. Len(p) : (p \o q)[i] = p[i]
  BY <1>1
<1> QED
  BY <1>2 DEF Begins

\* A step that changes nothing for those who read.
LEMMA MovesSelf ==
  ASSUME NEW s \in StreamT, NEW o \in OwnerT, NEW t, SameView(s, t), NEW p, p.taken = o.taken,
         s.access = "WRITE" => (t.deleted <=> s.deleted)
  PROVE  Moves(s, o, t, p)
<1>1. Grown(s, s) /\ ReadStep(s, s) /\ Begins(o.taken, o.taken)
  BY GrownSelf, ReadStepSelf, BeginsSelf, OwnerFields
<1>2. t.log = s.log /\ (t.eos_inp <=> s.eos_inp) /\ (t.eos_out <=> s.eos_out) /\ t.cl = s.cl
      /\ t.access = s.access /\ t.clients = s.clients
  BY DEF SameView, BytesSame
<1>3. Grown(s, t)
  BY <1>1, <1>2 DEF Grown
<1>4. \A c \in Channels : Onward(s.cl[c], t.cl[c])
  BY <1>1, <1>2 DEF ReadStep
<1> QED
  BY <1>1, <1>2, <1>3, <1>4 DEF Moves

\* Every stream looks like itself.
LEMMA SameViewSelf == ASSUME NEW s \in StreamT PROVE SameView(s, s)
BY DEF SameView, BytesSame

\* The owner's part of a callback: InputGot.
LEMMA InputFacts ==
  ASSUME NEW s, NEW o, NEW sn \in [Sources -> Nat], Body(s, o, sn), s.access = "WRITE",
         s.life = "live", Counted(s), ~s.deleted
  PROVE  LET r == InputCallback(s, o)
         IN  Good(r.s, r.o, sn) /\ Moves(s, o, r.s, r.o)
<1> DEFINE r == InputCallback(s, o)
           g == GetData(s, OwnerBuf)
           same == [s |-> s, o |-> o]
           got == InputGot(o, g)
           again == [s |-> s, o |-> [o EXCEPT !.posted = o.buf # <<>>]]
<1>1. r = IF o.posted THEN same ELSE IF o.buf = <<>> /\ ~o.eos THEN got ELSE again
  BY Zenon DEF InputCallback, Strict
<1>2. s \in StreamT /\ o \in OwnerT /\ OwnerOK(s, o) /\ Ring(s) /\ OrderOK(s, sn)
  BY DEF Body
<1>3. s.ref_cnt > 0
  BY <1>2, Referenced
<1>4. LifeOK(s, o)
  BY DEF LifeOK, LetsGo
<1>5. CASE o.posted
  <2>1. r.s = s /\ r.o = o
    BY <1>1, <1>5
  <2>2. Good(s, o, sn)
    BY <1>4, GoodIs
  <2>3. Moves(s, o, s, o)
    BY <1>2, MovesSelf, SameViewSelf
  <2> QED
    BY <2>1, <2>2, <2>3
<1>6. CASE ~o.posted /\ ~(o.buf = <<>> /\ ~o.eos)
  <2> DEFINE b == o.buf # <<>>
             p == [o EXCEPT !.posted = b]
  <2>1. r.s = s /\ r.o = p
    BY <1>1, <1>6
  <2>2. b \in BOOLEAN
    OBVIOUS
  <2> HIDE DEF b
  <2>3. p \in OwnerT /\ p.taken = o.taken
    BY <1>2, <2>2 DEF OwnerT
  <2> HIDE DEF p
  <2>4. AddsOwn(s, p)
    BY DEF AddsOwn
  <2>5. Body(s, p, sn)
    BY <1>2, <2>3, <2>4, SameBody, SameViewSelf
  <2>6. LifeOK(s, p)
    BY DEF LifeOK, LetsGo
  <2>7. Moves(s, o, s, p)
    BY <1>2, <2>3, MovesSelf, SameViewSelf
  <2> QED
    BY <2>1, <2>5, <2>6, <2>7, GoodIs
<1>7. CASE ~o.posted /\ o.buf = <<>> /\ ~o.eos
  <2> DEFINE b == g.data # <<>>
             k == o.taken \o g.data
             p == [o EXCEPT !.buf = g.data, !.eos = g.eos, !.posted = b, !.taken = k]
  <2>1. r.s = g.s /\ r.o = p
    <3>1. r = got
      BY <1>1, <1>7
    <3>2. got = [s |-> g.s, o |-> p]
      BY Zenon DEF InputGot
    <3> HIDE DEF g, p, got
    <3> QED
      BY <3>1, <3>2
  <2>2. GetOK(s, g, sn)
    <3>1. OwnerBuf \in Nat
      BY StreamsAssumption
    <3>2. Writing(s, sn)
      BY <1>2 DEF Writing
    <3>3. s.eos_out => s.eos_inp /\ Used(s) = 0
      BY <1>2 DEF OwnerOK
    <3> QED
      BY <3>1, <3>2, <3>3, GetFacts
  <2>3. /\ g.data \in Seq(Byte) /\ g.eos \in BOOLEAN /\ g.s \in StreamT /\ Fixed(s, g.s)
        /\ NoticesOnly(s, g.s) /\ Ring(g.s) /\ Grown(s, g.s) /\ OrderOK(g.s, sn)
    BY <2>2 DEF GetOK
  <2>4. o.taken \in Seq(Byte)
    BY <1>2, OwnerFields
  <2> DEFINE t == g.s
             e == g.data
             f == g.eos
  <2>5. /\ e \in Seq(Byte) /\ f \in BOOLEAN /\ t \in StreamT /\ Fixed(s, t)
        /\ NoticesOnly(s, t) /\ Ring(t) /\ Grown(s, t) /\ OrderOK(t, sn) /\ r.s = t
    BY <2>1, <2>3
  <2>6. o.taken = SubSeq(s.log, 1, s.pos - Used(s))
    BY <1>2 DEF OwnerOK
  <2>7. k = SubSeq(t.log, 1, t.pos - Used(t)) /\ (s.eos_out => t.eos_out)
        /\ (t.eos_out => t.eos_inp /\ Used(t) = 0)
    BY <2>2, <2>6 DEF GetOK
  <2>8. k \in Seq(Byte) /\ b \in BOOLEAN /\ Begins(o.taken, k)
    BY <2>4, <2>5, ConcatProperties, BeginsMore
  <2>9. r.o = p /\ p = [o EXCEPT !.buf = e, !.eos = f, !.posted = b, !.taken = k]
    BY <2>1
  <2> HIDE DEF g, t, e, f, b, k, p, r
  <2>10. p \in OwnerT /\ p.taken = k
    BY <1>2, <2>5, <2>8, <2>9 DEF OwnerT
  <2>11. t.access = "WRITE" /\ t.life = "live" /\ ~t.deleted /\ t.clients = s.clients
    BY <2>5 DEF Fixed
  <2>12. OwnerOK(t, p) /\ ReadersOK(t) /\ AddsOwn(t, p)
    BY <2>7, <2>10, <2>11 DEF OwnerOK, ReadersOK, AddsOwn
  <2>13. Counted(t)
    BY <1>2, <1>3, <2>5, CountedKept
  <2>14. LifeOK(t, p)
    BY <2>11, <2>13 DEF LifeOK, LetsGo
  <2>15. Body(t, p, sn)
    BY <2>5, <2>10, <2>12 DEF Body
  <2>16. Moves(s, o, t, p)
    BY <2>5, <2>7, <2>8, <2>10, <2>11 DEF Moves
  <2> QED
    BY <2>5, <2>9, <2>14, <2>15, <2>16, GoodIs DEF r
<1> QED
  BY <1>5, <1>6, <1>7

\* What process_output_streams_callback has added, or nothing.
OutAdd(s, o, a, sn) ==
  /\ a.s \in StreamT /\ Fixed(s, a.s) /\ NoticesOnly(s, a.s) /\ Ring(a.s) /\ Grown(s, a.s)
  /\ (a.s.eos_out <=> s.eos_out) /\ ReadersOK(a.s) /\ OrderOK(a.s, sn)
  /\ \A c \in Channels : Onward(s.cl[c], a.s.cl[c])
  /\ a.done \in Nat /\ a.done <= Len(o.buf)

\* Bytes of the owner leave the order of every channel as it is.
LEMMA OwnBytes ==
  ASSUME NEW s \in StreamT, NEW sn, OrderOK(s, sn), NEW data \in Seq({Owner} \X Nat),
         NEW n \in Nat, n <= Len(data), NEW t, t.log = s.log \o SubSeq(data, 1, n),
         \A c \in Channels : Onward(s.cl[c], t.cl[c])
  PROVE  OrderOK(t, sn)
<1> DEFINE add == SubSeq(data, 1, n)
<1>1. add \in Seq({Owner} \X Nat)
  BY FirstOf
<1>2. t.log = s.log \o add
  OBVIOUS
<1> HIDE DEF add
<1>3. \A i \in DOMAIN add : add[i] \in {Owner} \X Nat
  BY <1>1, LenProperties, ElementOfSeq
<1>4. \A i \in DOMAIN add : add[i][1] = Owner /\ add[i] \in Byte
  BY <1>3 DEF Byte, Sources
<1>5. add \in Seq(Byte)
  <2>1. \A i \in 1 .. Len(add) : add[i] \in Byte
    BY <1>1, <1>4, LenProperties
  <2> QED
    BY <1>1, <2>1, SeqWithin
<1>6. ASSUME NEW c \in Channels PROVE Order(c, t.log, sn[c], t.cl[c].writes, t.cl[c].acked)
  <2>1. c # Owner
    BY StreamsAssumption
  <2>2. Order(c, s.log, sn[c], s.cl[c].writes, s.cl[c].acked)
    BY OrderIs
  <2>3. Order(c, s.log \o add, sn[c], s.cl[c].writes, s.cl[c].acked)
    BY <1>4, <1>5, <2>1, <2>2, StreamFields, OtherBytes
  <2>4. t.cl[c].writes = s.cl[c].writes /\ t.cl[c].acked = s.cl[c].acked
    BY DEF Onward
  <2> QED
    BY <1>2, <2>3, <2>4
<1> QED
  BY <1>6, OrderIs

\* process_output_streams_callback.
LEMMA OutputFacts ==
  ASSUME NEW s, NEW o, NEW sn, Body(s, o, sn), s.access = "READ",
         s.life = "live", Counted(s), ~s.deleted
  PROVE  LET r == OutputCallback(s, o)
         IN  Good(r.s, r.o, sn) /\ Moves(s, o, r.s, r.o)
<1> DEFINE r == OutputCallback(s, o)
           same == [s |-> s, o |-> o]
           none == [s |-> s, done |-> 0, err |-> FALSE]
           add == AddData(s, o.buf, o.rd_eos)
           a == IF o.buf # <<>> \/ o.eos # o.rd_eos THEN add ELSE none
           new == OutputAdded(o, a)
<1>1. r = IF o.posted THEN same ELSE new
  <2>1. r = IF o.posted THEN same ELSE OutputAdded(o, AddOutput(s, o))
    BY Zenon DEF OutputCallback, Strict
  <2>2. AddOutput(s, o) = a
    BY Zenon DEF AddOutput
  <2> QED
    BY <2>1, <2>2, Zenon
<1>2. s \in StreamT /\ o \in OwnerT /\ OwnerOK(s, o) /\ Ring(s) /\ OrderOK(s, sn) /\ ReadersOK(s)
      /\ AddsOwn(s, o)
  BY DEF Body
<1>3. s.ref_cnt > 0
  BY <1>2, Referenced
<1>4. o.buf \in Seq(Byte) /\ o.rd_eos \in BOOLEAN /\ o.buf \in Seq({Owner} \X Nat)
      /\ o.eos \in BOOLEAN /\ o.taken \in Seq(Byte) /\ Len(o.buf) \in Nat
  BY <1>2, OwnerFields, LenProperties DEF AddsOwn
<1>5. CASE o.posted
  <2>1. r.s = s /\ r.o = o
    BY <1>1, <1>5
  <2>2. Good(s, o, sn)
    BY GoodIs DEF LifeOK, LetsGo
  <2>3. Moves(s, o, s, o)
    BY <1>2, MovesSelf, SameViewSelf
  <2> QED
    BY <2>1, <2>2, <2>3
<1>6. CASE ~o.posted
  <2>1. OutAdd(s, o, add, sn)
    <3>1. AddOK(s, o.buf, o.rd_eos, add) /\ ReadAdd(s, add)
      BY <1>2, <1>4, AddFacts
    <3> HIDE DEF add
    <3>2. Grown(s, add.s)
      BY <1>2, <1>4, <3>1, AddGrown
    <3>3. /\ add.s \in StreamT /\ Fixed(s, add.s) /\ NoticesOnly(s, add.s) /\ Ring(add.s)
          /\ (add.s.eos_out <=> s.eos_out) /\ add.done \in Nat /\ add.done <= Len(o.buf)
          /\ add.s.log = s.log \o SubSeq(o.buf, 1, add.done)
      BY <3>1 DEF AddOK
    <3>4. \A c \in Channels : Onward(s.cl[c], add.s.cl[c])
      BY <3>1 DEF ReadAdd
    <3>5. ReadersOK(add.s)
      BY <3>1 DEF ReadAdd, ReadersOK
    <3>6. OrderOK(add.s, sn)
      <4> DEFINE t == add.s
                 n == add.done
      <4>1. /\ n \in Nat /\ n <= Len(o.buf) /\ t.log = s.log \o SubSeq(o.buf, 1, n)
            /\ \A c \in Channels : Onward(s.cl[c], t.cl[c])
        BY <3>3, <3>4
      <4> HIDE DEF t, n
      <4>2. OrderOK(t, sn)
        BY <1>2, <1>4, <4>1, OwnBytes
      <4> QED
        BY <4>2 DEF t
    <3> QED
      BY <3>2, <3>3, <3>4, <3>5, <3>6 DEF OutAdd
  <2>2. OutAdd(s, o, none, sn)
    <3>1. ReadStep(s, s) /\ Grown(s, s)
      BY <1>2, ReadStepSelf, GrownSelf
    <3>2. none.s = s /\ none.done = 0
      OBVIOUS
    <3> HIDE DEF none
    <3> QED
      BY <1>2, <1>4, <3>1, <3>2 DEF OutAdd, ReadStep
  <2>3. OutAdd(s, o, a, sn)
    BY <2>1, <2>2
  <2> DEFINE x == a.s
             n == a.done
             all == n = Len(o.buf)
             del == all /\ o.rd_eos /\ Used(x) = 0
             b == SubSeq(o.buf, n + 1, Len(o.buf))
             e == o.eos \/ (all /\ o.rd_eos)
             f == all /\ ~o.rd_eos
             p == [o EXCEPT !.buf = b, !.eos = e, !.posted = f]
             y == VirtualStreamDelete(x)
  <2>4. new = [s |-> IF del THEN y ELSE x, o |-> p]
    BY Zenon DEF OutputAdded
  <2>5. r.s = (IF del THEN y ELSE x) /\ r.o = p
    <3>1. r = new
      BY <1>1, <1>6
    <3> HIDE DEF new, del, y, x, p
    <3> QED
      BY <2>4, <3>1
  <2>6. /\ x \in StreamT /\ Fixed(s, x) /\ NoticesOnly(s, x) /\ Ring(x) /\ Grown(s, x)
        /\ (x.eos_out <=> s.eos_out) /\ ReadersOK(x) /\ OrderOK(x, sn)
        /\ \A c \in Channels : Onward(s.cl[c], x.cl[c])
        /\ n \in Nat /\ n <= Len(o.buf)
    BY <2>3 DEF OutAdd
  <2>7. b \in Seq(Byte) /\ b \in Seq({Owner} \X Nat)
    <3> HIDE DEF n
    <3> QED
      BY <1>4, <2>6, Part
  <2>8. e \in BOOLEAN /\ f \in BOOLEAN /\ (del => ~f)
    BY <1>4
  <2> HIDE DEF a, x, n, all, del, b, e, f, y, r, new, add, none
  <2>9. p \in OwnerT /\ p.taken = o.taken /\ p.buf = b /\ (p.posted <=> f)
    BY <1>2, <2>7, <2>8 DEF OwnerT
  <2> HIDE DEF p
  <2>10. x.access = "READ" /\ x.life = "live" /\ ~x.deleted /\ x.clients = s.clients
    BY <2>6 DEF Fixed
  <2>11. OwnerOK(x, p) /\ AddsOwn(x, p)
    BY <1>2, <2>6, <2>7, <2>9, <2>10 DEF OwnerOK, AddsOwn
  <2>12. Counted(x)
    BY <1>2, <1>3, <2>6, CountedKept
  <2>13. Body(x, p, sn)
    BY <2>6, <2>9, <2>11 DEF Body
  <2>14. Begins(o.taken, p.taken)
    BY <1>4, <2>9, BeginsSelf
  <2>15. CASE ~del
    <3>1. LifeOK(x, p)
      BY <2>10, <2>12 DEF LifeOK, LetsGo
    <3>2. Moves(s, o, x, p)
      BY <2>6, <2>10, <2>14 DEF Moves
    <3>3. r.s = x /\ r.o = p
      BY <2>5, <2>15
    <3> QED
      BY <2>13, <3>1, <3>2, <3>3, GoodIs DEF r
  <2>16. CASE del
    <3>1. ~p.posted
      BY <2>8, <2>9, <2>16
    <3>2. Good(y, p, sn)
      BY <2>9, <2>10, <2>11, <2>12, <2>13, <3>1, DeleteGood DEF y
    <3>3. SameView(x, y)
      BY <2>6, <2>10, <2>12, DeleteFacts DEF y
    <3>4. y.log = x.log /\ (y.eos_inp <=> x.eos_inp) /\ y.cl = x.cl /\ y.access = x.access
          /\ y.clients = x.clients
      BY <3>3 DEF SameView, BytesSame
    <3>5. Grown(s, y)
      BY <2>6, <3>4 DEF Grown
    <3>6. Moves(s, o, y, p)
      BY <2>6, <2>10, <2>14, <3>4, <3>5 DEF Moves
    <3>7. r.s = y /\ r.o = p
      BY <2>5, <2>16
    <3> QED
      BY <3>2, <3>6, <3>7 DEF r
  <2> QED
    BY <2>15, <2>16
<1> QED
  BY <1>5, <1>6

\* Either callback.
LEMMA CallbackFacts ==
  ASSUME NEW s, NEW o, NEW sn \in [Sources -> Nat], Good(s, o, sn), s.life = "live", ~s.deleted
  PROVE  LET r == Callback(s, o)
         IN  Good(r.s, r.o, sn) /\ Moves(s, o, r.s, r.o)
<1>1. Body(s, o, sn) /\ Counted(s) /\ s.access # "none" /\ s \in StreamT
  BY GoodIs DEF LifeOK, Body
<1>2. s.access \in {"none", "READ", "WRITE"}
  BY <1>1, StreamFields
<1>3. CASE s.access = "READ"
  BY <1>1, <1>3, OutputFacts DEF Callback
<1>4. CASE s.access = "WRITE"
  BY <1>1, <1>4, InputFacts DEF Callback
<1> QED
  BY <1>1, <1>2, <1>3, <1>4

-----------------------------------------------------------------------------
(* Posted events.                                                          *)

\* An event that is not the last one was taken from the queue.
LEMMA CountedTail ==
  ASSUME NEW s \in StreamT, Counted(s), s.queue # <<>>, Head(s.queue) # "delete", NEW t,
         Fixed(s, t), t.queue = Tail(s.queue)
  PROVE  Counted(t)
<1> DEFINE q == s.queue
           v == Tail(q)
           m == Len(q)
<1>1. /\ m \in Nat \ {0} /\ DOMAIN q = 1 .. m /\ DOMAIN v = 1 .. m - 1
      /\ \A i \in DOMAIN v : v[i] = q[i + 1]
      /\ Head(q) = q[1] /\ v \in Seq({"data", "space", "delete"})
  BY StreamFields, TailPlaces
<1>2. Len(v) = m - 1
  <2> HIDE DEF v, m
  <2>1. Len(v) \in Nat /\ DOMAIN v = 1 .. Len(v)
    BY <1>1, LenProperties
  <2> QED
    BY <1>1, <2>1
<1>3. /\ \A i \in DOMAIN q : q[i] = "delete" => i = m /\ s.ref_cnt = 0
      /\ s.ref_cnt = 0 /\ s.life = "live" => q[m] = "delete"
      /\ s.life = "freed" => q = <<>>
  BY DEF Counted
<1>4. q[1] # "delete" /\ q # <<>>
  BY <1>1
<1>5. /\ t.queue = v /\ t.clients = s.clients /\ t.ref_cnt = s.ref_cnt /\ t.deleted = s.deleted
      /\ t.life = s.life /\ Clients(t) = Clients(s)
  BY DEF Fixed, Clients
<1> HIDE DEF q, v, m
<1>6. \A i \in DOMAIN v : v[i] = "delete" => i = Len(v) /\ t.ref_cnt = 0
  <2> SUFFICES ASSUME NEW i \in DOMAIN v, v[i] = "delete" PROVE i = Len(v) /\ t.ref_cnt = 0
    OBVIOUS
  <2>1. i \in 1 .. m - 1 /\ i + 1 \in DOMAIN q /\ q[i + 1] = "delete"
    BY <1>1
  <2>2. i + 1 = m /\ s.ref_cnt = 0
    BY <1>3, <2>1
  <2> QED
    BY <1>1, <1>2, <1>5, <2>1, <2>2
<1>7. t.ref_cnt = 0 /\ t.life = "live" => v # <<>> /\ v[Len(v)] = "delete"
  <2> SUFFICES ASSUME t.ref_cnt = 0, t.life = "live" PROVE v # <<>> /\ v[Len(v)] = "delete"
    OBVIOUS
  <2>1. q[m] = "delete" /\ m # 1
    BY <1>3, <1>4, <1>5
  <2>2. m - 1 \in DOMAIN v /\ (m - 1) + 1 = m
    BY <1>1, <2>1
  <2>3. v[m - 1] = q[m]
    BY <1>1, <2>2
  <2>4. v # <<>>
    BY <2>2, EmptySeq
  <2> QED
    BY <1>2, <2>1, <2>3, <2>4
<1>8. t.life # "freed"
  BY <1>3, <1>4, <1>5
<1> QED
  BY <1>5, <1>6, <1>7, <1>8 DEF Counted

\* A stream with events has been created.
LEMMA Created ==
  ASSUME NEW s, NEW o, LifeOK(s, o), s.queue # <<>> \/ s.access # "none" \/ s.clients # <<>>
  PROVE  s.life # "none" /\ s.access # "none" /\ Counted(s) /\ LetsGo(s, o)
<1>1. NoStream.queue = <<>> /\ NoStream.access = "none" /\ NoStream.clients = <<>>
  BY DEF NoStream
<1>2. s.life # "none"
  BY <1>1 DEF LifeOK
<1> QED
  BY <1>2 DEF LifeOK

\* A handler that takes an event, and no more, keeps the stream as it is.
LEMMA TakenGood ==
  ASSUME NEW s, NEW o, NEW sn, Good(s, o, sn), s.queue # <<>>, Head(s.queue) # "delete", NEW t \in StreamT,
         Fixed(s, t), BytesSame(s, t), t.buf_out = s.buf_out, t.cl = s.cl, t.queue = Tail(s.queue)
  PROVE  Good(t, o, sn) /\ SameView(s, t) /\ t.life = s.life /\ (t.deleted <=> s.deleted)
<1>1. Body(s, o, sn) /\ LifeOK(s, o)
  BY GoodIs
<1>2. s \in StreamT /\ o \in OwnerT /\ AddsOwn(s, o)
  BY <1>1 DEF Body
<1>3. s.life # "none" /\ s.access # "none" /\ Counted(s) /\ LetsGo(s, o)
  BY <1>1, Created
<1>4. Counted(t)
  BY <1>2, <1>3, CountedTail
<1>5. Used(t) = Used(s)
  BY DEF Used, BytesSame
<1>6. Ring(s) => Ring(t)
  BY <1>5 DEF Ring, BytesSame
<1>7. SameView(s, t)
  BY <1>5, <1>6 DEF SameView, Fixed
<1>8. Body(t, o, sn)
  BY <1>1, <1>2, <1>7, SameBody
<1>9. LifeOK(t, o)
  BY <1>3, <1>4 DEF LifeOK, LetsGo, Fixed
<1> QED
  BY <1>7, <1>8, <1>9, GoodIs DEF Fixed

Notified(s, o, sn, t) ==
  Good(t, o, sn) /\ SameView(s, t) /\ t.life = s.life /\ (t.deleted <=> s.deleted)

\* notify_data_available and notify_space_available take their events.
LEMMA NoticeFacts ==
  ASSUME NEW s, NEW o, NEW sn, Good(s, o, sn), s.queue # <<>>, Head(s.queue) # "delete"
  PROVE  /\ Notified(s, o, sn, [[s EXCEPT !.queue = Tail(@)] EXCEPT !.data_posted = FALSE])
         /\ Notified(s, o, sn, [[s EXCEPT !.queue = Tail(@)] EXCEPT !.space_posted = FALSE])
<1> DEFINE q == Tail(s.queue)
           w == [s EXCEPT !.queue = Tail(@)]
           x == [w EXCEPT !.data_posted = FALSE]
           y == [w EXCEPT !.space_posted = FALSE]
<1>1. s \in StreamT
  BY DEF Good
<1>2. q \in Seq({"data", "space", "delete"})
  BY <1>1, StreamFields, TailPlaces
<1>3. w = [s EXCEPT !.queue = q] /\ q = Tail(s.queue)
  OBVIOUS
<1> HIDE DEF q, w
<1>4. w \in StreamT /\ Fixed(s, w) /\ w.buf_out = s.buf_out /\ w.cl = s.cl /\ w.queue = q
  BY <1>1, <1>2, <1>3 DEF StreamT, Fixed
<1>5. BytesSame(s, w)
  BY <1>1, <1>2, <1>3 DEF StreamT, BytesSame
<1>6. /\ x \in StreamT /\ Fixed(w, x) /\ x.buf_out = w.buf_out /\ x.cl = w.cl /\ x.queue = w.queue
      /\ y \in StreamT /\ Fixed(w, y) /\ y.buf_out = w.buf_out /\ y.cl = w.cl /\ y.queue = w.queue
  BY <1>4 DEF StreamT, Fixed
<1>7. BytesSame(w, x) /\ BytesSame(w, y)
  BY <1>4 DEF StreamT, BytesSame
<1> HIDE DEF x, y
<1>8. /\ Fixed(s, x) /\ BytesSame(s, x) /\ x.buf_out = s.buf_out /\ x.cl = s.cl /\ x.queue = Tail(s.queue)
      /\ Fixed(s, y) /\ BytesSame(s, y) /\ y.buf_out = s.buf_out /\ y.cl = s.cl /\ y.queue = Tail(s.queue)
  BY <1>3, <1>4, <1>5, <1>6, <1>7 DEF Fixed, BytesSame
<1>9. /\ Good(x, o, sn) /\ SameView(s, x) /\ x.life = s.life /\ (x.deleted <=> s.deleted)
      /\ Good(y, o, sn) /\ SameView(s, y) /\ y.life = s.life /\ (y.deleted <=> s.deleted)
  BY <1>6, <1>8, TakenGood
<1> QED
  BY <1>9 DEF Notified, x, y, w

\* delete_stream: the last event, of a stream that nobody uses.
LEMMA FreedGood ==
  ASSUME NEW s, NEW o, NEW sn, Good(s, o, sn), s.queue # <<>>, Head(s.queue) = "delete"
  PROVE  LET t == [[s EXCEPT !.queue = Tail(@)] EXCEPT !.life = "freed"]
         IN  Good(t, o, sn) /\ SameView(s, t) /\ (t.deleted <=> s.deleted)
<1> DEFINE q == Tail(s.queue)
           w == [s EXCEPT !.queue = Tail(@)]
           t == [w EXCEPT !.life = "freed"]
<1>1. Body(s, o, sn) /\ LifeOK(s, o)
  BY GoodIs
<1>2. s \in StreamT /\ o \in OwnerT /\ AddsOwn(s, o)
  BY <1>1 DEF Body
<1>3. s.life # "none" /\ s.access # "none" /\ Counted(s) /\ LetsGo(s, o)
  BY <1>1, Created
<1>4. /\ q \in Seq({"data", "space", "delete"}) /\ Len(s.queue) \in Nat \ {0}
      /\ DOMAIN s.queue = 1 .. Len(s.queue) /\ s.queue[1] = "delete"
      /\ DOMAIN q = 1 .. Len(s.queue) - 1
  BY <1>2, StreamFields, TailPlaces
<1>5. 1 \in DOMAIN s.queue
  BY <1>4
<1>6. Len(s.queue) = 1 /\ s.ref_cnt = 0
  BY <1>3, <1>4, <1>5 DEF Counted
<1>7. q = <<>>
  <2> HIDE DEF q
  <2>1. DOMAIN q = {}
    BY <1>4, <1>6
  <2>2. Len(q) = 0
    BY <1>4, <2>1, LenProperties
  <2> QED
    BY <1>4, <2>2, EmptySeq
<1>8. w = [s EXCEPT !.queue = q]
  OBVIOUS
<1> HIDE DEF q, w
<1>9. w \in StreamT /\ Fixed(s, w) /\ w.buf_out = s.buf_out /\ w.cl = s.cl /\ w.queue = q
  BY <1>2, <1>4, <1>8 DEF StreamT, Fixed
<1>10. BytesSame(s, w)
  BY <1>2, <1>4, <1>8 DEF StreamT, BytesSame
<1>11. /\ t \in StreamT /\ t.buf_out = w.buf_out /\ t.cl = w.cl /\ t.queue = w.queue
       /\ t.life = "freed" /\ t.access = w.access /\ t.deleted = w.deleted
       /\ t.clients = w.clients /\ t.ref_cnt = w.ref_cnt
  BY <1>9 DEF StreamT
<1>12. BytesSame(w, t)
  BY <1>9 DEF StreamT, BytesSame
<1> HIDE DEF t
<1>13. BytesSame(s, t) /\ t.clients = s.clients /\ t.deleted = s.deleted /\ t.ref_cnt = 0
       /\ t.access = s.access /\ t.queue = <<>> /\ t.cl = s.cl /\ t.buf_out = s.buf_out
  BY <1>6, <1>7, <1>9, <1>10, <1>11, <1>12 DEF BytesSame, Fixed
<1>14. Counted(t)
  <2>1. Clients(t) = Clients(s)
    BY <1>13 DEF Clients
  <2>2. DOMAIN t.queue = {}
    BY <1>13
  <2> QED
    BY <1>3, <1>6, <1>11, <1>13, <2>1, <2>2 DEF Counted
<1>15. Used(t) = Used(s)
  BY <1>13 DEF Used, BytesSame
<1>16. Ring(s) => Ring(t)
  BY <1>13, <1>15 DEF Ring, BytesSame
<1>17. SameView(s, t)
  BY <1>11, <1>13, <1>15, <1>16 DEF SameView
<1>18. Body(t, o, sn)
  BY <1>1, <1>2, <1>17, SameBody
<1>19. LifeOK(t, o)
  BY <1>3, <1>11, <1>13, <1>14 DEF LifeOK, LetsGo
<1> QED
  BY <1>13, <1>17, <1>18, <1>19, GoodIs DEF t, w

-----------------------------------------------------------------------------
(* Clients that come and go.                                               *)

\* A list and its elements.
LEMMA RangeOfList ==
  ASSUME NEW S, NEW q, Lists(q, S)
  PROVE  Range(q) = S
<1>1. ToSet(q) = S
  BY ListsCount
<1> QED
  BY <1>1, Zenon DEF ToSet, Range

\* A new first element of a list.
LEMMA ListsPrepend ==
  ASSUME NEW S, NEW q, Lists(q, S), NEW x, x \notin S
  PROVE  Lists(<<x>> \o q, S \cup {x}) /\ Len(<<x>> \o q) = Len(q) + 1
<1> DEFINE T == S \cup {x}
           p == <<x>>
           r == p \o q
<1>1. q \in Seq(T) /\ p \in Seq(T) /\ Len(q) \in Nat /\ Len(p) = 1 /\ p[1] = x
  <2>1. q \in Seq(S) /\ Len(q) \in Nat
    BY LenProperties DEF Lists
  <2>2. \A k \in 1 .. Len(q) : q[k] \in T
    BY <2>1, ElementOfSeq
  <2>3. q \in Seq(T)
    BY <2>1, <2>2, SeqWithin
  <2> QED
    BY <2>1, <2>3
<1> HIDE DEF p, T
<1>2. /\ r \in Seq(T) /\ Len(r) = Len(p) + Len(q)
      /\ \A i \in 1 .. Len(p) + Len(q) : r[i] = IF i <= Len(p) THEN p[i] ELSE q[i - Len(p)]
  BY <1>1, ConcatProperties
<1> HIDE DEF r
<1> DEFINE m == Len(q)
<1>3. m \in Nat /\ Len(r) = 1 + m /\ \A i \in 1 .. 1 + m : r[i] = IF i <= 1 THEN p[i] ELSE q[i - 1]
  BY <1>1, <1>2
<1>4. /\ q \in Seq(S) /\ \A i, j \in 1 .. m : q[i] = q[j] => i = j
      /\ \A y \in S : \E i \in 1 .. m : q[i] = y
      /\ \A i \in 1 .. m : q[i] \in S
  BY ElementOfSeq DEF Lists
<1> HIDE DEF m
<1>5. r[1] = x
  BY <1>1, <1>3
<1>6. \A i \in 1 .. 1 + m : i # 1 => i - 1 \in 1 .. m /\ r[i] = q[i - 1] /\ r[i] \in S
  BY <1>3, <1>4
<1>7. ASSUME NEW i \in 1 .. 1 + m, NEW j \in 1 .. 1 + m, r[i] = r[j] PROVE i = j
  <2>1. CASE i = 1 \/ j = 1
    BY <1>5, <1>6, <1>7, <2>1
  <2>2. CASE i # 1 /\ j # 1
    <3>1. i - 1 \in 1 .. m /\ j - 1 \in 1 .. m /\ q[i - 1] = q[j - 1]
      BY <1>6, <1>7, <2>2
    <3>2. i - 1 = j - 1
      BY <1>4, <3>1
    <3> QED
      BY <1>3, <3>2
  <2> QED
    BY <2>1, <2>2
<1>8. ASSUME NEW y \in T PROVE \E i \in 1 .. 1 + m : r[i] = y
  <2>1. CASE y = x
    BY <1>3, <1>5, <2>1
  <2>2. CASE y # x
    <3>1. PICK i \in 1 .. m : q[i] = y
      BY <1>4, <2>2 DEF T
    <3> DEFINE k == i + 1
    <3>2. k \in 1 .. 1 + m /\ k # 1 /\ k - 1 = i
      BY <1>3
    <3> HIDE DEF k
    <3>3. r[k] = y
      BY <1>6, <3>1, <3>2
    <3> QED
      BY <3>2, <3>3
  <2> QED
    BY <2>1, <2>2
<1>9. Lists(r, T)
  BY <1>2, <1>3, <1>7, <1>8 DEF Lists
<1> QED
  BY <1>3, <1>9 DEF r, p, T, m

\* An element leaves a list.
LEMMA UnlinkFacts ==
  ASSUME NEW q, Lists(q, Range(q)), NEW c
  PROVE  /\ Lists(Unlink(q, c), Range(q) \ {c}) /\ Range(Unlink(q, c)) = Range(q) \ {c}
         /\ c \in Range(q) => Len(Unlink(q, c)) = Len(q) - 1
<1>1. q \in Seq(Range(q)) /\ DOMAIN q = 1 .. Len(q)
  BY LenProperties DEF Lists
<1>2. CASE c \notin Range(q)
  <2>1. Unlink(q, c) = q /\ Range(q) \ {c} = Range(q)
    BY <1>2 DEF Unlink
  <2> QED
    BY <1>2, <2>1
<1>3. CASE c \in Range(q)
  <2> DEFINE k == LinkOf(q, c)
  <2>1. \E j \in DOMAIN q : q[j] = c
    BY <1>3, Zenon DEF Range
  <2>2. k \in DOMAIN q /\ q[k] = c
    BY <2>1, Zenon DEF LinkOf
  <2>3. Unlink(q, c) = RemoveAt(q, k)
    BY <1>3 DEF Unlink
  <2> HIDE DEF k
  <2>4. Lists(RemoveAt(q, k), Range(q) \ {q[k]}) /\ Len(RemoveAt(q, k)) = Len(q) - 1
    BY <1>1, <2>2, ListsRemove, Zenon
  <2>5. Lists(Unlink(q, c), Range(q) \ {c})
    BY <2>2, <2>3, <2>4
  <2> QED
    BY <2>3, <2>4, <2>5, RangeOfList
<1> QED
  BY <1>2, <1>3

\* A client with the record k, when the list is q and n references are held.
Member(s, c, k, q, n) == [s EXCEPT !.cl[c] = k, !.clients = q, !.ref_cnt = n]

MemberOK(s, c, k, q, n, t) ==
  /\ t \in StreamT /\ t.life = s.life /\ t.access = s.access /\ t.deleted = s.deleted
  /\ t.clients = q /\ t.ref_cnt = n /\ t.queue = s.queue
  /\ BytesSame(s, t) /\ t.buf_out = s.buf_out /\ Used(t) = Used(s) /\ (Ring(s) => Ring(t))
  /\ t.cl[c] = k /\ \A d \in Channels \ {c} : t.cl[d] = s.cl[d]

\* Its fields.
LEMMA MemberFacts ==
  ASSUME NEW s \in StreamT, NEW c \in Channels, NEW k \in ClientT, NEW q \in Seq(Channels), NEW n \in Nat
  PROVE  MemberOK(s, c, k, q, n, Member(s, c, k, q, n))
<1> DEFINE f == [s.cl EXCEPT ![c] = k]
           t == [s EXCEPT !.cl = f, !.clients = q, !.ref_cnt = n]
<1>1. Member(s, c, k, q, n) = t
  BY Zenon DEF Member
<1>2. f \in [Channels -> ClientT] /\ f[c] = k /\ \A d \in Channels \ {c} : f[d] = s.cl[d]
  BY StreamFields
<1> HIDE DEF f
<1>3. /\ t \in StreamT /\ t.life = s.life /\ t.access = s.access /\ t.deleted = s.deleted
      /\ t.clients = q /\ t.ref_cnt = n /\ t.queue = s.queue /\ t.buf_out = s.buf_out /\ t.cl = f
  BY <1>2 DEF StreamT
<1>4. BytesSame(s, t)
  BY <1>2 DEF StreamT, BytesSame
<1> HIDE DEF t
<1>5. Used(t) = Used(s)
  BY <1>3, <1>4 DEF Used, BytesSame
<1>6. Ring(s) => Ring(t)
  BY <1>3, <1>4, <1>5 DEF Ring, BytesSame
<1> QED
  BY <1>1, <1>2, <1>3, <1>4, <1>5, <1>6 DEF MemberOK

\* The new record of a client.
LEMMA NewClientFacts ==
  ASSUME NEW p \in Nat
  PROVE  LET k == NewClient(p)
         IN  /\ k \in ClientT /\ k.pos = p /\ k.start = p /\ k.got = <<>> /\ k.reads = <<>>
             /\ k.writes = <<>> /\ k.acked = {} /\ ~k.told
<1>1. \A S : <<>> \in Seq(S)
  BY EmptySeq
<1> QED
  BY <1>1 DEF NewClient, ClientT

\* The order of the channels when c has no record of its commands.
LEMMA MemberOrder ==
  ASSUME NEW s, NEW sn, OrderOK(s, sn), NEW t, NEW c, t.log = s.log,
         t.cl[c].writes = <<>>, t.cl[c].acked = {}, \A d \in Channels \ {c} : t.cl[d] = s.cl[d]
  PROVE  OrderOK(t, sn)
<1>1. ASSUME NEW d \in Channels PROVE Order(d, t.log, sn[d], t.cl[d].writes, t.cl[d].acked)
  <2>1. Order(d, s.log, sn[d], s.cl[d].writes, s.cl[d].acked)
    BY OrderIs
  <2>2. CASE d # c
    BY <2>1, <2>2
  <2>3. CASE d = c
    <3>1. QueuedOK(c, <<>>, t.log, sn[c])
      BY DEF QueuedOK
    <3> QED
      BY <2>1, <2>3, <3>1 DEF Order
  <2> QED
    BY <2>2, <2>3
<1> QED
  BY <1>1, OrderIs

\* A client has joined at the oldest byte of the ring.
Joins(s, c, t) ==
  /\ t.life = s.life /\ t.access = s.access /\ t.deleted = s.deleted
  /\ Clients(t) = Clients(s) \cup {c} /\ BytesSame(s, t) /\ Used(t) = Used(s)
  /\ t.cl[c] = NewClient(s.pos - Used(s))
  /\ \A d \in Channels \ {c} : t.cl[d] = s.cl[d]

\* create_client.
LEMMA JoinFacts ==
  ASSUME NEW s, NEW o, NEW sn, Body(s, o, sn), s.life = "live", s.access # "none", ~s.deleted,
         Counted(s), NEW c \in Channels \ Clients(s)
  PROVE  LET t == CreateClient(s, c)
         IN  Body(t, o, sn) /\ Counted(t) /\ Joins(s, c, t)
<1> DEFINE p == s.pos - Used(s)
           k == NewClient(p)
           q == <<c>> \o s.clients
           n == s.ref_cnt + 1
           t == Member(s, c, k, q, n)
<1>1. CreateClient(s, c) = t
  BY Zenon DEF CreateClient, Member
<1>2. s \in StreamT /\ o \in OwnerT /\ Ring(s) /\ ReadersOK(s) /\ OwnerOK(s, o) /\ OrderOK(s, sn)
      /\ AddsOwn(s, o)
  BY DEF Body
<1>3. p \in Nat /\ p <= s.pos /\ s.pos \in Nat /\ s.log \in Seq(Byte) /\ s.pos = Len(s.log)
  <2> DEFINE u == Used(s)
             e == s.pos
  <2>1. u \in Int /\ 0 <= u /\ e \in Nat /\ u <= e
    BY <1>2, UsedFree, BufLenNat, StreamFields DEF Ring
  <2> HIDE DEF u, e
  <2>2. e - u \in Nat /\ e - u <= e
    BY <2>1
  <2> QED
    BY <1>2, <2>1, <2>2, StreamFields DEF u, e, Ring
<1>4. /\ k \in ClientT /\ k.pos = p /\ k.start = p /\ k.got = <<>> /\ k.reads = <<>>
      /\ k.writes = <<>> /\ k.acked = {} /\ ~k.told
  <2> HIDE DEF p
  <2> QED
    BY <1>3, NewClientFacts
<1>5. Lists(q, Clients(s) \cup {c}) /\ Len(q) = Len(s.clients) + 1 /\ Range(q) = Clients(s) \cup {c}
  <2>1. Lists(s.clients, Clients(s))
    BY DEF Counted
  <2>2. Lists(q, Clients(s) \cup {c}) /\ Len(q) = Len(s.clients) + 1
    BY <2>1, ListsPrepend
  <2> HIDE DEF q
  <2> QED
    BY <2>2, RangeOfList
<1>6. q \in Seq(Channels) /\ n \in Nat /\ s.ref_cnt \in Nat
  <2>1. Clients(s) \cup {c} \subseteq Channels
    BY <1>2, ClientsOf
  <2>2. q \in Seq(Clients(s) \cup {c})
    BY <1>5 DEF Lists
  <2> HIDE DEF q
  <2>3. \A i \in 1 .. Len(q) : q[i] \in Channels
    BY <2>1, <2>2, ElementOfSeq
  <2>4. q \in Seq(Channels)
    BY <2>2, <2>3, SeqWithin
  <2> QED
    BY <1>2, <2>4, StreamFields
<1>7. MemberOK(s, c, k, q, n, t)
  <2> HIDE DEF k, q, n
  <2> QED
    BY <1>2, <1>4, <1>6, MemberFacts
<1> HIDE DEF t
<1>8. /\ t \in StreamT /\ t.life = s.life /\ t.access = s.access /\ t.deleted = s.deleted
      /\ t.clients = q /\ t.ref_cnt = n /\ t.queue = s.queue
      /\ BytesSame(s, t) /\ t.buf_out = s.buf_out /\ Used(t) = Used(s) /\ Ring(t)
      /\ t.cl[c] = k /\ \A d \in Channels \ {c} : t.cl[d] = s.cl[d]
  BY <1>2, <1>7 DEF MemberOK
<1>9. Clients(t) = Clients(s) \cup {c}
  BY <1>5, <1>8 DEF Clients
<1>10. Joins(s, c, t)
  BY <1>8, <1>9 DEF Joins
<1>11. Counted(t)
  <2>1. n = Len(q) + (IF t.deleted THEN 0 ELSE 1) /\ n # 0
    <3> DEFINE l == Len(s.clients)
               m == s.ref_cnt
    <3>1. l \in Nat /\ m \in Nat /\ m = l + 1 /\ Len(q) = l + 1 /\ n = m + 1
      BY <1>2, <1>5, StreamFields, LenProperties DEF Counted
    <3>2. (IF t.deleted THEN 0 ELSE 1) = 1
      BY <1>8
    <3> HIDE DEF l, m, n, q
    <3> QED
      BY <3>1, <3>2
  <2>2. \A i \in DOMAIN t.queue : t.queue[i] # "delete"
    <3>1. s.ref_cnt > 0
      BY <1>2, Referenced
    <3> QED
      BY <1>2, <1>8, <3>1, CountedQueue, NoticesAre
  <2> HIDE DEF n, q
  <2> QED
    BY <1>5, <1>8, <1>9, <2>1, <2>2 DEF Counted
<1>12. ReadersOK(t)
  <2>1. t.pos = s.pos /\ t.log = s.log /\ Used(t) = Used(s) /\ (t.eos_inp <=> s.eos_inp)
    BY <1>8 DEF BytesSame
  <2>2. \A m : (ReaderOK(s, m) => ReaderOK(t, m)) /\ (NothingFor(s, m) => NothingFor(t, m))
    BY <2>1 DEF ReaderOK, NothingFor
  <2>3. ReaderOK(s, k)
    <3>1. SubSeq(s.log, p + 1, p) \in Seq(Byte) /\ Len(SubSeq(s.log, p + 1, p)) = p - p
      <4> HIDE DEF p
      <4> QED
        BY <1>3, Part
    <3>2. SubSeq(s.log, p + 1, p) = <<>>
      BY <1>3, <3>1, EmptySeq
    <3>3. p + Len(<<>>) = p /\ s.pos - Used(s) <= p
      BY <1>3
    <3> HIDE DEF p
    <3> QED
      BY <1>3, <1>4, <3>2, <3>3 DEF ReaderOK
  <2>4. NothingFor(s, k)
    BY <1>4 DEF NothingFor
  <2> SUFFICES ASSUME t.access = "READ", NEW d \in Clients(t)
               PROVE  ReaderOK(t, t.cl[d]) /\ NothingFor(t, t.cl[d])
    BY DEF ReadersOK
  <2>5. CASE d = c
    BY <1>8, <2>2, <2>3, <2>4, <2>5
  <2>6. CASE d # c
    <3>1. d \in Clients(s) /\ d \in Channels
      BY <1>2, <1>9, <2>6, ClientsOf
    <3>2. ReaderOK(s, s.cl[d]) /\ NothingFor(s, s.cl[d])
      BY <1>2, <1>8, <3>1 DEF ReadersOK
    <3> QED
      BY <1>8, <2>2, <2>6, <3>1, <3>2
  <2> QED
    BY <2>5, <2>6
<1>13. OrderOK(t, sn)
  <2>1. t.log = s.log /\ t.cl[c].writes = <<>> /\ t.cl[c].acked = {}
    BY <1>4, <1>8 DEF BytesSame
  <2> QED
    BY <1>2, <1>8, <2>1, MemberOrder
<1>14. OwnerOK(t, o) /\ AddsOwn(t, o)
  BY <1>2, <1>8 DEF OwnerOK, AddsOwn, BytesSame
<1>15. Body(t, o, sn)
  BY <1>2, <1>8, <1>12, <1>13, <1>14 DEF Body
<1> QED
  BY <1>1, <1>10, <1>11, <1>15

\* A client has left.
Leaves(s, c, t) ==
  /\ t.access = s.access /\ (t.deleted <=> s.deleted)
  /\ t.log = s.log /\ (t.eos_inp <=> s.eos_inp) /\ (t.eos_out <=> s.eos_out)
  /\ Clients(t) = Clients(s) \ {c} /\ \A d \in Channels \ {c} : t.cl[d] = s.cl[d]

\* delete_client.
LEMMA LeaveFacts ==
  ASSUME NEW s, NEW o, NEW sn, Good(s, o, sn), NEW c \in Clients(s)
  PROVE  LET t == DeleteClient(s, c)
         IN  Good(t, o, sn) /\ Leaves(s, c, t)
<1> DEFINE k == NewClient(0)
           q == Unlink(s.clients, c)
           f == [s.cl EXCEPT ![c] = k]
           x == [s EXCEPT !.clients = q, !.cl = f]
           y == Release(x)
           z == AdvanceStreamBuffer(y)
           t == IF y.ref_cnt > 0 /\ s.access = "READ" THEN z ELSE y
<1>1. DeleteClient(s, c) = t
  <2> DEFINE w == [s EXCEPT !.clients = Unlink(@, c), !.cl[c] = NewClient(0)]
  <2>1. w = x
    BY Zenon
  <2>2. DeleteClient(s, c) = IF Release(w).ref_cnt > 0 /\ s.access = "READ"
                             THEN AdvanceStreamBuffer(Release(w)) ELSE Release(w)
    BY Zenon DEF DeleteClient
  <2> HIDE DEF w, x
  <2> QED
    BY <2>1, <2>2, Zenon
<1>2. /\ Body(s, o, sn) /\ LifeOK(s, o) /\ s \in StreamT /\ o \in OwnerT /\ Ring(s) /\ ReadersOK(s)
      /\ OwnerOK(s, o) /\ OrderOK(s, sn) /\ AddsOwn(s, o)
  BY GoodIs DEF Body
<1>3. s.clients # <<>>
  <2>1. Range(<<>>) = {}
    BY DEF Range
  <2> QED
    BY <2>1 DEF Clients
<1>4. s.life # "none" /\ s.access # "none" /\ Counted(s) /\ LetsGo(s, o)
  BY <1>2, <1>3, Created
<1>5. s.ref_cnt > 0 /\ s.life = "live"
  BY <1>2, <1>4, Referenced
<1>6. s.queue \in Seq(Notice)
  BY <1>2, <1>4, <1>5, CountedQueue
<1>7. c \in Channels /\ Clients(s) \subseteq Channels
  BY <1>2, ClientsOf
<1>8. /\ k \in ClientT /\ k.writes = <<>> /\ k.acked = {}
  BY NewClientFacts
<1>9. /\ Lists(q, Clients(s) \ {c}) /\ Range(q) = Clients(s) \ {c} /\ Len(q) = Len(s.clients) - 1
  BY <1>4, UnlinkFacts DEF Counted, Clients
<1>10. q \in Seq(Channels)
  <2>1. q \in Seq(Clients(s) \ {c})
    BY <1>9 DEF Lists
  <2> HIDE DEF q
  <2>2. \A i \in 1 .. Len(q) : q[i] \in Channels
    BY <1>7, <2>1, ElementOfSeq
  <2> QED
    BY <2>1, <2>2, SeqWithin
<1>11. f \in [Channels -> ClientT] /\ f[c] = k /\ \A d \in Channels \ {c} : f[d] = s.cl[d]
  BY <1>2, <1>7, <1>8, StreamFields
<1> HIDE DEF k, q, f
<1>12. /\ x \in StreamT /\ x.life = s.life /\ x.access = s.access /\ x.deleted = s.deleted
       /\ x.clients = q /\ x.ref_cnt = s.ref_cnt /\ x.queue = s.queue /\ x.buf_out = s.buf_out
       /\ x.cl = f
  BY <1>2, <1>10, <1>11 DEF StreamT
<1>13. BytesSame(s, x)
  BY <1>2, <1>10, <1>11 DEF StreamT, BytesSame
<1> HIDE DEF x
<1>14. Used(x) = Used(s)
  BY <1>12, <1>13 DEF Used, BytesSame
<1>15. Ring(x)
  BY <1>2, <1>12, <1>13, <1>14 DEF Ring, BytesSame
<1>16. Clients(x) = Clients(s) \ {c}
  BY <1>9, <1>12 DEF Clients
<1>17. ReadersOK(x)
  <2>1. x.pos = s.pos /\ x.log = s.log /\ Used(x) = Used(s) /\ (x.eos_inp <=> s.eos_inp)
    BY <1>13, <1>14 DEF BytesSame
  <2>2. \A m : (ReaderOK(s, m) => ReaderOK(x, m)) /\ (NothingFor(s, m) => NothingFor(x, m))
    BY <2>1 DEF ReaderOK, NothingFor
  <2> SUFFICES ASSUME x.access = "READ", NEW d \in Clients(x)
               PROVE  ReaderOK(x, x.cl[d]) /\ NothingFor(x, x.cl[d])
    BY DEF ReadersOK
  <2>3. d \in Clients(s) /\ d \in Channels \ {c}
    BY <1>7, <1>16
  <2>4. ReaderOK(s, s.cl[d]) /\ NothingFor(s, s.cl[d])
    BY <1>2, <1>12, <2>3 DEF ReadersOK
  <2>5. x.cl[d] = s.cl[d]
    BY <1>11, <1>12, <2>3
  <2> QED
    BY <2>2, <2>4, <2>5
<1>18. OrderOK(x, sn)
  <2>1. x.log = s.log /\ x.cl[c].writes = <<>> /\ x.cl[c].acked = {}
        /\ \A d \in Channels \ {c} : x.cl[d] = s.cl[d]
    BY <1>8, <1>11, <1>12, <1>13 DEF BytesSame
  <2> QED
    BY <1>2, <2>1, MemberOrder
<1>19. OwnerOK(x, o) /\ AddsOwn(x, o)
  BY <1>2, <1>12, <1>13, <1>14 DEF OwnerOK, AddsOwn, BytesSame
<1>20. Body(x, o, sn)
  BY <1>2, <1>12, <1>15, <1>17, <1>18, <1>19 DEF Body
<1>21. OnlyRefs(x, y) /\ Counted(y)
  <2>1. Lists(x.clients, Clients(x))
    BY <1>9, <1>12, <1>16
  <2>2. x.ref_cnt = Len(x.clients) + (IF x.deleted THEN 0 ELSE 1) + 1
    <3> DEFINE l == Len(s.clients)
               d == IF s.deleted THEN 0 ELSE 1
               m == Len(x.clients)
    <3>1. l \in Nat /\ d \in Nat /\ s.ref_cnt = l + d
      BY <1>2, <1>4, StreamFields, LenProperties DEF Counted
    <3>2. x.ref_cnt = l + d /\ m = l - 1 /\ (IF x.deleted THEN 0 ELSE 1) = d
      BY <1>9, <1>12, <3>1
    <3> HIDE DEF l, d, m
    <3>3. x.ref_cnt = m + d + 1
      BY <3>1, <3>2
    <3> QED
      BY <3>2, <3>3 DEF m
  <2>3. x.life = "live" /\ x.queue \in Seq(Notice)
    BY <1>5, <1>6, <1>12
  <2> QED
    BY <1>12, <2>1, <2>2, <2>3, ReleaseFacts
<1> HIDE DEF y
<1>22. SameView(x, y) /\ y.life = "live" /\ y.access = s.access /\ y.deleted = s.deleted /\ y \in StreamT
  BY <1>5, <1>12, <1>21 DEF OnlyRefs, SameView
<1>23. Body(y, o, sn)
  BY <1>2, <1>19, <1>20, <1>22, SameBody
<1>24. LetsGo(y, o)
  BY <1>4, <1>22 DEF LetsGo
<1>25. Good(y, o, sn)
  BY <1>4, <1>21, <1>22, <1>23, <1>24, GoodIs DEF LifeOK
<1>26. Leaves(s, c, y)
  <2>1. y.log = x.log /\ (y.eos_inp <=> x.eos_inp) /\ (y.eos_out <=> x.eos_out) /\ y.cl = x.cl
        /\ Clients(y) = Clients(x)
    BY <1>22 DEF SameView, BytesSame, Clients
  <2> QED
    BY <1>11, <1>12, <1>13, <1>16, <1>22, <2>1 DEF Leaves, BytesSame
<1>27. CASE y.ref_cnt > 0 /\ s.access = "READ"
  <2>1. Readable(y)
    BY <1>22, <1>23, <1>27 DEF Readable, Body, ReadersOK
  <2>2. ReadStep(y, z) /\ Readable(z) /\ z.cl = y.cl
    BY <2>1, AdvanceFacts
  <2> HIDE DEF z
  <2>3. /\ z \in StreamT /\ Ring(z) /\ Fixed(y, z) /\ z.pos = y.pos /\ z.log = y.log
        /\ (z.eos_inp <=> y.eos_inp) /\ (z.eos_out <=> y.eos_out) /\ NoticesOnly(y, z)
    BY <2>2 DEF ReadStep, Readable
  <2>4. Clients(z) = Clients(y) /\ z.access = "READ" /\ z.deleted = y.deleted /\ z.life = "live"
    BY <1>22, <1>27, <2>3 DEF Fixed, Clients
  <2>5. ReadersOK(z)
    <3>1. \A d \in Clients(z) : ReaderOK(z, z.cl[d])
      BY <2>2 DEF Readable
    <3>2. \A m : NothingFor(y, m) => NothingFor(z, m)
      BY <2>3 DEF NothingFor
    <3>3. \A d \in Clients(y) : NothingFor(y, y.cl[d])
      BY <1>22, <1>23, <1>27 DEF Body, ReadersOK
    <3> QED
      BY <2>2, <2>4, <3>1, <3>2, <3>3 DEF ReadersOK
  <2>6. OwnerOK(z, o) /\ OrderOK(z, sn) /\ AddsOwn(z, o)
    <3>1. OwnerOK(y, o) /\ OrderOK(y, sn) /\ AddsOwn(y, o)
      BY <1>23 DEF Body
    <3>2. o.taken = <<>> /\ ~y.eos_out
      BY <1>22, <1>27, <3>1 DEF OwnerOK
    <3>3. OwnerOK(z, o) /\ AddsOwn(z, o)
      BY <1>22, <1>27, <2>3, <2>4, <3>1, <3>2 DEF OwnerOK, AddsOwn
    <3>4. OrderOK(z, sn)
      BY <2>2, <2>3, <3>1 DEF OrderOK
    <3> QED
      BY <3>3, <3>4
  <2>7. Counted(z)
    BY <1>21, <1>22, <1>27, <2>3, CountedKept
  <2>8. Good(z, o, sn)
    <3>1. Body(z, o, sn)
      BY <1>2, <2>3, <2>5, <2>6 DEF Body
    <3>2. LifeOK(z, o)
      BY <1>24, <2>4, <2>7 DEF LifeOK, LetsGo
    <3> QED
      BY <3>1, <3>2, GoodIs
  <2>9. Leaves(s, c, z)
    BY <1>26, <1>27, <2>2, <2>3, <2>4 DEF Leaves
  <2>10. t = z
    BY <1>27
  <2> QED
    BY <1>1, <2>8, <2>9, <2>10
<1>28. CASE ~(y.ref_cnt > 0 /\ s.access = "READ")
  <2>1. t = y
    BY <1>28
  <2> HIDE DEF t
  <2> QED
    BY <1>1, <1>25, <1>26, <2>1
<1> QED
  BY <1>27, <1>28

\* A stream that its owner has just created.
Fresh(s, o, sn) ==
  Body(s, o, sn) /\ s.life = "live" /\ s.access # "none" /\ ~s.deleted /\ Counted(s)

\* One step of the loop over the subscriptions, and what the first i of them do.
\* p holds the owner, the bytes sent and the subscriptions.
JoinOne(p, s, c) == CreateClient(s, c)

Subscribed(p) == Lists(p.q, Range(p.q)) /\ Range(p.q) \subseteq Channels

JoinedTo(p, i, s, x) ==
  Fresh(s, p.o, p.sn) /\ Clients(s) = {} /\ Subscribed(p) =>
    /\ Fresh(x, p.o, p.sn) /\ x.access = s.access /\ BytesSame(s, x) /\ Used(x) = Used(s)
    /\ Clients(x) = {p.q[j] : j \in 1 .. i}
    /\ \A c \in Clients(x) : x.cl[c] = NewClient(s.pos - Used(s))

\* One more subscriber is connected.
LEMMA JoinedMore ==
  ASSUME NEW p, NEW i \in 1 .. Len(p.q), NEW s, NEW x, JoinedTo(p, i - 1, s, x)
  PROVE  JoinedTo(p, i, s, JoinOne(p, x, p.q[i]))
<1> DEFINE q == p.q
           c == q[i]
           y == JoinOne(p, x, p.q[i])
           k == NewClient(s.pos - Used(s))
<1>1. SUFFICES ASSUME Fresh(s, p.o, p.sn), Clients(s) = {}, Subscribed(p)
      PROVE  /\ Fresh(y, p.o, p.sn) /\ y.access = s.access /\ BytesSame(s, y) /\ Used(y) = Used(s)
             /\ Clients(y) = {p.q[j] : j \in 1 .. i}
             /\ \A d \in Clients(y) : y.cl[d] = NewClient(s.pos - Used(s))
  BY DEF JoinedTo
<1>2. /\ Fresh(x, p.o, p.sn) /\ x.access = s.access /\ BytesSame(s, x) /\ Used(x) = Used(s)
      /\ Clients(x) = {q[j] : j \in 1 .. i - 1}
      /\ \A d \in Clients(x) : x.cl[d] = k
  BY <1>1 DEF JoinedTo
<1>3. /\ q \in Seq(Range(q)) /\ \A j, l \in 1 .. Len(q) : q[j] = q[l] => j = l
      /\ Len(q) \in Nat /\ Range(q) \subseteq Channels
  BY <1>1, LenProperties DEF Subscribed, Lists
<1>4. c \in Range(q)
  BY <1>3, ElementOfSeq
<1>5. c \notin Clients(x)
  <2>1. ASSUME NEW j \in 1 .. i - 1 PROVE q[j] # c
    <3>1. j \in 1 .. Len(q) /\ j # i
      BY <1>3
    <3> QED
      BY <1>3, <3>1
  <2> QED
    BY <1>2, <2>1
<1>6. c \in Channels \ Clients(x)
  BY <1>3, <1>4, <1>5
<1>7. y = CreateClient(x, c)
  BY DEF JoinOne
<1>8. Body(y, p.o, p.sn) /\ Counted(y) /\ Joins(x, c, y)
  BY <1>2, <1>6, <1>7, JoinFacts DEF Fresh
<1> HIDE DEF y, c, k
<1>9. /\ y.life = x.life /\ y.access = x.access /\ y.deleted = x.deleted
      /\ Clients(y) = Clients(x) \cup {c} /\ BytesSame(x, y) /\ Used(y) = Used(x)
      /\ y.cl[c] = NewClient(x.pos - Used(x))
      /\ \A d \in Channels \ {c} : y.cl[d] = x.cl[d]
  BY <1>8 DEF Joins
<1>10. BytesSame(s, y) /\ x.pos = s.pos
  BY <1>2, <1>9 DEF BytesSame
<1>11. y.cl[c] = k
  BY <1>2, <1>9, <1>10 DEF k
<1>12. Fresh(y, p.o, p.sn)
  BY <1>2, <1>8, <1>9 DEF Fresh
<1>13. Clients(y) = {q[j] : j \in 1 .. i}
  <2>1. \A j \in 1 .. i : j \in 1 .. i - 1 \/ j = i
    OBVIOUS
  <2>2. i \in 1 .. i /\ \A j \in 1 .. i - 1 : j \in 1 .. i
    OBVIOUS
  <2>3. Clients(y) = {q[j] : j \in 1 .. i - 1} \cup {q[i]}
    BY <1>2, <1>9 DEF c
  <2> QED
    BY <2>1, <2>2, <2>3
<1>14. \A d \in Clients(x) : d \in Channels
  BY <1>2, ClientsOf DEF Fresh, Body
<1>15. ASSUME NEW d \in Clients(y) PROVE y.cl[d] = k
  <2>1. CASE d = c
    BY <1>11, <2>1
  <2>2. CASE d # c
    BY <1>2, <1>9, <1>14, <2>2
  <2> QED
    BY <2>1, <2>2
<1> QED
  BY <1>2, <1>9, <1>10, <1>12, <1>13, <1>15 DEF k

Joining == INSTANCE ProofLemmas WITH Op <- JoinOne, Rel <- JoinedTo

\* Every client of the new stream begins where the stream does.
AllJoined(s, o, sn, t) ==
  /\ Fresh(t, o, sn) /\ t.access = s.access /\ BytesSame(s, t) /\ Used(t) = Used(s)
  /\ \A c \in Clients(t) : t.cl[c] = NewClient(s.pos - Used(s))

\* The loop of virtual_stream_create over the subscriptions q.
LEMMA JoinAllFacts ==
  ASSUME NEW s, NEW o, NEW sn, NEW q, Fresh(s, o, sn), Clients(s) = {},
         Lists(q, Range(q)), Range(q) \subseteq Channels
  PROVE  AllJoined(s, o, sn, CreateClients(s, q))
<1> DEFINE p == [o |-> o, sn |-> sn, q |-> q]
           t == Joining!Fold(p, s, p.q)
<1>1. CreateClients(s, q) = Joining!Fold(p, s, q)
  BY Zenon DEF CreateClients, JoinOne, Joining!Fold, FoldLeft, Joining!FoldLeft, MapThenFoldSet,
               Joining!MapThenFoldSet, Max, Joining!Max
<1>2. p.o = o /\ p.sn = sn /\ p.q = q
  OBVIOUS
<1> HIDE DEF p
<1>3. JoinedTo(p, 0, s, s)
  <2>1. {p.q[j] : j \in 1 .. 0} = {}
    OBVIOUS
  <2> QED
    BY <2>1 DEF JoinedTo, BytesSame
<1>4. ASSUME NEW i \in 1 .. Len(p.q), NEW x, JoinedTo(p, i - 1, s, x)
      PROVE  JoinedTo(p, i, s, JoinOne(p, x, p.q[i]))
  BY <1>4, JoinedMore
<1>5. p.q \in Seq(Range(q))
  BY <1>2 DEF Lists
<1>6. JoinedTo(p, Len(p.q), s, t)
  <2> DEFINE r == p.q
  <2>1. r \in Seq(Range(q)) /\ \A i \in 1 .. Len(r) : \A x : JoinedTo(p, i - 1, s, x) => JoinedTo(p, i, s, JoinOne(p, x, r[i]))
    BY <1>4, <1>5
  <2> HIDE DEF r
  <2>2. JoinedTo(p, Len(r), s, Joining!Fold(p, s, r))
    BY <1>3, <2>1, Joining!FoldKeeps
  <2> QED
    BY <2>2 DEF r
<1>7. CreateClients(s, q) = t
  BY <1>1, <1>2
<1> HIDE DEF t
<1>8. Subscribed(p)
  BY <1>2 DEF Subscribed
<1> QED
  BY <1>2, <1>6, <1>7, <1>8 DEF JoinedTo, AllJoined

-----------------------------------------------------------------------------
(* The beginning.                                                          *)

\* The fields of a stream that does not exist.
LEMMA NoStreamFacts ==
  /\ NoStream \in StreamT
  /\ NoStream.life = "none" /\ NoStream.access = "none" /\ NoStream.ref_cnt = 0
  /\ ~NoStream.deleted /\ NoStream.clients = <<>> /\ NoStream.pos = 0
  /\ NoStream.buf_inp = 0 /\ NoStream.buf_out = 0 /\ ~NoStream.eos_inp /\ ~NoStream.eos_out
  /\ NoStream.queue = <<>> /\ NoStream.log = <<>>
  /\ \A c \in Channels : NoStream.cl[c] = NewClient(0)
<1> DEFINE f == [c \in Channels |-> NewClient(0)]
           b == [i \in 0 .. Size |-> <<>>]
<1>1. f \in [Channels -> ClientT] /\ \A c \in Channels : f[c] = NewClient(0)
  <2>1. NewClient(0) \in ClientT
    BY NewClientFacts
  <2> QED
    BY <2>1
<1>2. b \in [0 .. Size -> Byte \cup {<<>>}]
  OBVIOUS
<1>3. \A S : <<>> \in Seq(S)
  BY EmptySeq
<1>4. 0 \in 0 .. Size
  BY BufLenNat
<1>5. NoStream = [life |-> "none", access |-> "none", ref_cnt |-> 0, deleted |-> FALSE,
                  clients |-> <<>>, pos |-> 0, buf |-> b,
                  buf_inp |-> 0, buf_out |-> 0, eos_inp |-> FALSE, eos_out |-> FALSE,
                  data_posted |-> FALSE, space_posted |-> FALSE, queue |-> <<>>,
                  cl |-> f, log |-> <<>>]
  BY DEF NoStream
<1> HIDE DEF f, b
<1> QED
  BY <1>1, <1>2, <1>3, <1>4, <1>5 DEF StreamT

\* A stream without bytes, clients or commands.
Untouched(s) ==
  /\ s \in StreamT /\ s.clients = <<>> /\ s.pos = 0 /\ s.log = <<>> /\ Used(s) = 0
  /\ ~s.deleted /\ ~s.eos_inp /\ ~s.eos_out /\ s.queue = <<>>
  /\ \A c \in Channels : s.cl[c] = NewClient(0)

\* Such a stream satisfies the invariant.
LEMMA UntouchedBody ==
  ASSUME NEW s, Untouched(s), NEW o \in OwnerT, o.taken = <<>>, o.buf = <<>>, NEW sn
  PROVE  Body(s, o, sn) /\ Clients(s) = {} /\ Lists(s.clients, Clients(s))
<1>1. Clients(s) = {}
  <2>1. Range(<<>>) = {}
    BY DEF Range
  <2> QED
    BY <2>1 DEF Untouched, Clients
<1>2. Ring(s)
  BY DEF Untouched, Ring
<1>3. ReadersOK(s) /\ AddsOwn(s, o)
  <2>1. <<>> \in Seq({Owner} \X Nat)
    BY EmptySeq
  <2> QED
    BY <1>1, <2>1 DEF ReadersOK, AddsOwn
<1>4. OwnerOK(s, o)
  <2>1. SubSeq(<<>>, 1, 0) = <<>>
    <3>1. <<>> \in Seq(Byte) /\ Len(<<>>) = 0
      BY EmptySeq
    <3>2. SubSeq(<<>>, 1, 0) \in Seq(Byte) /\ Len(SubSeq(<<>>, 1, 0)) = 0
      BY <3>1, FirstOf
    <3> QED
      BY <3>2, EmptySeq
  <2> QED
    BY <2>1 DEF Untouched, OwnerOK
<1>5. OrderOK(s, sn)
  <2>1. ASSUME NEW c \in Channels PROVE Order(c, s.log, sn[c], s.cl[c].writes, s.cl[c].acked)
    <3>1. s.log = <<>> /\ s.cl[c].writes = <<>> /\ s.cl[c].acked = {}
      BY NewClientFacts DEF Untouched
    <3>2. Rising(c, <<>>) /\ UpTo(c, <<>>, sn[c]) /\ QueuedOK(c, <<>>, <<>>, sn[c])
      BY DEF Rising, UpTo, QueuedOK
    <3> QED
      BY <3>1, <3>2 DEF Order
  <2> QED
    BY <2>1, OrderIs
<1>6. Lists(s.clients, Clients(s))
  BY <1>1, ListsEmpty DEF Untouched
<1> QED
  BY <1>1, <1>2, <1>3, <1>4, <1>5, <1>6 DEF Body, Untouched

\* A stream that does not exist is one.
LEMMA NoStreamUntouched == Untouched(NoStream)
<1>1. Used(NoStream) = 0
  BY NoStreamFacts, UsedFree
<1> QED
  BY <1>1, NoStreamFacts DEF Untouched

\* virtual_stream_create.
Opens(access, t) ==
  /\ t.access = access /\ ~t.deleted /\ t.log = <<>> /\ ~t.eos_inp /\ ~t.eos_out
  /\ \A c \in Clients(t) : t.cl[c] = NewClient(0)

Started(s, access) == [s EXCEPT !.life = "live", !.access = access, !.ref_cnt = 1]
Asking(o, access) == [o EXCEPT !.posted = access = "READ"]

OpenedOK(access, o, sn, t, p) ==
  Good(t, p, sn) /\ Opens(access, t) /\ p.taken = <<>> /\ o.taken = <<>>

\* The new stream, with the clients that had subscribed.
LEMMA CreateFacts ==
  ASSUME NEW s, NEW o, NEW sn, Good(s, o, sn), s.life = "none", NEW q, Lists(q, Range(q)),
         Range(q) \subseteq Channels, NEW access \in {"READ", "WRITE"}
  PROVE  OpenedOK(access, o, sn, CreateClients(Started(s, access), q), Asking(o, access))
<1> DEFINE x == [s EXCEPT !.life = "live", !.access = access, !.ref_cnt = 1]
           b == access = "READ"
           p == [o EXCEPT !.posted = b]
           t == CreateClients(x, q)
<1>1. s = NoStream /\ ~o.posted /\ o.prs /\ o.buf = <<>> /\ o \in OwnerT
  BY DEF Good, LifeOK
<1>2. o.taken = <<>>
  <2>1. s.access # "WRITE"
    BY <1>1, NoStreamFacts
  <2> QED
    BY <2>1 DEF Good, OwnerOK
<1>3. Untouched(s)
  BY <1>1, NoStreamUntouched
<1>4. /\ x \in StreamT /\ x.life = "live" /\ x.access = access /\ x.ref_cnt = 1
      /\ x.deleted = s.deleted /\ x.clients = s.clients /\ x.queue = s.queue /\ x.buf_out = s.buf_out
      /\ x.cl = s.cl
  BY <1>3 DEF Untouched, StreamT
<1>5. BytesSame(s, x)
  BY <1>3 DEF Untouched, StreamT, BytesSame
<1> HIDE DEF x
<1>6. Used(x) = Used(s)
  BY <1>4, <1>5 DEF Used, BytesSame
<1>7. Untouched(x)
  BY <1>3, <1>4, <1>5, <1>6 DEF Untouched, BytesSame
<1>8. p \in OwnerT /\ p.taken = <<>> /\ p.buf = <<>>
  <2>1. b \in BOOLEAN
    OBVIOUS
  <2> HIDE DEF b
  <2> QED
    BY <1>1, <1>2, <2>1 DEF OwnerT
<1> HIDE DEF p
<1>9. Body(x, p, sn) /\ Clients(x) = {} /\ Lists(x.clients, Clients(x))
  BY <1>7, <1>8, UntouchedBody
<1>10. Counted(x)
  <2>1. Len(x.clients) = 0 /\ ~x.deleted /\ DOMAIN x.queue = {}
    BY <1>7, EmptySeq DEF Untouched
  <2>2. 1 = 0 + (IF x.deleted THEN 0 ELSE 1)
    BY <2>1
  <2> QED
    BY <1>4, <1>9, <2>1, <2>2 DEF Counted
<1>11. Fresh(x, p, sn)
  BY <1>4, <1>7, <1>9, <1>10 DEF Fresh, Untouched
<1>12. /\ Fresh(t, p, sn) /\ t.access = x.access /\ BytesSame(x, t) /\ Used(t) = Used(x)
       /\ \A c \in Clients(t) : t.cl[c] = NewClient(x.pos - Used(x))
  <2>1. AllJoined(x, p, sn, t)
    BY <1>9, <1>11, JoinAllFacts
  <2> HIDE DEF t
  <2> QED
    BY <2>1, Zenon DEF AllJoined
<1> HIDE DEF t
<1>13. Opens(access, t)
  <2>1. x.pos - Used(x) = 0
    BY <1>7 DEF Untouched
  <2> QED
    BY <1>4, <1>7, <1>12, <2>1 DEF Opens, Untouched, Fresh, BytesSame
<1>14. Good(t, p, sn)
  <2>1. LifeOK(t, p)
    BY <1>12 DEF Fresh, LifeOK, LetsGo
  <2> QED
    BY <1>12, <2>1, GoodIs DEF Fresh
<1> QED
  BY <1>2, <1>8, <1>13, <1>14 DEF OpenedOK, Started, Asking, t, x, p, b

-----------------------------------------------------------------------------
(* Commands.                                                               *)

\* A command or a handler of a "READ" stream that its readers move on with.
LEMMA ReadStepGood ==
  ASSUME NEW s, NEW o, NEW sn, Good(s, o, sn), s.access = "READ", Clients(s) # {}, NEW t,
         ReadStep(s, t), Readable(t), \A c \in Clients(t) : NothingFor(t, t.cl[c])
  PROVE  Good(t, o, sn) /\ Moves(s, o, t, o)
<1>1. /\ Body(s, o, sn) /\ LifeOK(s, o) /\ s \in StreamT /\ o \in OwnerT /\ OwnerOK(s, o)
      /\ OrderOK(s, sn) /\ AddsOwn(s, o)
  BY GoodIs DEF Body
<1>2. Counted(s) /\ LetsGo(s, o) /\ s.life # "none"
  BY <1>1, Created
<1>3. s.ref_cnt > 0 /\ s.life = "live"
  BY <1>1, <1>2, Referenced
<1>4. /\ t \in StreamT /\ Fixed(s, t) /\ t.pos = s.pos /\ t.log = s.log
      /\ (t.eos_inp <=> s.eos_inp) /\ (t.eos_out <=> s.eos_out) /\ NoticesOnly(s, t)
      /\ Ring(t) /\ \A c \in Clients(t) : ReaderOK(t, t.cl[c])
  BY DEF ReadStep, Readable
<1>5. \A c \in Channels : Onward(s.cl[c], t.cl[c])
  BY DEF ReadStep
<1>6. Counted(t)
  BY <1>1, <1>2, <1>3, <1>4, CountedKept
<1>7. t.access = "READ" /\ t.life = "live" /\ (t.deleted <=> s.deleted) /\ t.clients = s.clients
  BY <1>3, <1>4 DEF Fixed
<1>8. ReadersOK(t) /\ AddsOwn(t, o)
  BY <1>1, <1>4, <1>7 DEF ReadersOK, AddsOwn
<1>9. OwnerOK(t, o)
  BY <1>1, <1>4, <1>7 DEF OwnerOK
<1>10. OrderOK(t, sn)
  <2>1. \A c \in Channels : t.cl[c].writes = s.cl[c].writes /\ t.cl[c].acked = s.cl[c].acked
    BY <1>5 DEF Onward
  <2> QED
    BY <1>1, <1>4, <2>1 DEF OrderOK
<1>11. LifeOK(t, o)
  BY <1>2, <1>6, <1>7 DEF LifeOK, LetsGo
<1>12. Body(t, o, sn)
  BY <1>1, <1>4, <1>8, <1>9, <1>10 DEF Body
<1>13. Grown(s, t)
  <2>1. Grown(s, s)
    BY <1>1, GrownSelf
  <2> QED
    BY <1>4, <2>1 DEF Grown
<1>14. Begins(o.taken, o.taken)
  BY <1>1, OwnerFields, BeginsSelf
<1>15. Moves(s, o, t, o)
  BY <1>5, <1>7, <1>13, <1>14 DEF Moves
<1> QED
  BY <1>11, <1>12, <1>15, GoodIs

\* command_read parks a read for which there is nothing.
LEMMA ParkReadGood ==
  ASSUME NEW s, NEW o, NEW sn, Good(s, o, sn), s.access = "READ", NEW c \in Clients(s),
         NEW size \in Nat \ {0}, s.cl[c].pos = s.pos, ~s.eos_inp
  PROVE  LET t == [s EXCEPT !.cl[c].reads = Append(@, size)]
         IN  Good(t, o, sn) /\ Moves(s, o, t, o)
<1> DEFINE r == Append(s.cl[c].reads, size)
           t == LessReads(s, c, r)
<1>1. [s EXCEPT !.cl[c].reads = Append(@, size)] = t
  BY Zenon DEF LessReads
<1>2. s \in StreamT /\ ReadersOK(s) /\ Ring(s) /\ c \in Channels
  BY ClientsOf DEF Good
<1>3. r \in Seq(Nat \ {0})
  BY <1>2, StreamFields, ClientFields, AppendProperties
<1>4. Readable(s)
  BY <1>2 DEF Readable, ReadersOK
<1> HIDE DEF r
<1>5. ReadStep(s, t) /\ Readable(t) /\ \A d \in Channels \ {c} : t.cl[d] = s.cl[d]
  BY <1>3, <1>4, LessReadsFacts
<1> HIDE DEF t
<1>6. t.pos = s.pos /\ (t.eos_inp <=> s.eos_inp) /\ t \in StreamT /\ Clients(t) = Clients(s)
  BY <1>5 DEF ReadStep, Fixed, Clients
<1>7. t.cl[c].pos = s.pos
  <2>1. Onward(s.cl[c], t.cl[c]) /\ ReaderOK(t, t.cl[c])
    BY <1>2, <1>5, <1>6 DEF ReadStep, Readable
  <2>2. t.cl[c].pos \in Nat /\ s.pos \in Nat
    BY <1>2, <1>6, StreamFields, ClientFields
  <2>3. s.pos <= t.cl[c].pos /\ t.cl[c].pos <= s.pos
    BY <1>6, <2>1 DEF Onward, ReaderOK
  <2> QED
    BY <2>2, <2>3
<1>8. ASSUME NEW d \in Clients(t) PROVE NothingFor(t, t.cl[d])
  <2>1. CASE d = c
    BY <1>6, <1>7, <2>1 DEF NothingFor
  <2>2. CASE d # c
    <3>1. t.cl[d] = s.cl[d] /\ NothingFor(s, s.cl[d])
      BY <1>2, <1>5, <1>6, <2>2, ClientsOf DEF ReadersOK
    <3> QED
      BY <1>6, <3>1 DEF NothingFor
  <2> QED
    BY <2>1, <2>2
<1> QED
  BY <1>1, <1>5, <1>8, ReadStepGood

\* command_read answers at once what it can.
LEMMA ReadGood ==
  ASSUME NEW s, NEW o, NEW sn, Good(s, o, sn), s.access = "READ", NEW c \in Clients(s),
         NEW size \in Nat \ {0}, ~(s.cl[c].pos = s.pos /\ ~s.eos_inp)
  PROVE  LET t == AdvanceStreamBuffer(SendReadReply(s, c, size))
         IN  Good(t, o, sn) /\ Moves(s, o, t, o)
<1> DEFINE x == SendReadReply(s, c, size)
           t == AdvanceStreamBuffer(x)
<1>1. s \in StreamT /\ ReadersOK(s) /\ Ring(s) /\ c \in Channels
  BY ClientsOf DEF Good
<1>2. Readable(s)
  BY <1>1 DEF Readable, ReadersOK
<1>3. /\ ReadStep(s, x) /\ Readable(x) /\ x.cl[c].reads = s.cl[c].reads
      /\ \A d \in Channels \ {c} : x.cl[d] = s.cl[d]
  BY <1>2, ReplyFacts
<1> HIDE DEF x
<1>4. ReadStep(x, t) /\ Readable(t) /\ t.cl = x.cl
  BY <1>3, AdvanceFacts
<1> HIDE DEF t
<1>5. ReadStep(s, t)
  BY <1>1, <1>3, <1>4, ReadStepTrans
<1>6. t.pos = s.pos /\ (t.eos_inp <=> s.eos_inp) /\ Clients(t) = Clients(s)
  BY <1>5 DEF ReadStep, Fixed, Clients
<1>7. s.cl[c].reads = <<>>
  BY <1>1 DEF ReadersOK, NothingFor
<1>8. ASSUME NEW d \in Clients(t) PROVE NothingFor(t, t.cl[d])
  <2>1. CASE d = c
    BY <1>3, <1>4, <1>7, <2>1 DEF NothingFor
  <2>2. CASE d # c
    <3>1. t.cl[d] = s.cl[d] /\ NothingFor(s, s.cl[d])
      BY <1>1, <1>3, <1>4, <1>6, <2>2, ClientsOf DEF ReadersOK
    <3> QED
      BY <1>6, <3>1 DEF NothingFor
  <2> QED
    BY <2>1, <2>2
<1>9. Good(t, o, sn) /\ Moves(s, o, t, o)
  BY <1>4, <1>5, <1>8, ReadStepGood
<1> QED
  BY <1>9 DEF t, x

\* A command of a "WRITE" stream that leaves its owner what it has.
LEMMA WriteStepGood ==
  ASSUME NEW s, NEW o, NEW sn, Good(s, o, sn), s.access = "WRITE", Clients(s) # {}, NEW t,
         WriteStep(s, t), NEW sm, OrderOK(t, sm)
  PROVE  Good(t, o, sm) /\ Moves(s, o, t, o)
<1>1. /\ Body(s, o, sn) /\ LifeOK(s, o) /\ s \in StreamT /\ o \in OwnerT /\ OwnerOK(s, o)
      /\ Ring(s)
  BY GoodIs DEF Body
<1>2. Counted(s) /\ LetsGo(s, o) /\ s.life # "none"
  BY <1>1, Created
<1>3. s.ref_cnt > 0 /\ s.life = "live"
  BY <1>1, <1>2, Referenced
<1>4. /\ t \in StreamT /\ Fixed(s, t) /\ NoticesOnly(s, t) /\ Ring(t)
      /\ t.pos - Used(t) = s.pos - Used(s) /\ (t.eos_out <=> s.eos_out) /\ Grown(s, t)
  BY DEF WriteStep
<1>5. Counted(t)
  BY <1>1, <1>2, <1>3, <1>4, CountedKept
<1>6. t.access = "WRITE" /\ t.life = "live" /\ (t.deleted <=> s.deleted) /\ t.clients = s.clients
  BY <1>3, <1>4 DEF Fixed
<1>7. ReadersOK(t) /\ AddsOwn(t, o)
  BY <1>6 DEF ReadersOK, AddsOwn
<1> DEFINE u == Used(s)
           v == Used(t)
           i == s.pos
           j == t.pos
<1>8. /\ u \in Int /\ v \in Int /\ 0 <= u /\ u <= i /\ i \in Nat /\ j \in Nat /\ j - v = i - u
      /\ i = Len(s.log) /\ j = Len(t.log) /\ s.log \in Seq(Byte) /\ t.log \in Seq(Byte)
  BY <1>1, <1>4, UsedFree, BufLenNat, StreamFields DEF Ring
<1>9. OwnerOK(t, o)
  <2>1. SubSeq(t.log, 1, t.pos - Used(t)) = SubSeq(s.log, 1, s.pos - Used(s))
    <3> DEFINE b == i - u
    <3>1. b \in Nat /\ b <= Len(s.log) /\ b = j - v
      <4> HIDE DEF u, v, i, j
      <4> QED
        BY <1>8
    <3>2. b <= Len(t.log) /\ \A n \in 1 .. b : t.log[n] = s.log[n]
      <4>1. /\ Len(s.log) <= Len(t.log) /\ \A n \in 1 .. Len(s.log) : t.log[n] = s.log[n]
            /\ Len(s.log) \in Nat /\ Len(t.log) \in Nat
        BY <1>4, <1>8, LenProperties DEF Grown
      <4> HIDE DEF b
      <4> QED
        BY <3>1, <4>1
    <3> HIDE DEF b
    <3>3. SubSeq(t.log, 0 + 1, b) = SubSeq(s.log, 0 + 1, b)
      <4>1. 0 \in Nat /\ 0 <= b
        BY <3>1
      <4> QED
        BY SMTT(40), <1>8, <3>1, <3>2, <4>1, PartSame
    <3>4. SubSeq(t.log, 1, b) = SubSeq(s.log, 1, b)
      <4>1. 0 + 1 = 1
        OBVIOUS
      <4> QED
        BY <3>3, <4>1, Zenon
    <3>5. t.pos - Used(t) = b /\ s.pos - Used(s) = b
      <4>1. s.pos - Used(s) = b
        BY Zenon DEF b
      <4> QED
        BY <1>4, <4>1, Zenon
    <3> QED
      BY <3>4, <3>5
  <2>2. t.eos_out => t.eos_inp /\ Used(t) = 0
    <3> SUFFICES ASSUME t.eos_out PROVE t.eos_inp /\ v = 0
      OBVIOUS
    <3>1. s.eos_inp /\ u = 0
      BY <1>1, <1>4 DEF OwnerOK
    <3>2. t.eos_inp /\ t.log = s.log
      BY <1>4, <3>1 DEF Grown
    <3>3. j = i
      BY <1>8, <3>2
    <3> HIDE DEF u, v, i, j
    <3> QED
      BY <1>8, <3>1, <3>2, <3>3
  <2> QED
    BY <1>1, <1>6, <2>1, <2>2 DEF OwnerOK
<1>10. Body(t, o, sm)
  BY <1>1, <1>4, <1>7, <1>9 DEF Body
<1>11. LifeOK(t, o)
  BY <1>2, <1>5, <1>6 DEF LifeOK, LetsGo
<1>12. Begins(o.taken, o.taken)
  BY <1>1, OwnerFields, BeginsSelf
<1>13. Moves(s, o, t, o)
  BY <1>4, <1>6, <1>12 DEF Moves
<1> QED
  BY <1>10, <1>11, <1>13, GoodIs

\* The new bytes of a channel.
Newest(c, n, k) == [i \in 1 .. k |-> <<c, n + i>>]

\* The bytes of a new write.
LEMMA NewestFacts ==
  ASSUME NEW c \in Channels, NEW n \in Nat, NEW k \in Nat
  PROVE  Newest(c, n, k) \in Seq(Byte) /\ Range(Newest(c, n, k)) \in SUBSET Byte
<1> DEFINE f == Newest(c, n, k)
<1>1. f \in [1 .. k -> Byte]
  BY DEF Newest, Byte, Sources
<1> HIDE DEF f
<1>2. f \in Seq(Byte)
  BY <1>1, SeqDef
<1>3. Range(f) \subseteq Byte
  BY <1>1 DEF Range
<1> QED
  BY <1>2, <1>3 DEF f

\* A queue of one write.
LEMMA OneWaits ==
  ASSUME NEW x \in Waiting
  PROVE  /\ Append(<<>>, x) \in Seq(Waiting) /\ Append(<<>>, x) # <<>> /\ Append(<<>>, x)[1] = x
         /\ DOMAIN Append(<<>>, x) = {1} /\ Tail(Append(<<>>, x)) = <<>>
<1> DEFINE q == Append(<<>>, x)
<1>1. <<>> \in Seq(Waiting) /\ Len(<<>>) = 0
  BY EmptySeq
<1>2. q \in Seq(Waiting) /\ DOMAIN q = 1 .. Len(<<>>) + 1 /\ q[Len(<<>>) + 1] = x
  BY <1>1, AppendPlaces
<1> HIDE DEF q
<1>3. DOMAIN q = {1} /\ q[1] = x
  BY <1>1, <1>2
<1>4. q # <<>>
  BY <1>3, EmptySeq
<1>5. Len(q) = 1
  <2>1. Len(q) \in Nat /\ DOMAIN q = 1 .. Len(q)
    BY <1>2, LenProperties
  <2> QED
    BY <1>3, <2>1
<1>6. Tail(q) = <<>>
  <2>1. Tail(q) \in Seq(Waiting) /\ DOMAIN Tail(q) = 1 .. Len(q) - 1
    BY <1>2, <1>4, TailPlaces
  <2> DEFINE v == Tail(q)
  <2>2. v \in Seq(Waiting) /\ DOMAIN v = {}
    BY <1>5, <2>1
  <2> HIDE DEF v
  <2>3. Len(v) = 0
    BY <2>2, LenProperties
  <2>4. v = <<>>
    BY <2>2, <2>3, EmptySeq
  <2> QED
    BY <2>4 DEF v
<1> QED
  BY <1>2, <1>3, <1>4, <1>6 DEF q

\* command_write and command_eos.
LEMMA WriteGood ==
  ASSUME NEW s, NEW o, NEW sn \in [Sources -> Nat], Good(s, o, sn), s.access = "WRITE",
         NEW c \in Clients(s), NEW k \in Nat, NEW eos \in BOOLEAN
  PROVE  LET t  == WriteOrPark(s, c, Newest(c, sn[c], k), eos)
             sm == [sn EXCEPT ![c] = @ + k]
         IN  Good(t, o, sm) /\ Moves(s, o, t, o)
<1> DEFINE n == sn[c]
           sm == [sn EXCEPT ![c] = n + k]
           data == Newest(c, n, k)
           all == Range(data)
           x == [data |-> data, all |-> all, eos |-> eos]
           w == s.cl[c].writes
           acked == s.cl[c].acked
           q == Append(w, x)
           t == WriteOrPark(s, c, data, eos)
<1>1. s \in StreamT /\ Ring(s) /\ OrderOK(s, sn) /\ c \in Channels
  BY ClientsOf DEF Good
<1>2. n \in Nat /\ sm[c] = n + k /\ \A d \in Channels \ {c} : sm[d] = sn[d]
  BY <1>1 DEF Sources
<1>3. data \in Seq(Byte) /\ all \in SUBSET Byte
  <2> HIDE DEF n
  <2> QED
    BY <1>1, <1>2, NewestFacts
<1>4. w \in Seq(Waiting) /\ acked \in SUBSET Byte /\ s.log \in Seq(Byte)
  BY <1>1, StreamFields, ClientFields
<1>5. x \in Waiting /\ x.data = data /\ x.all = all
  <2> HIDE DEF data, all
  <2> QED
    BY <1>3 DEF Waiting
<1>6. Order(c, s.log, n, w, acked)
  BY <1>1, OrderIs
<1>7. Order(c, s.log, sm[c], q, acked)
  <2>1. x.data = [i \in 1 .. k |-> <<c, n + i>>]
    BY <1>5, Zenon DEF Newest
  <2>2. \A i \in DOMAIN s.log : s.log[i] \in Byte
    BY <1>4, LenProperties, ElementOfSeq
  <2>3. x.all \subseteq Range(x.data)
    BY <1>5
  <2> HIDE DEF n, x, w, acked, sm
  <2>4. Order(c, s.log, n + k, q, acked)
    BY <1>2, <1>4, <1>5, <1>6, <2>1, <2>2, <2>3, ParkOrder
  <2> QED
    BY <1>2, <2>4
<1>8. OthersOrder(s, c, sm)
  <2>1. \A d \in Channels : Order(d, s.log, sn[d], s.cl[d].writes, s.cl[d].acked)
    BY <1>1, OrderIs
  <2> HIDE DEF sm
  <2> QED
    BY <1>2, <2>1 DEF OthersOrder
<1>9. sm \in [Sources -> Nat]
  <2> DEFINE h == n + k
  <2>1. h \in Nat
    BY <1>2
  <2> HIDE DEF h
  <2>2. [sn EXCEPT ![c] = h] \in [Sources -> Nat]
    BY <2>1
  <2> QED
    BY <2>2 DEF h
<1>10. w = s.cl[c].writes /\ acked = s.cl[c].acked /\ q = Append(w, x) /\ t = WriteOrPark(s, c, data, eos)
       /\ all = Range(data) /\ x = [data |-> data, all |-> all, eos |-> eos]
  OBVIOUS
<1>11. SUFFICES ASSUME TRUE PROVE WriteStep(s, t) /\ OrderOK(t, sm)
  BY WriteStepGood, Zenon
<1> HIDE DEF n, sm, data, all, x, w, acked, q, t
<1>12. CASE w # <<>>
  <2>1. t = [s EXCEPT !.cl[c].writes = q]
    <3>1. t = Park(s, c, data, Range(data), eos)
      BY <1>10, <1>12, Zenon DEF WriteOrPark
    <3>2. t = [s EXCEPT !.cl[c].writes = Append(s.cl[c].writes, [data |-> data, all |-> all, eos |-> eos])]
      BY <1>10, <3>1, Zenon DEF Park
    <3> QED
      BY <1>10, <3>2, Zenon
  <2>2. q \in Seq(Waiting)
    BY <1>4, <1>5, <1>10, AppendProperties
  <2>3. Queueing(s, c, q, acked, t)
    <3>1. Queueing(s, c, q, s.cl[c].acked, [s EXCEPT !.cl[c].writes = q])
      BY <1>1, <1>4, <2>2, QueueingOf
    <3> QED
      BY <1>10, <2>1, <3>1, ZenonT(60)
  <2>4. WriteStep(s, s)
    BY <1>1, GrownSelf DEF WriteStep, Fixed, NoticesOnly
  <2>5. WriteStep(s, t)
    BY <1>1, <2>3, <2>4, QueueStep
  <2>6. OrderOK(t, sm)
    BY <1>1, <1>7, <1>8, <2>3, QueueOrder
  <2> QED
    BY <2>5, <2>6
<1>13. CASE w = <<>>
  <2> DEFINE a == AddData(s, data, eos)
             z == a.s
             m == a.done
             rest == SubSeq(data, m + 1, Len(data))
             y == [data |-> rest, all |-> all, eos |-> FALSE]
             v == Append(<<>>, y)
  <2>1. AddOK(s, data, eos, a) /\ WriteAdd(s, a)
    BY <1>1, <1>3, AddFacts
  <2>2. t = CASE a.err -> a.s
              [] ~a.err /\ a.done < Len(data) -> Park(a.s, c, rest, Range(data), FALSE)
              [] OTHER -> [a.s EXCEPT !.cl[c].acked = @ \cup Range(data)]
    BY <1>10, <1>13, Zenon DEF WriteOrPark
  <2> HIDE DEF a
  <2>3. WriteStep(s, z) /\ z.cl = s.cl /\ z \in StreamT /\ m \in Nat /\ m <= Len(data)
    BY <1>1, <1>3, <2>1, AddWriteStep DEF WriteAdd, AddOK
  <2>4. rest \in Seq(Byte)
    <3>1. Len(data) \in Nat
      BY <1>3, LenProperties
    <3> HIDE DEF m
    <3> QED
      BY <1>3, <2>3, <3>1, Part
  <2>5. y \in Waiting /\ y.data = rest /\ y.all = all
    <3> HIDE DEF rest
    <3> QED
      BY <1>3, <2>4 DEF Waiting
  <2>17. rest = SubSeq(data, m + 1, Len(data)) /\ v = Append(<<>>, y) /\ z = a.s /\ m = a.done
         /\ y = [data |-> rest, all |-> all, eos |-> FALSE]
    OBVIOUS
  <2> HIDE DEF rest, y, z, m
  <2>6. /\ q \in Seq(Waiting) /\ q # <<>> /\ q[1] = x /\ DOMAIN q = {1}
    BY <1>5, <1>10, <1>13, OneWaits
  <2>7. /\ v \in Seq(Waiting) /\ v # <<>> /\ v[1] = y /\ DOMAIN v = {1} /\ Tail(v) = <<>>
    BY <2>5, OneWaits
  <2> HIDE DEF v
  <2>8. Shortened(q, m, v)
    BY <1>5, <2>5, <2>6, <2>7, <2>17 DEF Shortened
  <2>9. /\ Order(c, z.log, sm[c], v, acked) /\ OthersOrder(z, c, sm)
        /\ m = Len(data) => all \subseteq Range(z.log)
    <3>1. AddOK(s, q[1].data, eos, a) /\ q[1].data = data /\ q[1].all = all
      BY <1>5, <2>1, <2>6
    <3>2. a.s.cl = s.cl /\ Shortened(q, a.done, v)
      BY <2>3, <2>8, <2>17
    <3>3. /\ Order(c, a.s.log, sm[c], v, acked) /\ OthersOrder(a.s, c, sm)
          /\ a.done = Len(q[1].data) => q[1].all \subseteq Range(a.s.log)
      BY <1>1, <1>7, <1>8, <1>9, <2>6, <3>1, <3>2, GiveOrder
    <3> QED
      BY <2>17, <3>1, <3>3
  <2>10. z.cl[c].writes = <<>> /\ z.cl[c].acked = acked
    BY <1>10, <1>13, <2>3
  <2>11. ASSUME NEW p, NEW r, Queueing(z, c, p, r, t), Order(c, z.log, sm[c], p, r)
         PROVE  WriteStep(s, t) /\ OrderOK(t, sm)
    BY <1>1, <2>3, <2>9, <2>11, QueueStep, QueueOrder
  <2>12. \A r : r \subseteq Range(z.log) => Order(c, z.log, sm[c], <<>>, r)
    BY <2>9 DEF Order, QueuedOK
  <2>13. CASE a.err
    <3>1. t = z
      BY <2>2, <2>13, <2>17
    <3>2. Order(c, z.log, sm[c], z.cl[c].writes, z.cl[c].acked)
      BY <2>9, <2>10, <2>12 DEF Order
    <3>3. \A d \in Channels : Order(d, z.log, sm[d], z.cl[d].writes, z.cl[d].acked)
      BY <2>9, <3>2 DEF OthersOrder
    <3> QED
      BY <2>3, <3>1, <3>3, OrderIs
  <2>14. CASE ~a.err /\ m < Len(data)
    <3>1. t = [z EXCEPT !.cl[c].writes = v]
      <4>1. t = Park(z, c, rest, all, FALSE)
        BY <1>10, <2>2, <2>14, <2>17
      <4>2. t = [z EXCEPT !.cl[c].writes = Append(z.cl[c].writes, [data |-> rest, all |-> all, eos |-> FALSE])]
        BY <4>1, ZenonT(60) DEF Park
      <4> QED
        BY <2>10, <2>17, <4>2, Zenon
    <3>2. Queueing(z, c, v, acked, t)
      BY ZenonT(60), <1>1, <1>4, <2>3, <2>7, <2>10, <3>1, QueueingOf
    <3> QED
      BY <2>9, <2>11, <3>2
  <2>15. CASE ~a.err /\ ~(m < Len(data))
    <3> DEFINE r == acked \cup all
    <3>1. t = [z EXCEPT !.cl[c].acked = r]
      <4>1. t = [a.s EXCEPT !.cl[c].acked = @ \cup Range(data)]
        BY <2>2, <2>15, <2>17
      <4>2. t = [z EXCEPT !.cl[c].acked = z.cl[c].acked \cup all]
        BY <1>10, <2>17, <4>1, Zenon
      <4> QED
        BY <2>10, <4>2, Zenon
    <3>2. r \in SUBSET Byte
      BY <1>3, <1>4
    <3>3. m = Len(data)
      BY <1>3, <2>3, <2>15, LenProperties
    <3>4. r \subseteq Range(z.log)
      BY SMTT(40), <2>9, <3>3 DEF Order
    <3> HIDE DEF r
    <3>5. Queueing(z, c, <<>>, r, t)
      BY <1>1, <2>3, <2>7, <2>10, <3>1, <3>2, QueueingOf
    <3> QED
      BY <2>11, <2>12, <3>4, <3>5
  <2> QED
    BY <2>13, <2>14, <2>15
<1> QED
  BY <1>12, <1>13

-----------------------------------------------------------------------------
(* The actions.                                                            *)

\* What an action does to those who read the stream.
Step(s, o, t, p) ==
  \/ Moves(s, o, t, p)
  \/ \E c \in Channels : Leaves(s, c, t) /\ p.taken = o.taken
  \/ s.access = "WRITE" /\ SameView(s, t) /\ t.deleted /\ p.taken = o.taken
  \/ \E c \in Channels \ Clients(s) : Joins(s, c, t) /\ p.taken = o.taken
  \/ s = NoStream /\ o.taken = <<>> /\ p.taken = <<>>
     /\ \E access \in {"READ", "WRITE"} : Opens(access, t)

\* A callback that follows the end of an event.
LEMMA MovesAfter ==
  ASSUME NEW s, NEW o, NEW t, SameView(s, t), t.deleted <=> s.deleted, NEW o2, o2.taken = o.taken,
         NEW v, NEW p, Moves(t, o2, v, p)
  PROVE  Moves(s, o, v, p)
<1>1. /\ t.access = s.access /\ t.clients = s.clients /\ t.cl = s.cl /\ t.log = s.log
      /\ (t.eos_inp <=> s.eos_inp) /\ (t.eos_out <=> s.eos_out)
  BY DEF SameView, BytesSame
<1>2. Grown(s, v)
  BY <1>1 DEF Moves, Grown
<1> QED
  BY <1>1, <1>2 DEF Moves

\* What SInv says of a step.
LEMMA SInvNext ==
  ASSUME sent' \in [Sources -> Nat], Good(st', owner', sent'),
         Lists(subs', Range(subs')), Range(subs') \subseteq Channels
  PROVE  SInv'
BY DEF SInv

\* Dispatch, the events of a stream.
LEMMA DispatchStep ==
  ASSUME SInv, Dispatch
  PROVE  SInv' /\ Step(st, owner, st', owner')
<1> DEFINE x == [[st EXCEPT !.queue = Tail(@)] EXCEPT !.data_posted = FALSE]
           y == [[st EXCEPT !.queue = Tail(@)] EXCEPT !.space_posted = FALSE]
           z == [[st EXCEPT !.queue = Tail(@)] EXCEPT !.life = "freed"]
<1>1. /\ sent \in [Sources -> Nat] /\ Good(st, owner, sent) /\ Lists(subs, Range(subs))
      /\ Range(subs) \subseteq Channels /\ subs' = subs /\ sent' = sent /\ st.queue # <<>>
  BY DEF SInv, Dispatch
<1>2. st \in StreamT /\ owner \in OwnerT
  BY <1>1 DEF Good
<1>3. SUFFICES Good(st', owner', sent) /\ Step(st, owner, st', owner')
  <2>1. ASSUME Good(st', owner', sent) PROVE SInv'
    BY <1>1, <2>1, SInvNext
  <2> QED
    BY <2>1
<1>4. \/ Head(st.queue) = "delete" /\ st' = z /\ owner' = owner
      \/ /\ Head(st.queue) # "delete"
         /\ \E t \in {x, y} :
              \/ st' = t /\ owner' = owner
              \/ ~t.deleted /\ \E r \in {Callback(t, owner)} : st' = r.s /\ owner' = r.o
  BY DEF Dispatch, Call
<1>5. CASE Head(st.queue) = "delete" /\ st' = z /\ owner' = owner
  <2>1. Good(z, owner, sent) /\ SameView(st, z) /\ (z.deleted <=> st.deleted)
    BY <1>1, <1>5, FreedGood
  <2> HIDE DEF z
  <2>2. Moves(st, owner, z, owner)
    BY <1>2, <2>1, MovesSelf
  <2> QED
    BY <1>5, <2>1, <2>2 DEF Step
<1>7. Head(st.queue) # "delete" =>
        \A t \in {x, y} :
          Good(t, owner, sent) /\ SameView(st, t) /\ t.life = st.life /\ (t.deleted <=> st.deleted)
  <2>1. Head(st.queue) # "delete" => Notified(st, owner, sent, x) /\ Notified(st, owner, sent, y)
    BY <1>1, NoticeFacts
  <2> HIDE DEF x, y
  <2> QED
    BY SMTT(40), <2>1 DEF Notified
<1> HIDE DEF x, y, z
<1>6. ASSUME Head(st.queue) # "delete", NEW t \in {x, y},
             \/ st' = t /\ owner' = owner
             \/ ~t.deleted /\ \E r \in {Callback(t, owner)} : st' = r.s /\ owner' = r.o
      PROVE  Good(st', owner', sent) /\ Step(st, owner, st', owner')
  <2>1. Good(t, owner, sent) /\ SameView(st, t) /\ t.life = st.life /\ (t.deleted <=> st.deleted)
    BY <1>6, <1>7
  <2>2. CASE st' = t /\ owner' = owner
    <3>1. Moves(st, owner, t, owner)
      BY <1>2, <2>1, MovesSelf
    <3> QED
      BY <2>1, <2>2, <3>1 DEF Step
  <2>3. CASE ~t.deleted /\ \E r \in {Callback(t, owner)} : st' = r.s /\ owner' = r.o
    <3> DEFINE r == Callback(t, owner)
    <3>1. t.life = "live"
      <4>1. st.life # "none" /\ Counted(st)
        BY <1>1, Created DEF Good
      <4> QED
        BY <1>2, <2>1, <2>3, <4>1, Referenced
    <3>2. Good(r.s, r.o, sent) /\ Moves(t, owner, r.s, r.o)
      BY <1>1, <2>1, <2>3, <3>1, CallbackFacts
    <3>3. st' = r.s /\ owner' = r.o
      BY <2>3
    <3> HIDE DEF r
    <3>4. Moves(st, owner, r.s, r.o)
      BY <2>1, <3>2, MovesAfter
    <3> QED
      BY <3>2, <3>3, <3>4 DEF Step
  <2> QED
    BY <1>6, <2>2, <2>3
<1> QED
  BY <1>4, <1>5, <1>6

\* Completions of the owner's requests.
LEMMA InputStep ==
  ASSUME NEW s, NEW o, NEW sn \in [Sources -> Nat], Good(s, o, sn), s.access = "WRITE", o.posted,
         NEW b \in Seq(Byte)
  PROVE  LET r == InputCallback(s, [[o EXCEPT !.posted = FALSE] EXCEPT !.buf = b])
         IN  Good(r.s, r.o, sn) /\ Moves(s, o, r.s, r.o)
<1> DEFINE p == [[o EXCEPT !.posted = FALSE] EXCEPT !.buf = b]
           r == InputCallback(s, p)
<1>1. Body(s, o, sn) /\ LifeOK(s, o) /\ s \in StreamT /\ o \in OwnerT
  BY GoodIs DEF Body
<1>2. s.life # "none" /\ Counted(s) /\ ~s.deleted
  BY <1>1, Created DEF LetsGo
<1>3. s.life = "live"
  BY <1>1, <1>2, Referenced
<1>4. p \in OwnerT /\ p.taken = o.taken
  BY <1>1 DEF OwnerT
<1> HIDE DEF p
<1>5. AddsOwn(s, p)
  BY DEF AddsOwn
<1>6. Body(s, p, sn)
  BY <1>1, <1>4, <1>5, SameBody, SameViewSelf
<1>7. Good(r.s, r.o, sn) /\ Moves(s, p, r.s, r.o)
  BY <1>2, <1>3, <1>6, InputFacts
<1> HIDE DEF r
<1>8. Moves(s, o, r.s, r.o)
  BY <1>1, <1>4, <1>7, MovesAfter, SameViewSelf
<1> QED
  BY <1>7, <1>8 DEF r, p

\* write_process_input_done.
LEMMA WriteDoneStep ==
  ASSUME SInv, ProcessWriteDone
  PROVE  SInv' /\ Step(st, owner, st', owner')
<1> DEFINE o == [owner EXCEPT !.posted = FALSE]
           With(b) == [o EXCEPT !.buf = b]
<1>1. /\ sent \in [Sources -> Nat] /\ Good(st, owner, sent) /\ Lists(subs, Range(subs))
      /\ Range(subs) \subseteq Channels /\ subs' = subs /\ sent' = sent
      /\ st.access = "WRITE" /\ owner.posted
  BY DEF SInv, ProcessWriteDone
<1>2. Body(st, owner, sent) /\ LifeOK(st, owner) /\ st \in StreamT /\ owner \in OwnerT
  BY <1>1, GoodIs DEF Body
<1>3. SUFFICES Good(st', owner', sent) /\ Step(st, owner, st', owner')
  <2>1. ASSUME Good(st', owner', sent) PROVE SInv'
    BY <1>1, <2>1, SInvNext
  <2> QED
    BY <2>1
<1>4. o \in OwnerT /\ o.buf = owner.buf /\ owner.buf \in Seq(Byte) /\ <<>> \in Seq(Byte)
  BY <1>2, EmptySeq DEF OwnerT
<1>5. \/ ~o.prs /\ st' = VirtualStreamDelete(st) /\ owner' = With(<<>>)
      \/ \E b \in Seq(Byte) : \E r \in {InputCallback(st, With(b))} : st' = r.s /\ owner' = r.o
  <2>1. CASE ~o.prs
    BY <2>1 DEF ProcessWriteDone
  <2>2. CASE o.prs
    <3>1. \/ \E r \in {InputCallback(st, With(<<>>))} : st' = r.s /\ owner' = r.o
          \/ \E n \in 1 .. Len(owner.buf) :
               \E r \in {InputCallback(st, With(SubSeq(owner.buf, n + 1, Len(owner.buf))))} :
                 st' = r.s /\ owner' = r.o
      BY <1>4, <2>2 DEF ProcessWriteDone, Call
    <3>2. \A n \in 1 .. Len(owner.buf) : SubSeq(owner.buf, n + 1, Len(owner.buf)) \in Seq(Byte)
      BY <1>4, LenProperties, Part
    <3> QED
      BY ZenonT(60), <1>4, <3>1, <3>2
  <2> QED
    BY <2>1, <2>2
<1>6. CASE ~o.prs /\ st' = VirtualStreamDelete(st) /\ owner' = With(<<>>)
  <2> DEFINE p == With(<<>>)
             t == VirtualStreamDelete(st)
  <2>1. p \in OwnerT /\ p.taken = owner.taken /\ ~p.posted /\ ~p.prs
    BY <1>2, <1>4, <1>6 DEF OwnerT
  <2> HIDE DEF p
  <2>2. st.life # "none" /\ Counted(st) /\ ~st.deleted /\ st.life = "live"
    <3>1. st.life # "none" /\ Counted(st) /\ ~st.deleted
      BY <1>1, <1>2, Created DEF LetsGo
    <3> QED
      BY <1>2, <3>1, Referenced
  <2>3. AddsOwn(st, p)
    BY <1>1 DEF AddsOwn
  <2>4. Good(t, p, sent)
    BY <1>1, <1>2, <2>1, <2>2, <2>3, DeleteGood
  <2>5. SameView(st, t) /\ t.deleted
    BY <1>1, <1>2, <2>2, DeleteFacts
  <2> HIDE DEF t
  <2>6. st' = t /\ owner' = p
    BY <1>6 DEF t, p
  <2> QED
    BY <1>1, <2>1, <2>4, <2>5, <2>6 DEF Step
<1>7. ASSUME NEW b \in Seq(Byte), \E r \in {InputCallback(st, With(b))} : st' = r.s /\ owner' = r.o
      PROVE  Good(st', owner', sent) /\ Step(st, owner, st', owner')
  <2> DEFINE r == InputCallback(st, With(b))
  <2>1. Good(r.s, r.o, sent) /\ Moves(st, owner, r.s, r.o)
    BY <1>1, InputStep
  <2>2. st' = r.s /\ owner' = r.o
    BY <1>7
  <2> HIDE DEF r
  <2> QED
    BY <2>1, <2>2 DEF Step
<1> HIDE DEF o, With
<1> QED
  BY <1>5, <1>6, <1>7

\* The order of the channels does not depend on what the owner sent.
LEMMA OwnerSent ==
  ASSUME NEW s, NEW o, NEW sn \in [Sources -> Nat], Body(s, o, sn), NEW m \in Nat
  PROVE  [sn EXCEPT ![Owner] = m] \in [Sources -> Nat] /\ Body(s, o, [sn EXCEPT ![Owner] = m])
<1> DEFINE sm == [sn EXCEPT ![Owner] = m]
<1>1. sm \in [Sources -> Nat] /\ \A c \in Channels : sm[c] = sn[c]
  BY StreamsAssumption DEF Sources
<1> HIDE DEF sm
<1>2. OrderOK(s, sm)
  BY <1>1 DEF OrderOK, Body
<1>3. Body(s, o, sm)
  BY <1>2 DEF Body
<1> QED
  BY <1>1, <1>3 DEF sm

\* process_output_streams_callback after a read.
LEMMA OutputStep ==
  ASSUME NEW s, NEW o, NEW sn \in [Sources -> Nat], Good(s, o, sn), s.access = "READ", o.posted,
         NEW m \in Nat, NEW e \in BOOLEAN, NEW b \in Seq({Owner} \X Nat)
  PROVE  LET r  == OutputCallback(s, [o EXCEPT !.posted = FALSE, !.rd_eos = e, !.buf = b])
             sm == [sn EXCEPT ![Owner] = m]
         IN  sm \in [Sources -> Nat] /\ Good(r.s, r.o, sm) /\ Moves(s, o, r.s, r.o)
<1> DEFINE p == [o EXCEPT !.posted = FALSE, !.rd_eos = e, !.buf = b]
           r == OutputCallback(s, p)
           sm == [sn EXCEPT ![Owner] = m]
<1>1. Body(s, o, sn) /\ LifeOK(s, o) /\ s \in StreamT /\ o \in OwnerT
  BY GoodIs DEF Body
<1>2. s.life # "none" /\ Counted(s) /\ ~s.deleted
  BY <1>1, Created DEF LetsGo
<1>3. s.life = "live"
  BY <1>1, <1>2, Referenced
<1>4. b \in Seq(Byte)
  <2>1. {Owner} \X Nat \subseteq Byte
    BY DEF Byte, Sources
  <2>2. \A i \in 1 .. Len(b) : b[i] \in Byte
    BY <2>1, ElementOfSeq
  <2> QED
    BY <2>2, SeqWithin
<1>5. p \in OwnerT /\ p.taken = o.taken /\ p.buf = b
  BY <1>1, <1>4 DEF OwnerT
<1> HIDE DEF p
<1>6. AddsOwn(s, p)
  BY <1>5 DEF AddsOwn
<1>7. Body(s, p, sn)
  BY <1>1, <1>5, <1>6, SameBody, SameViewSelf
<1>8. sm \in [Sources -> Nat] /\ Body(s, p, sm)
  BY <1>7, OwnerSent
<1> HIDE DEF sm
<1>9. Good(r.s, r.o, sm) /\ Moves(s, p, r.s, r.o)
  BY <1>2, <1>3, <1>8, OutputFacts
<1> HIDE DEF r
<1>10. Moves(s, o, r.s, r.o)
  BY <1>1, <1>5, <1>9, MovesAfter, SameViewSelf
<1> QED
  BY <1>8, <1>9, <1>10 DEF r, p, sm

\* read_process_output_done.
LEMMA ReadDoneStep ==
  ASSUME SInv, ProcessReadDone
  PROVE  SInv' /\ Step(st, owner, st', owner')
<1>1. /\ sent \in [Sources -> Nat] /\ Good(st, owner, sent) /\ Lists(subs, Range(subs))
      /\ Range(subs) \subseteq Channels /\ subs' = subs
      /\ st.access = "READ" /\ owner.posted
  BY DEF SInv, ProcessReadDone
<1>2. PICK n \in 0 .. OwnerBuf :
        /\ sent' = [sent EXCEPT ![Owner] = sent[Owner] + n]
        /\ \E r \in {OutputCallback(st, [owner EXCEPT !.posted = FALSE, !.rd_eos = (n = 0),
                                                      !.buf = Bytes(Owner, n)])} :
             st' = r.s /\ owner' = r.o
  BY DEF ProcessReadDone, Call
<1> DEFINE m == sent[Owner] + n
           e == n = 0
           b == Bytes(Owner, n)
           r == OutputCallback(st, [owner EXCEPT !.posted = FALSE, !.rd_eos = e, !.buf = b])
           sm == [sent EXCEPT ![Owner] = m]
<1>3. n \in Nat /\ sent[Owner] \in Nat
  BY <1>1, StreamsAssumption DEF Sources
<1>4. m \in Nat /\ e \in BOOLEAN
  BY <1>3
<1>5. b \in Seq({Owner} \X Nat)
  <2>1. b \in [1 .. n -> {Owner} \X Nat]
    BY <1>3 DEF Bytes
  <2> HIDE DEF b
  <2> QED
    BY <1>3, <2>1, SeqDef
<1>6. st' = r.s /\ owner' = r.o /\ sent' = sm
  BY <1>2
<1> HIDE DEF m, e, b
<1>7. sm \in [Sources -> Nat] /\ Good(r.s, r.o, sm) /\ Moves(st, owner, r.s, r.o)
  BY <1>1, <1>4, <1>5, OutputStep
<1> HIDE DEF r, sm
<1>8. SInv'
  BY <1>1, <1>6, <1>7, SInvNext
<1> QED
  BY <1>6, <1>7, <1>8 DEF Step

\* The exit of the process.
LEMMA ExitedStep ==
  ASSUME SInv, ProcessExited
  PROVE  SInv' /\ Step(st, owner, st', owner')
<1> DEFINE p == [owner EXCEPT !.prs = FALSE]
           t == VirtualStreamDelete(st)
<1>1. /\ sent \in [Sources -> Nat] /\ Good(st, owner, sent) /\ Lists(subs, Range(subs))
      /\ Range(subs) \subseteq Channels /\ subs' = subs /\ sent' = sent
      /\ st.access = "WRITE" /\ owner.prs /\ owner' = p
      /\ st' = IF owner.posted THEN st ELSE t
  BY DEF SInv, ProcessExited
<1>2. Body(st, owner, sent) /\ LifeOK(st, owner) /\ st \in StreamT /\ owner \in OwnerT
  BY <1>1, GoodIs DEF Body
<1>3. SUFFICES Good(st', owner', sent) /\ Step(st, owner, st', owner')
  <2>1. ASSUME Good(st', owner', sent) PROVE SInv'
    BY <1>1, <2>1, SInvNext
  <2> QED
    BY <2>1
<1>4. p \in OwnerT /\ p.taken = owner.taken /\ ~p.prs /\ (p.posted <=> owner.posted)
  BY <1>2 DEF OwnerT
<1>5. AddsOwn(st, p)
  BY <1>1 DEF AddsOwn
<1>6. st.life # "none" /\ Counted(st) /\ ~st.deleted /\ st.life = "live"
  <2>1. st.life # "none" /\ Counted(st) /\ ~st.deleted
    BY <1>1, <1>2, Created DEF LetsGo
  <2> QED
    BY <1>2, <2>1, Referenced
<1> HIDE DEF p
<1>7. CASE owner.posted
  <2>1. Body(st, p, sent)
    BY <1>2, <1>4, <1>5, SameBody, SameViewSelf
  <2>2. LifeOK(st, p)
    BY <1>1, <1>6 DEF LifeOK, LetsGo
  <2>3. Moves(st, owner, st, p)
    BY <1>2, <1>4, MovesSelf, SameViewSelf
  <2>4. st' = st
    BY <1>1, <1>7
  <2>5. Good(st, p, sent)
    BY <2>1, <2>2, GoodIs
  <2> QED
    BY <1>1, <2>3, <2>4, <2>5 DEF Step
<1>8. CASE ~owner.posted
  <2>1. Good(t, p, sent)
    BY <1>1, <1>2, <1>4, <1>5, <1>6, <1>8, DeleteGood
  <2>2. SameView(st, t) /\ t.deleted
    BY <1>1, <1>2, <1>6, DeleteFacts
  <2>3. st' = t
    BY <1>1, <1>8
  <2> HIDE DEF t
  <2> QED
    BY <1>1, <1>4, <2>1, <2>2, <2>3 DEF Step
<1> QED
  BY <1>7, <1>8

\* virtual_stream_create.
LEMMA CreateStep ==
  ASSUME SInv, NEW access \in {"READ", "WRITE"}, Create(access)
  PROVE  SInv' /\ Step(st, owner, st', owner')
<1> DEFINE t == CreateClients(Started(st, access), subs)
           p == Asking(owner, access)
<1>1. /\ sent \in [Sources -> Nat] /\ Good(st, owner, sent) /\ Lists(subs, Range(subs))
      /\ Range(subs) \subseteq Channels /\ subs' = <<>> /\ sent' = sent
      /\ st.life = "none" /\ st' = t /\ owner' = p
  BY DEF SInv, Create, Started, Asking
<1>2. Good(t, p, sent) /\ Opens(access, t) /\ p.taken = <<>> /\ owner.taken = <<>>
  <2>1. OpenedOK(access, owner, sent, t, p)
    BY <1>1, CreateFacts
  <2> HIDE DEF t, p
  <2> QED
    BY <2>1 DEF OpenedOK
<1> HIDE DEF t, p
<1>3. st = NoStream
  BY <1>1 DEF Good, LifeOK
<1>4. Lists(subs', Range(subs')) /\ Range(subs') \subseteq Channels
  <2>1. Range(<<>>) = {}
    BY DEF Range
  <2> QED
    BY <1>1, <2>1, ListsEmpty
<1>5. SInv'
  BY <1>1, <1>2, <1>4, SInvNext
<1> QED
  BY <1>1, <1>2, <1>3, <1>5 DEF Step

\* command_subscribe.
LEMMA SubscribeStep ==
  ASSUME SInv, NEW c \in Channels, Subscribe(c)
  PROVE  SInv' /\ st' = st /\ owner' = owner
<1>1. /\ sent \in [Sources -> Nat] /\ Good(st, owner, sent) /\ Lists(subs, Range(subs))
      /\ Range(subs) \subseteq Channels /\ subs' = <<c>> \o subs /\ sent' = sent
      /\ c \notin Range(subs) /\ st' = st /\ owner' = owner
  BY DEF SInv, Subscribe
<1>2. Lists(subs', Range(subs) \cup {c})
  BY <1>1, ListsPrepend
<1>3. Range(subs') = Range(subs) \cup {c}
  BY <1>2, RangeOfList
<1> QED
  BY <1>1, <1>2, <1>3, SInvNext

\* command_unsubscribe.
LEMMA UnsubscribeStep ==
  ASSUME SInv, NEW c \in Channels, Unsubscribe(c)
  PROVE  SInv' /\ st' = st /\ owner' = owner
<1>1. /\ sent \in [Sources -> Nat] /\ Good(st, owner, sent) /\ Lists(subs, Range(subs))
      /\ Range(subs) \subseteq Channels /\ subs' = Unlink(subs, c) /\ sent' = sent
      /\ st' = st /\ owner' = owner
  BY DEF SInv, Unsubscribe
<1>2. Lists(subs', Range(subs) \ {c}) /\ Range(subs') = Range(subs) \ {c}
  BY <1>1, UnlinkFacts
<1> QED
  BY <1>1, <1>2, SInvNext

\* command_connect.
LEMMA ConnectStep ==
  ASSUME SInv, NEW c \in Channels, Connect(c)
  PROVE  SInv' /\ Step(st, owner, st', owner')
<1> DEFINE t == CreateClient(st, c)
<1>1. /\ sent \in [Sources -> Nat] /\ Good(st, owner, sent) /\ Lists(subs, Range(subs))
      /\ Range(subs) \subseteq Channels /\ subs' = subs /\ sent' = sent
      /\ c \in Channels \ Clients(st) /\ st.life = "live" /\ ~st.deleted
      /\ st' = t /\ owner' = owner
  BY DEF SInv, Connect
<1>2. Body(st, owner, sent) /\ st.access # "none" /\ Counted(st)
  BY <1>1, GoodIs DEF LifeOK
<1>3. Body(t, owner, sent) /\ Counted(t) /\ Joins(st, c, t)
  BY <1>1, <1>2, JoinFacts
<1> HIDE DEF t
<1>4. LifeOK(t, owner)
  BY <1>1, <1>2, <1>3 DEF LifeOK, LetsGo, Joins
<1>5. Good(t, owner, sent)
  BY <1>3, <1>4, GoodIs
<1>6. SInv'
  BY <1>1, <1>5, SInvNext
<1> QED
  BY <1>1, <1>3, <1>6 DEF Step

\* command_disconnect.
LEMMA DisconnectStep ==
  ASSUME SInv, NEW c \in Channels, Disconnect(c)
  PROVE  SInv' /\ Step(st, owner, st', owner')
<1> DEFINE t == DeleteClient(st, c)
<1>1. /\ sent \in [Sources -> Nat] /\ Good(st, owner, sent) /\ Lists(subs, Range(subs))
      /\ Range(subs) \subseteq Channels /\ subs' = subs /\ sent' = sent
      /\ c \in Clients(st) /\ st' = t /\ owner' = owner
  BY DEF SInv, Disconnect
<1>2. Good(t, owner, sent) /\ Leaves(st, c, t)
  BY <1>1, LeaveFacts
<1> HIDE DEF t
<1>3. SInv'
  BY <1>1, <1>2, SInvNext
<1> QED
  BY <1>1, <1>2, <1>3 DEF Step

\* channel_close_listener.
LEMMA CloseStep ==
  ASSUME SInv, NEW c \in Channels, CloseChannel(c)
  PROVE  SInv' /\ Step(st, owner, st', owner')
<1> DEFINE t == DeleteClient(st, c)
<1>1. /\ sent \in [Sources -> Nat] /\ Good(st, owner, sent) /\ Lists(subs, Range(subs))
      /\ Range(subs) \subseteq Channels /\ subs' = Unlink(subs, c) /\ sent' = sent
      /\ st' = (IF c \in Clients(st) THEN t ELSE st) /\ owner' = owner
  BY DEF SInv, CloseChannel
<1>2. Lists(subs', Range(subs')) /\ Range(subs') \subseteq Channels
  BY <1>1, UnlinkFacts
<1>3. SUFFICES Good(st', owner', sent) /\ Step(st, owner, st', owner')
  <2>1. ASSUME Good(st', owner', sent) PROVE SInv'
    BY <1>1, <1>2, <2>1, SInvNext
  <2> QED
    BY <2>1
<1>4. CASE c \in Clients(st)
  <2>1. Good(t, owner, sent) /\ Leaves(st, c, t)
    BY <1>1, <1>4, LeaveFacts
  <2> HIDE DEF t
  <2> QED
    BY <1>1, <1>4, <2>1 DEF Step
<1>5. CASE c \notin Clients(st)
  <2>1. st \in StreamT /\ owner \in OwnerT
    BY <1>1 DEF Good
  <2>2. Moves(st, owner, st, owner)
    BY <2>1, MovesSelf, SameViewSelf
  <2> QED
    BY <1>1, <1>5, <2>2 DEF Step
<1> QED
  BY <1>4, <1>5

\* command_read.
LEMMA ReadActStep ==
  ASSUME SInv, NEW c \in Channels, Read(c)
  PROVE  SInv' /\ Step(st, owner, st', owner')
<1>1. /\ sent \in [Sources -> Nat] /\ Good(st, owner, sent) /\ Lists(subs, Range(subs))
      /\ Range(subs) \subseteq Channels /\ subs' = subs /\ sent' = sent
      /\ c \in Clients(st) /\ st.access = "READ" /\ owner' = owner
  BY DEF SInv, Read
<1>2. PICK size \in ReadSizes :
        IF st.cl[c].pos = st.pos /\ ~st.eos_inp
        THEN st' = [st EXCEPT !.cl[c].reads = Append(@, size)]
        ELSE st' = AdvanceStreamBuffer(SendReadReply(st, c, size))
  BY DEF Read
<1>3. size \in Nat \ {0}
  BY StreamsAssumption
<1>4. Good(st', owner, sent) /\ Moves(st, owner, st', owner)
  <2>1. CASE st.cl[c].pos = st.pos /\ ~st.eos_inp
    <3> DEFINE t == [st EXCEPT !.cl[c].reads = Append(@, size)]
    <3>1. Good(t, owner, sent) /\ Moves(st, owner, t, owner)
      BY <1>1, <1>3, <2>1, ParkReadGood
    <3> QED
      BY <1>2, <2>1, <3>1
  <2>2. CASE ~(st.cl[c].pos = st.pos /\ ~st.eos_inp)
    <3> DEFINE t == AdvanceStreamBuffer(SendReadReply(st, c, size))
    <3>1. Good(t, owner, sent) /\ Moves(st, owner, t, owner)
      BY <1>1, <1>3, <2>2, ReadGood
    <3> QED
      BY <1>2, <2>2, <3>1
  <2> QED
    BY <2>1, <2>2
<1>5. SInv'
  BY <1>1, <1>4, SInvNext
<1> QED
  BY <1>1, <1>4, <1>5 DEF Step

\* command_write and command_eos.
LEMMA WriteActStep ==
  ASSUME SInv, NEW c \in Channels, Write(c) \/ Eos(c)
  PROVE  SInv' /\ Step(st, owner, st', owner')
<1>1. /\ sent \in [Sources -> Nat] /\ Good(st, owner, sent) /\ Lists(subs, Range(subs))
      /\ Range(subs) \subseteq Channels /\ subs' = subs
      /\ c \in Clients(st) /\ st.access = "WRITE" /\ owner' = owner
  BY DEF SInv, Write, Eos, Writable
<1>2. sent[c] \in Nat
  BY <1>1 DEF Sources
<1>3. \E k \in Nat, eos \in BOOLEAN :
        /\ sent' = [sent EXCEPT ![c] = @ + k]
        /\ st' = WriteOrPark(st, c, Newest(c, sent[c], k), eos)
  <2>1. CASE Write(c)
    <3>1. PICK n \in WriteSizes : /\ sent' = [sent EXCEPT ![c] = @ + n]
                                  /\ st' = WriteOrPark(st, c, Bytes(c, n), FALSE)
      BY <2>1 DEF Write
    <3>2. n \in Nat /\ Bytes(c, n) = Newest(c, sent[c], n)
      BY StreamsAssumption DEF Bytes, Newest
    <3> QED
      BY <3>1, <3>2
  <2>2. CASE Eos(c)
    <3>1. st' = WriteOrPark(st, c, <<>>, TRUE) /\ sent' = sent
      BY <2>2 DEF Eos
    <3>2. Newest(c, sent[c], 0) = <<>>
      BY DEF Newest
    <3>3. [sent EXCEPT ![c] = @ + 0] = sent
      <4>1. sent[c] + 0 = sent[c]
        BY <1>2
      <4> QED
        BY <1>1, <4>1
    <3> QED
      BY <3>1, <3>2, <3>3
  <2> QED
    BY <2>1, <2>2
<1>4. PICK k \in Nat, eos \in BOOLEAN :
        /\ sent' = [sent EXCEPT ![c] = @ + k]
        /\ st' = WriteOrPark(st, c, Newest(c, sent[c], k), eos)
  BY <1>3
<1> DEFINE t == WriteOrPark(st, c, Newest(c, sent[c], k), eos)
           sm == [sent EXCEPT ![c] = @ + k]
<1>5. Good(t, owner, sm) /\ Moves(st, owner, t, owner)
  BY <1>1, WriteGood
<1>6. sm \in [Sources -> Nat]
  <2> DEFINE n == sent[c] + k
  <2>1. n \in Nat
    BY <1>2
  <2> HIDE DEF n
  <2>2. [sent EXCEPT ![c] = n] \in [Sources -> Nat]
    BY <1>1, <2>1
  <2> QED
    BY <2>2 DEF n
<1>7. st' = t /\ sent' = sm
  BY <1>4
<1> HIDE DEF t, sm
<1>8. SInv'
  BY <1>1, <1>5, <1>6, <1>7, SInvNext
<1> QED
  BY <1>1, <1>5, <1>7, <1>8 DEF Step

\* SInv is inductive, and what every step does to the readers.
LEMMA SInvStep ==
  ASSUME SInv, [Next]_vars
  PROVE  SInv' /\ ((st' = st /\ owner' = owner) \/ Step(st, owner, st', owner'))
<1>1. CASE Dispatch
  BY <1>1, DispatchStep
<1>2. CASE ProcessWriteDone
  BY <1>2, WriteDoneStep
<1>3. CASE ProcessReadDone
  BY <1>3, ReadDoneStep
<1>4. CASE ProcessExited
  BY <1>4, ExitedStep
<1>5. ASSUME NEW access \in {"READ", "WRITE"}, Create(access)
      PROVE  SInv' /\ Step(st, owner, st', owner')
  BY <1>5, CreateStep
<1>6. ASSUME NEW c \in Channels, Subscribe(c) \/ Unsubscribe(c)
      PROVE  SInv' /\ st' = st /\ owner' = owner
  BY <1>6, SubscribeStep, UnsubscribeStep
<1>7. ASSUME NEW c \in Channels,
             Connect(c) \/ Disconnect(c) \/ CloseChannel(c) \/ Read(c) \/ Write(c) \/ Eos(c)
      PROVE  SInv' /\ Step(st, owner, st', owner')
  BY <1>7, ConnectStep, DisconnectStep, CloseStep, ReadActStep, WriteActStep
<1>8. CASE UNCHANGED vars
  <2>1. st' = st /\ owner' = owner /\ subs' = subs /\ sent' = sent
    BY <1>8 DEF vars
  <2> QED
    BY <2>1, SInvNext DEF SInv
<1> QED
  BY <1>1, <1>2, <1>3, <1>4, <1>5, <1>6, <1>7, <1>8 DEF Next

\* The invariant holds at the start.
LEMMA SInvInit ==
  ASSUME Init
  PROVE  SInv
<1>1. st = NoStream /\ subs = <<>>
      /\ owner = [posted |-> FALSE, buf |-> <<>>, rd_eos |-> FALSE, eos |-> FALSE,
                  prs |-> TRUE, taken |-> <<>>]
      /\ sent = [c \in Channels \cup {Owner} |-> 0]
  BY DEF Init
<1>2. sent \in [Sources -> Nat]
  BY <1>1 DEF Sources
<1>3. owner \in OwnerT /\ ~owner.posted /\ owner.prs /\ owner.buf = <<>> /\ owner.taken = <<>>
  <2>1. <<>> \in Seq(Byte)
    BY EmptySeq
  <2> QED
    BY <1>1, <2>1 DEF OwnerT
<1>4. Body(st, owner, sent)
  BY <1>1, <1>3, NoStreamUntouched, UntouchedBody
<1>5. LifeOK(st, owner)
  BY <1>1, <1>3, NoStreamFacts DEF LifeOK
<1>6. Lists(subs, Range(subs)) /\ Range(subs) \subseteq Channels
  <2>1. Range(<<>>) = {}
    BY DEF Range
  <2> QED
    BY <1>1, <2>1, ListsEmpty
<1> QED
  BY <1>2, <1>4, <1>5, <1>6, GoodIs DEF SInv

-----------------------------------------------------------------------------
(* The results.                                                            *)

\* In every behaviour the stream, its owner and its clients agree (SInv).
THEOREM StreamAgrees == Spec => []SInv
<1>1. Init => SInv
  BY SInvInit
<1>2. SInv /\ [Next]_vars => SInv'
  BY SInvStep
<1> QED
  BY <1>1, <1>2, PTL DEF Spec

\* delete_client and virtual_stream_delete count the references exactly, and
\* delete_stream runs once, after everything else.
THEOREM ReferencesExact == Spec => []RefCountExact
<1>1. SInv => RefCountExact
  <2> SUFFICES ASSUME SInv PROVE RefCountExact
    OBVIOUS
  <2>1. Good(st, owner, sent) /\ st \in StreamT /\ LifeOK(st, owner)
    BY DEF SInv, Good
  <2>2. CASE st.life = "none"
    <3>1. st.queue = <<>>
      BY <2>1, <2>2, NoStreamFacts DEF LifeOK
    <3>2. 1 .. Len(st.queue) = {}
      BY <3>1, EmptySeq
    <3> QED
      BY <2>2, <3>2 DEF RefCountExact
  <2>3. CASE st.life # "none"
    <3>1. Counted(st) /\ LetsGo(st, owner)
      BY <2>1, <2>3 DEF LifeOK
    <3> DEFINE l == Len(st.clients)
               d == IF st.deleted THEN 0 ELSE 1
               n == st.ref_cnt
    <3>2. /\ l \in Nat /\ d \in Nat /\ n = l + d /\ st.clients \in Seq(Channels)
          /\ st.queue \in Seq({"data", "space", "delete"}) /\ n \in Nat
      BY <2>1, <3>1, StreamFields, LenProperties DEF Counted
    <3>9. d = 0 => st.deleted
      OBVIOUS
    <3>3. n = 0 => st.deleted /\ st.clients = <<>>
      <4>1. n = 0 => l = 0 /\ d = 0
        <5> HIDE DEF n, l, d
        <5> QED
          BY <3>2
      <4> QED
        BY <3>2, <3>9, <4>1, EmptySeq
    <3>4. DOMAIN st.queue = 1 .. Len(st.queue)
      BY <3>2, LenProperties
    <3>5. st.life = "live" /\ "delete" \notin Range(st.queue) => n > 0
      <4>3. n > 0 \/ n = 0
        <5> HIDE DEF n, l, d
        <5> QED
          BY <3>2
      <4> SUFFICES ASSUME st.life = "live", n = 0 PROVE "delete" \in Range(st.queue)
        BY <4>3
      <4>1. st.queue # <<>> /\ st.queue[Len(st.queue)] = "delete"
        BY <3>1 DEF Counted
      <4>2. Len(st.queue) \in DOMAIN st.queue
        BY <3>2, <3>4, <4>1, EmptySeq, LenProperties
      <4> QED
        BY <4>1, <4>2, Zenon DEF Range
    <3>6. \A i \in 1 .. Len(st.queue) : st.queue[i] = "delete" =>
            i = Len(st.queue) /\ st.deleted /\ st.clients = <<>>
      BY <3>1, <3>3, <3>4 DEF Counted
    <3>7. st.life = "freed" => st.clients = <<>> /\ st.queue = <<>> /\ ~owner.posted
      BY <3>1, <3>3 DEF Counted, LetsGo
    <3>8. n = Len(st.clients) + (IF st.deleted THEN 0 ELSE 1)
      BY <3>2
    <3> QED
      BY <3>5, <3>6, <3>7, <3>8 DEF RefCountExact
  <2> QED
    BY <2>2, <2>3
<1> QED
  BY <1>1, StreamAgrees, PTL

\* Writes of a channel are not reordered, those answered are in the stream, and
\* no read waits that could be answered.
THEOREM CommandsAreServed == Spec => []CommandsServed
<1>1. SInv => CommandsServed
  <2> SUFFICES ASSUME SInv PROVE CommandsServed
    OBVIOUS
  <2>1. OrderOK(st, sent) /\ ReadersOK(st)
    BY DEF SInv, Good
  <2>2. WritesInOrder
    BY <2>1 DEF WritesInOrder, OrderOK, QueuedOK
  <2>3. ReadsWaitOnlyForData
    BY <2>1 DEF ReadsWaitOnlyForData, ReadersOK, NothingFor, ReadClient
  <2> QED
    BY <2>2, <2>3 DEF CommandsServed
<1> QED
  BY <1>1, StreamAgrees, PTL

-----------------------------------------------------------------------------
(* The refinement: what every step is to those who read the stream.        *)

OffSeen == [on |-> FALSE, start |-> 0, got |-> <<>>, eos |-> FALSE]
AtSeen(n) == [on |-> TRUE, start |-> n, got |-> <<>>, eos |-> FALSE]

\* Who is given the bytes of the stream.
On(s, r) == IF r = Owner THEN s.access = "WRITE" /\ ~s.deleted ELSE ReadClient(s, r)

\* The record a reader is seen with.
LEMMA SeenIs ==
  ASSUME NEW s, NEW o, NEW sn, Good(s, o, sn), NEW r \in Channels \cup {Owner}
  PROVE  /\ On(s, r) <=> Seen(s, o, r).on
         /\ ~On(s, r) => Seen(s, o, r) = OffSeen
         /\ On(s, r) /\ r = Owner =>
              Seen(s, o, r) = [on |-> TRUE, start |-> 0, got |-> o.taken, eos |-> s.eos_out]
         /\ On(s, r) /\ r # Owner =>
              Seen(s, o, r) = [on |-> TRUE, start |-> s.cl[r].start, got |-> s.cl[r].got,
                               eos |-> s.cl[r].told]
<1>1. s \in StreamT /\ OwnerOK(s, o) /\ s.deleted \in BOOLEAN /\ s.eos_out \in BOOLEAN
  BY StreamFields DEF Good
<1>2. CASE r # Owner
  BY <1>2 DEF On, Seen, OffSeen
<1>3. CASE r = Owner
  <2>1. CASE On(s, r)
    <3>1. s.access = "WRITE" /\ s.deleted = FALSE
      BY <1>1, <1>3, <2>1 DEF On
    <3>2. (s.access = "WRITE" /\ ~s.deleted) = TRUE /\ (s.eos_out /\ ~s.deleted) = s.eos_out
          /\ (IF s.deleted THEN <<>> ELSE o.taken) = o.taken
      BY <1>1, <3>1
    <3> QED
      BY <1>3, <2>1, <3>2, Zenon DEF Seen
  <2>2. CASE ~On(s, r)
    <3>1. s.deleted \/ s.access # "WRITE"
      BY <1>3, <2>2 DEF On
    <3>2. s.deleted \/ (o.taken = <<>> /\ ~s.eos_out)
      BY <1>1, <3>1 DEF OwnerOK
    <3>3. (s.access = "WRITE" /\ ~s.deleted) = FALSE /\ (s.eos_out /\ ~s.deleted) = FALSE
          /\ (IF s.deleted THEN <<>> ELSE o.taken) = <<>>
      BY <3>1, <3>2
    <3> QED
      BY <1>3, <2>2, <3>3, Zenon DEF Seen, OffSeen
  <2> QED
    BY <2>1, <2>2
<1> QED
  BY <1>2, <1>3

\* One sequence begins another, as StreamSpec says it.
Heads(p, q) == Len(p) <= Len(q) /\ SubSeq(p, 1, Len(p)) = SubSeq(q, 1, Len(p))

\* The pointwise form of it.
LEMMA HeadsIs ==
  ASSUME NEW S, NEW p \in Seq(S), NEW q \in Seq(S), Len(p) <= Len(q),
         \A i \in 1 .. Len(p) : q[i] = p[i]
  PROVE  Heads(p, q)
<1> DEFINE n == Len(p)
<1>1. n \in Nat /\ Len(q) \in Nat /\ 0 \in Nat /\ 0 <= n /\ n <= Len(p) /\ n <= Len(q) /\ 0 + 1 = 1
  BY LenProperties
<1>2. SubSeq(q, 0 + 1, n) = SubSeq(p, 0 + 1, n)
  <2> HIDE DEF n
  <2>1. \A i \in 1 .. n : q[i] = p[i]
    BY DEF n
  <2> QED
    BY <1>1, <2>1, PartSame
<1>3. SubSeq(q, 1, n) = SubSeq(p, 1, n)
  BY <1>1, <1>2, Zenon
<1> QED
  BY <1>3 DEF Heads

\* Two parts of a growing log that begin at the same place.
LEMMA HeadsOfLog ==
  ASSUME NEW S, NEW l \in Seq(S), NEW m \in Seq(S), Len(l) <= Len(m),
         \A i \in 1 .. Len(l) : m[i] = l[i],
         NEW a \in Nat, NEW b \in Nat, NEW c \in Nat, a <= b, b <= c, b <= Len(l), c <= Len(m)
  PROVE  Heads(SubSeq(l, a + 1, b), SubSeq(m, a + 1, c))
<1> DEFINE p == SubSeq(l, a + 1, b)
           q == SubSeq(m, a + 1, c)
<1>1. Len(l) \in Nat /\ Len(m) \in Nat
  BY LenProperties
<1>2. p \in Seq(S) /\ Len(p) = b - a /\ \A i \in 1 .. b - a : p[i] = l[a + i]
  BY Part
<1>3. a <= c
  BY SMTT(40)
<1>4. q \in Seq(S) /\ Len(q) = c - a /\ \A i \in 1 .. c - a : q[i] = m[a + i]
  BY <1>3, Part
<1> HIDE DEF p, q
<1>5. ASSUME NEW i \in 1 .. b - a PROVE q[i] = p[i]
  <2>1. i \in 1 .. c - a /\ a + i \in 1 .. Len(l)
    BY <1>1
  <2> QED
    BY <1>2, <1>4, <2>1
<1>6. Len(p) <= Len(q) /\ \A i \in 1 .. Len(p) : q[i] = p[i]
  BY <1>2, <1>4, <1>5
<1> QED
  BY <1>2, <1>4, <1>6, HeadsIs DEF p, q

\* What StreamSpec demands of a reader at the log l, closed or not.
ServedAt(a, l, closed) ==
  /\ a.start + Len(a.got) <= Len(l)
  /\ a.got = SubSeq(l, a.start + 1, a.start + Len(a.got))
  /\ a.eos => closed /\ a.start + Len(a.got) = Len(l)
  /\ Len(l) - (a.start + Len(a.got)) <= Size

\* Every reader has what follows the place where it joined, and is not more than
\* the ring behind.
LEMMA SeenServed ==
  ASSUME NEW s, NEW o, NEW sn, Good(s, o, sn), NEW r \in Channels \cup {Owner}, On(s, r)
  PROVE  ServedAt(Seen(s, o, r), s.log, s.eos_inp)
<1>1. s \in StreamT /\ Ring(s) /\ ReadersOK(s) /\ OwnerOK(s, o) /\ o \in OwnerT
  BY DEF Good
<1> DEFINE u == Used(s)
           n == s.pos
<1>2. u \in 0 .. Size /\ n \in Nat /\ u <= n /\ Len(s.log) = n /\ s.log \in Seq(Byte) /\ Size \in Nat
  BY <1>1, UsedFree, StreamFields, StreamsAssumption DEF Ring
<1>3. CASE r # Owner
  <2> DEFINE k == s.cl[r]
  <2>1. r \in Channels /\ s.access = "READ" /\ r \in Clients(s)
    BY <1>3 DEF On, ReadClient
  <2>2. /\ k.start + Len(k.got) = k.pos /\ k.pos <= n /\ n - u <= k.pos
        /\ k.got = SubSeq(s.log, k.start + 1, k.pos)
        /\ k.told => s.eos_inp /\ k.pos = n
    BY <1>1, <2>1 DEF ReadersOK, ReaderOK
  <2>3. k.pos \in Nat
    BY <1>1, <2>1, StreamFields DEF ClientT
  <2> DEFINE a == Seen(s, o, r)
  <2>4. a = [on |-> TRUE, start |-> k.start, got |-> k.got, eos |-> k.told]
    BY <1>3, SeenIs
  <2> HIDE DEF a, k, u, n
  <2>5. a.start = k.start /\ a.got = k.got /\ a.eos = k.told
    BY <2>4
  <2>6. n - k.pos <= Size
    BY <1>2, <2>2, <2>3
  <2> QED
    BY <1>2, <2>2, <2>5, <2>6 DEF ServedAt, a
<1>4. CASE r = Owner
  <2>1. s.access = "WRITE" /\ ~s.deleted
    BY <1>4 DEF On
  <2>2. o.taken = SubSeq(s.log, 1, n - u) /\ (s.eos_out => s.eos_inp /\ u = 0)
    BY <1>1, <2>1 DEF OwnerOK
  <2> DEFINE a == Seen(s, o, r)
             m == n - u
  <2>3. a = [on |-> TRUE, start |-> 0, got |-> o.taken, eos |-> s.eos_out]
    BY <1>4, SeenIs
  <2>4. m \in Nat /\ m <= n /\ n - m = u
    <3> HIDE DEF u, n
    <3> QED
      BY <1>2
  <2>5. Len(o.taken) = m /\ o.taken = SubSeq(s.log, 1, m)
    <3> HIDE DEF m
    <3>1. o.taken = SubSeq(s.log, 1, m)
      BY <2>2 DEF m
    <3> QED
      BY <1>2, <2>4, <3>1, FirstOf
  <2> HIDE DEF a, m, u, n
  <2>6. a.start = 0 /\ a.got = o.taken /\ a.eos = s.eos_out
    BY <2>3
  <2>7. 0 + 1 = 1 /\ 0 + m = m /\ m + 0 = m
    BY <2>4
  <2>8. a.start + Len(a.got) = m /\ a.start + 1 = 1
    BY <2>5, <2>6, <2>7
  <2>9. (a.eos => m = n) /\ n - m <= Size
    BY <1>2, <2>2, <2>4, <2>6
  <2> QED
    BY <1>2, <2>2, <2>4, <2>5, <2>6, <2>8, <2>9 DEF ServedAt, a
<1> QED
  BY <1>3, <1>4

\* A reader from one state to the next, as Transfer demands.
Passed(a, b, l, closed) ==
  IF a.on
  THEN b.on /\ b.start = a.start /\ Heads(a.got, b.got) /\ (a.eos => b.eos)
       /\ ServedAt(b, l, closed)
  ELSE b = a

\* A callback or a command moves the readers onward.
LEMMA MovesSeen ==
  ASSUME NEW s, NEW o, NEW sn, Good(s, o, sn), NEW t, NEW p, NEW tn, Good(t, p, tn),
         Moves(s, o, t, p), NEW r \in Channels \cup {Owner}
  PROVE  Passed(Seen(s, o, r), Seen(t, p, r), t.log, t.eos_inp)
<1> DEFINE a == Seen(s, o, r)
           b == Seen(t, p, r)
<1>1. s \in StreamT /\ t \in StreamT /\ o \in OwnerT /\ p \in OwnerT
  BY DEF Good
<1>2. t.access = s.access /\ Clients(t) = Clients(s) /\ Grown(s, t)
  BY DEF Moves, Clients
<1>3. On(t, r) <=> On(s, r)
  <2>1. r = Owner /\ s.access = "WRITE" => (t.deleted <=> s.deleted)
    BY DEF Moves
  <2> QED
    BY <1>2, <2>1 DEF On, ReadClient
<1>4. CASE ~On(s, r)
  <2>1. a = OffSeen /\ b = OffSeen
    BY <1>3, <1>4, SeenIs
  <2>2. ~a.on
    BY <2>1 DEF OffSeen
  <2> QED
    BY <2>1, <2>2 DEF Passed
<1>5. CASE On(s, r)
  <2>1. a.on /\ b.on
    BY <1>3, <1>5, SeenIs
  <2>2. ServedAt(b, t.log, t.eos_inp)
    BY <1>3, <1>5, SeenServed
  <2>3. b.start = a.start /\ Heads(a.got, b.got) /\ (a.eos => b.eos)
    <3>1. CASE r = Owner
      <4>1. a = [on |-> TRUE, start |-> 0, got |-> o.taken, eos |-> s.eos_out]
        BY <1>5, <3>1, SeenIs
      <4>2. b = [on |-> TRUE, start |-> 0, got |-> p.taken, eos |-> t.eos_out]
        BY <1>3, <1>5, <3>1, SeenIs
      <4>3. s.access = "WRITE"
        BY <1>5, <3>1 DEF On
      <4>4. (s.eos_out => t.eos_out) /\ Begins(o.taken, p.taken)
        BY <4>3 DEF Moves
      <4>5. o.taken \in Seq(Byte) /\ p.taken \in Seq(Byte)
        BY <1>1, OwnerFields
      <4>6. Heads(o.taken, p.taken)
        BY <4>4, <4>5, HeadsIs DEF Begins
      <4> HIDE DEF a, b
      <4> QED
        BY <4>1, <4>2, <4>4, <4>6
    <3>2. CASE r # Owner
      <4> DEFINE k == s.cl[r]
                 m == t.cl[r]
      <4>1. r \in Channels /\ s.access = "READ" /\ t.access = "READ"
            /\ r \in Clients(s) /\ r \in Clients(t)
        BY <1>2, <1>5, <3>2 DEF On, ReadClient
      <4>2. a = [on |-> TRUE, start |-> k.start, got |-> k.got, eos |-> k.told]
        BY <1>5, <3>2, SeenIs
      <4>3. b = [on |-> TRUE, start |-> m.start, got |-> m.got, eos |-> m.told]
        BY <1>3, <1>5, <3>2, SeenIs
      <4>4. m.start = k.start /\ (k.told => m.told) /\ k.pos <= m.pos
        BY <4>1 DEF Moves, Onward
      <4>5. ReaderOK(s, k) /\ ReaderOK(t, m)
        BY <4>1 DEF Good, ReadersOK
      <4>6. k.got = SubSeq(s.log, k.start + 1, k.pos) /\ k.start + Len(k.got) = k.pos
            /\ k.pos <= s.pos
        BY <4>5 DEF ReaderOK
      <4>7. m.got = SubSeq(t.log, m.start + 1, m.pos) /\ m.pos <= t.pos
        BY <4>5 DEF ReaderOK
      <4>8. /\ k.start \in Nat /\ k.pos \in Nat /\ m.pos \in Nat /\ Len(k.got) \in Nat
            /\ s.log \in Seq(Byte) /\ t.log \in Seq(Byte)
        <5>1. k \in ClientT /\ m \in ClientT
          BY <1>1, <4>1, StreamFields
        <5> HIDE DEF k, m
        <5>2. k.start \in Nat /\ k.pos \in Nat /\ m.pos \in Nat /\ k.got \in Seq(Byte)
          BY <5>1 DEF ClientT
        <5> QED
          BY <1>1, <5>2, StreamFields, LenProperties
      <4>9. s.pos = Len(s.log) /\ t.pos = Len(t.log)
        BY DEF Good, Ring
      <4> HIDE DEF a, b, k, m
      <4>10. k.start <= k.pos /\ k.pos <= Len(s.log) /\ m.pos <= Len(t.log)
        BY <4>6, <4>7, <4>8, <4>9
      <4>11. Heads(SubSeq(s.log, k.start + 1, k.pos), SubSeq(t.log, k.start + 1, m.pos))
        <5>1. Len(s.log) <= Len(t.log) /\ \A i \in 1 .. Len(s.log) : t.log[i] = s.log[i]
          BY <1>2 DEF Grown
        <5> QED
          BY <4>4, <4>8, <4>10, <5>1, HeadsOfLog
      <4>12. Heads(k.got, m.got)
        BY <4>4, <4>6, <4>7, <4>11
      <4> QED
        BY <4>2, <4>3, <4>4, <4>12
    <3> QED
      BY <3>1, <3>2
  <2> QED
    BY <2>1, <2>2, <2>3, Zenon DEF Passed
<1> QED
  BY <1>4, <1>5

\* A reader from one state to the next, as Leave demands.
Gone(a, b) == b \in {a, OffSeen}

\* A client is deleted.
LEMMA LeavesSeen ==
  ASSUME NEW s, NEW o, NEW sn, Good(s, o, sn), NEW t, NEW p, NEW tn, Good(t, p, tn),
         NEW c \in Channels, Leaves(s, c, t), p.taken = o.taken, NEW r \in Channels \cup {Owner}
  PROVE  Gone(Seen(s, o, r), Seen(t, p, r))
<1> DEFINE a == Seen(s, o, r)
           b == Seen(t, p, r)
<1>1. /\ t.access = s.access /\ (t.deleted <=> s.deleted) /\ (t.eos_out <=> s.eos_out)
      /\ Clients(t) = Clients(s) \ {c} /\ \A d \in Channels \ {c} : t.cl[d] = s.cl[d]
  BY DEF Leaves
<1>2. s.eos_out \in BOOLEAN /\ t.eos_out \in BOOLEAN
  BY StreamFields DEF Good
<1>3. CASE ~On(t, r)
  <2>1. b = OffSeen
    BY <1>3, SeenIs
  <2> QED
    BY <2>1 DEF Gone
<1>4. CASE On(t, r) /\ r = Owner
  <2>1. On(s, r)
    BY <1>1, <1>4 DEF On
  <2>2. a = [on |-> TRUE, start |-> 0, got |-> o.taken, eos |-> s.eos_out]
    BY <1>4, <2>1, SeenIs
  <2>3. b = [on |-> TRUE, start |-> 0, got |-> p.taken, eos |-> t.eos_out]
    BY <1>4, SeenIs
  <2>4. t.eos_out = s.eos_out
    BY <1>1, <1>2
  <2>5. b = a
    BY <2>2, <2>3, <2>4, Zenon
  <2> QED
    BY <2>5 DEF Gone
<1>5. CASE On(t, r) /\ r # Owner
  <2>1. r \in Channels \ {c} /\ On(s, r)
    BY <1>1, <1>5 DEF On, ReadClient
  <2>2. a = [on |-> TRUE, start |-> s.cl[r].start, got |-> s.cl[r].got, eos |-> s.cl[r].told]
    BY <1>5, <2>1, SeenIs
  <2>3. b = [on |-> TRUE, start |-> t.cl[r].start, got |-> t.cl[r].got, eos |-> t.cl[r].told]
    BY <1>5, SeenIs
  <2>4. t.cl[r] = s.cl[r]
    BY <1>1, <2>1
  <2>5. b = a
    BY <2>2, <2>3, <2>4, Zenon
  <2> QED
    BY <2>5 DEF Gone
<1> QED
  BY <1>3, <1>4, <1>5

\* The owner of a "WRITE" stream deletes it.
LEMMA DeletedSeen ==
  ASSUME NEW s, NEW o, NEW sn, Good(s, o, sn), NEW t, NEW p, NEW tn, Good(t, p, tn),
         s.access = "WRITE", SameView(s, t), t.deleted, NEW r \in Channels \cup {Owner}
  PROVE  Gone(Seen(s, o, r), Seen(t, p, r))
<1>1. t.access = "WRITE"
  BY DEF SameView
<1>2. ~On(t, r)
  BY <1>1 DEF On, ReadClient
<1>3. Seen(t, p, r) = OffSeen
  BY <1>2, SeenIs
<1> QED
  BY <1>3 DEF Gone

\* A reader from one state to the next, as Join demands at the log l.
Came(a, b, l) ==
  \/ b = a
  \/ ~a.on /\ (\E n \in 0 .. Size : b = AtSeen(Len(l) - n)) /\ b.start >= 0

\* A new reader is one that joins at most Size bytes back.
LEMMA CameAt ==
  ASSUME NEW a, ~a.on, NEW b, NEW l, Len(l) \in Nat, NEW n \in 0 .. Size, n <= Len(l),
         b = AtSeen(Len(l) - n)
  PROVE  Came(a, b, l)
<1>1. Size \in Nat
  BY StreamsAssumption
<1>2. b.start = Len(l) - n
  BY DEF AtSeen
<1>3. b.start >= 0
  BY <1>1, <1>2
<1> QED
  BY <1>3 DEF Came

\* A client is created.
LEMMA JoinsSeen ==
  ASSUME NEW s, NEW o, NEW sn, Good(s, o, sn), NEW t, NEW p, NEW tn, Good(t, p, tn),
         NEW c \in Channels \ Clients(s), Joins(s, c, t), p.taken = o.taken,
         NEW r \in Channels \cup {Owner}
  PROVE  Came(Seen(s, o, r), Seen(t, p, r), s.log)
<1> DEFINE a == Seen(s, o, r)
           b == Seen(t, p, r)
<1>1. /\ t.access = s.access /\ t.deleted = s.deleted /\ Clients(t) = Clients(s) \cup {c}
      /\ t.cl[c] = NewClient(s.pos - Used(s)) /\ \A d \in Channels \ {c} : t.cl[d] = s.cl[d]
      /\ (t.eos_out <=> s.eos_out)
  BY DEF Joins, BytesSame
<1>2. s.eos_out \in BOOLEAN /\ t.eos_out \in BOOLEAN /\ s \in StreamT
  BY StreamFields DEF Good
<1>3. CASE ~On(t, r)
  <2>1. ~On(s, r)
    BY <1>1, <1>3 DEF On, ReadClient
  <2>2. b = OffSeen /\ a = OffSeen
    BY <1>3, <2>1, SeenIs
  <2> QED
    BY <2>2 DEF Came
<1>4. CASE On(t, r) /\ r = Owner
  <2>1. On(s, r)
    BY <1>1, <1>4 DEF On
  <2>2. a = [on |-> TRUE, start |-> 0, got |-> o.taken, eos |-> s.eos_out]
    BY <1>4, <2>1, SeenIs
  <2>3. b = [on |-> TRUE, start |-> 0, got |-> p.taken, eos |-> t.eos_out]
    BY <1>4, SeenIs
  <2>4. t.eos_out = s.eos_out
    BY <1>1, <1>2
  <2>5. b = a
    BY <2>2, <2>3, <2>4, Zenon
  <2> QED
    BY <2>5 DEF Came
<1>5. CASE On(t, r) /\ r # Owner /\ r # c
  <2>1. r \in Channels \ {c} /\ On(s, r)
    BY <1>1, <1>5 DEF On, ReadClient
  <2>2. a = [on |-> TRUE, start |-> s.cl[r].start, got |-> s.cl[r].got, eos |-> s.cl[r].told]
    BY <1>5, <2>1, SeenIs
  <2>3. b = [on |-> TRUE, start |-> t.cl[r].start, got |-> t.cl[r].got, eos |-> t.cl[r].told]
    BY <1>5, SeenIs
  <2>4. t.cl[r] = s.cl[r]
    BY <1>1, <2>1
  <2>5. b = a
    BY <2>2, <2>3, <2>4, Zenon
  <2> QED
    BY <2>5 DEF Came
<1>6. CASE On(t, r) /\ r # Owner /\ r = c
  <2> DEFINE u == Used(s)
             n == s.pos
  <2>1. ~On(s, r)
    BY <1>6 DEF On, ReadClient
  <2>2. ~a.on
    BY <2>1, SeenIs
  <2>3. b = [on |-> TRUE, start |-> t.cl[r].start, got |-> t.cl[r].got, eos |-> t.cl[r].told]
    BY <1>6, SeenIs
  <2>4. t.cl[r] = NewClient(n - u)
    BY <1>1, <1>6
  <2>5. b = AtSeen(n - u)
    <3> HIDE DEF n, u, b
    <3>1. t.cl[r].start = n - u /\ t.cl[r].got = <<>> /\ t.cl[r].told = FALSE
      BY <2>4 DEF NewClient
    <3> QED
      BY <2>3, <3>1, Zenon DEF AtSeen
  <2>6. n = Len(s.log) /\ n \in Nat /\ u \in 0 .. Size /\ u <= n
    BY <1>2, UsedFree, StreamFields DEF Good, Ring
  <2> HIDE DEF n, u, a, b
  <2>7. Len(s.log) \in Nat /\ u <= Len(s.log) /\ b = AtSeen(Len(s.log) - u)
    BY <2>5, <2>6
  <2>8. Came(a, b, s.log)
    BY <2>2, <2>6, <2>7, CameAt
  <2> QED
    BY <2>8 DEF a, b
<1> QED
  BY <1>3, <1>4, <1>5, <1>6

\* The stream is created, with the clients that had subscribed.
LEMMA OpensSeen ==
  ASSUME NEW s, NEW o, NEW sn, Good(s, o, sn), NEW t, NEW p, NEW tn, Good(t, p, tn),
         s = NoStream, p.taken = <<>>, NEW access, Opens(access, t),
         NEW r \in Channels \cup {Owner}
  PROVE  Came(Seen(s, o, r), Seen(t, p, r), s.log)
<1> DEFINE a == Seen(s, o, r)
           b == Seen(t, p, r)
<1>1. s.access = "none" /\ s.log = <<>>
  BY NoStreamFacts
<1>2. ~On(s, r)
  BY <1>1 DEF On, ReadClient
<1>3. a = OffSeen /\ ~a.on
  BY <1>2, SeenIs
<1>4. CASE ~On(t, r)
  <2>1. b = OffSeen
    BY <1>4, SeenIs
  <2> QED
    BY <1>3, <2>1 DEF Came
<1>5. CASE On(t, r)
  <2>1. b = AtSeen(0)
    <3>1. CASE r = Owner
      <4>1. b = [on |-> TRUE, start |-> 0, got |-> p.taken, eos |-> t.eos_out]
        BY <1>5, <3>1, SeenIs
      <4>2. t.eos_out \in BOOLEAN
        BY StreamFields DEF Good
      <4>3. t.eos_out = FALSE
        BY <4>2 DEF Opens
      <4> QED
        BY <4>1, <4>3, Zenon DEF AtSeen
    <3>2. CASE r # Owner
      <4>1. b = [on |-> TRUE, start |-> t.cl[r].start, got |-> t.cl[r].got, eos |-> t.cl[r].told]
        BY <1>5, <3>2, SeenIs
      <4>2. r \in Clients(t)
        BY <1>5, <3>2 DEF On, ReadClient
      <4>3. t.cl[r] = NewClient(0)
        BY <4>2 DEF Opens
      <4>4. t.cl[r].start = 0 /\ t.cl[r].got = <<>> /\ t.cl[r].told = FALSE
        BY <4>3 DEF NewClient
      <4> QED
        BY <4>1, <4>4, Zenon DEF AtSeen
    <3> QED
      BY <3>1, <3>2
  <2>2. Len(s.log) = 0 /\ 0 \in 0 .. Size /\ 0 - 0 = 0
    BY <1>1, EmptySeq, StreamsAssumption
  <2>3. b = AtSeen(Len(s.log) - 0)
    BY <2>1, <2>2
  <2> HIDE DEF a, b
  <2>4. Came(a, b, s.log)
    BY <1>3, <2>2, <2>3, CameAt
  <2> QED
    BY <2>4 DEF a, b
<1> QED
  BY <1>4, <1>5

\* Every step of the stream is a step of StreamSpec, or none.
LEMMA ImplementsStep ==
  ASSUME SInv, [Next]_vars
  PROVE  [Abstract!SpecNext]_(Abstract!absVars)
<1> DEFINE R == Channels \cup {Owner}
           A(r) == Seen(st, owner, r)
           B(r) == Seen(st', owner', r)
           at == [r \in R |-> Seen(st, owner, r)]
<1>1. Good(st, owner, sent) /\ Good(st', owner', sent')
  BY SInvStep DEF SInv
<1>2. \A r \in R : at[r] = A(r) /\ at'[r] = B(r)
  OBVIOUS
<1>3. CASE st' = st /\ owner' = owner
  <2>1. at' = at /\ st.log' = st.log /\ st.eos_inp' = st.eos_inp
    BY <1>3
  <2> QED
    BY <2>1 DEF Abstract!absVars
<1>4. CASE Moves(st, owner, st', owner')
  <2>1. \A r \in R : Passed(A(r), B(r), st'.log, st'.eos_inp)
    BY <1>1, <1>4, MovesSeen
  <2>2. Grown(st, st')
    BY <1>4 DEF Moves
  <2>3. st.log \in Seq(Byte) /\ st'.log \in Seq(Byte)
    BY <1>1, StreamFields DEF Good
  <2>4. Heads(st.log, st'.log) /\ (st.eos_inp => st'.eos_inp /\ st'.log = st.log)
    BY <2>2, <2>3, HeadsIs DEF Grown
  <2>5. Abstract!IsPrefix(st.log, st'.log)
    BY <2>4 DEF Heads, Abstract!IsPrefix
  <2>6. ASSUME NEW r \in R
        PROVE  IF at[r].on
               THEN /\ at'[r].on /\ at'[r].start = at[r].start
                    /\ Abstract!IsPrefix(at[r].got, at'[r].got)
                    /\ at[r].eos => at'[r].eos
                    /\ Abstract!Served(at'[r], st'.log, st'.eos_inp)
               ELSE at'[r] = at[r]
    <3> DEFINE a == at[r]
               b == at'[r]
               l == st'.log
               e == st'.eos_inp
    <3>1. Passed(a, b, l, e)
      BY <1>2, <2>1
    <3> HIDE DEF a, b, l, e
    <3>2. IF a.on
          THEN /\ b.on /\ b.start = a.start /\ Abstract!IsPrefix(a.got, b.got)
               /\ (a.eos => b.eos) /\ Abstract!Served(b, l, e)
          ELSE b = a
      BY <3>1, Zenon DEF Passed, Heads, ServedAt, Abstract!IsPrefix, Abstract!Served, Abstract!Place
    <3> QED
      BY <3>2, Zenon DEF a, b, l, e
  <2>7. Abstract!Transfer
    BY <2>4, <2>5, <2>6 DEF Abstract!Transfer
  <2> QED
    BY <2>7 DEF Abstract!SpecNext
<1>5. ASSUME st'.log = st.log, st'.eos_inp = st.eos_inp, \A r \in R : Gone(A(r), B(r))
      PROVE  Abstract!SpecNext
  <2>1. ASSUME NEW r \in R PROVE at'[r] \in {at[r], Abstract!Off}
    BY <1>2, <1>5 DEF Gone, OffSeen, Abstract!Off
  <2>2. Abstract!Leave
    BY <1>5, <2>1 DEF Abstract!Leave
  <2> QED
    BY <2>2 DEF Abstract!SpecNext
<1>6. ASSUME st'.log = st.log, st'.eos_inp = st.eos_inp, \A r \in R : Came(A(r), B(r), st.log)
      PROVE  Abstract!SpecNext
  <2>1. ASSUME NEW r \in R
        PROVE  \/ at'[r] = at[r]
               \/ /\ ~at[r].on
                  /\ \E n \in 0 .. Size : at'[r] = Abstract!At(Len(st.log) - n)
                  /\ at'[r].start >= 0
    <3> DEFINE a == at[r]
               b == at'[r]
               l == st.log
    <3>1. Came(a, b, l)
      BY <1>2, <1>6
    <3> HIDE DEF a, b, l
    <3>2. \/ b = a
          \/ ~a.on /\ (\E n \in 0 .. Size : b = Abstract!At(Len(l) - n)) /\ b.start >= 0
      BY <3>1, Zenon DEF Came, AtSeen, Abstract!At
    <3> QED
      BY <3>2, Zenon DEF a, b, l
  <2>2. Abstract!Join
    BY <1>6, <2>1 DEF Abstract!Join
  <2> QED
    BY <2>2 DEF Abstract!SpecNext
<1>7. st.eos_inp \in BOOLEAN /\ st'.eos_inp \in BOOLEAN
  BY <1>1, StreamFields DEF Good
<1>8. ASSUME NEW c \in Channels, Leaves(st, c, st'), owner'.taken = owner.taken
      PROVE  Abstract!SpecNext
  <2>1. st'.log = st.log /\ st'.eos_inp = st.eos_inp
    BY <1>7, <1>8 DEF Leaves
  <2>2. \A r \in R : Gone(A(r), B(r))
    BY <1>1, <1>8, LeavesSeen
  <2> QED
    BY <1>5, <2>1, <2>2
<1>9. ASSUME st.access = "WRITE", SameView(st, st'), st'.deleted
      PROVE  Abstract!SpecNext
  <2>1. st'.log = st.log /\ st'.eos_inp = st.eos_inp
    BY <1>7, <1>9 DEF SameView, BytesSame
  <2>2. \A r \in R : Gone(A(r), B(r))
    BY <1>1, <1>9, DeletedSeen
  <2> QED
    BY <1>5, <2>1, <2>2
<1>10. ASSUME NEW c \in Channels \ Clients(st), Joins(st, c, st'), owner'.taken = owner.taken
       PROVE  Abstract!SpecNext
  <2>1. st'.log = st.log /\ st'.eos_inp = st.eos_inp
    BY <1>7, <1>10 DEF Joins, BytesSame
  <2>2. \A r \in R : Came(A(r), B(r), st.log)
    BY <1>1, <1>10, JoinsSeen
  <2> QED
    BY <1>6, <2>1, <2>2
<1>11. ASSUME st = NoStream, owner'.taken = <<>>, NEW access, Opens(access, st')
       PROVE  Abstract!SpecNext
  <2>1. st'.log = st.log /\ st'.eos_inp = st.eos_inp
    BY <1>7, <1>11, NoStreamFacts DEF Opens
  <2>2. \A r \in R : Came(A(r), B(r), st.log)
    BY <1>1, <1>11, OpensSeen
  <2> QED
    BY <1>6, <2>1, <2>2
<1>12. (st' = st /\ owner' = owner) \/ Step(st, owner, st', owner')
  BY SInvStep
<1> QED
  BY <1>3, <1>4, <1>8, <1>9, <1>10, <1>11, <1>12 DEF Step

\* Nobody has joined a stream that does not exist.
LEMMA ImplementsInit ==
  ASSUME Init
  PROVE  Abstract!SpecInit
<1>1. st = NoStream /\ Good(st, owner, sent)
  BY SInvInit DEF Init, SInv
<1>2. st.access = "none" /\ st.log = <<>> /\ st.eos_inp \in BOOLEAN /\ ~st.eos_inp
  BY <1>1, NoStreamFacts, StreamFields
<1>3. ASSUME NEW r \in Channels \cup {Owner} PROVE Seen(st, owner, r) = Abstract!Off
  <2>1. ~On(st, r)
    BY <1>2 DEF On, ReadClient
  <2> QED
    BY <1>1, <2>1, SeenIs DEF OffSeen, Abstract!Off
<1> QED
  BY <1>2, <1>3 DEF Abstract!SpecInit

\* The ring buffer, the parked requests and the callbacks implement StreamSpec
\* (virtual_stream_add_data, virtual_stream_get_data, send_read_reply,
\* advance_stream_buffer): no reader misses, repeats or reorders a byte, none
\* is told the end early, none is overtaken.
THEOREM StreamIsImplemented == Spec => StreamImplemented
<1>1. Init => Abstract!SpecInit
  BY ImplementsInit
<1>2. SInv /\ [Next]_vars => [Abstract!SpecNext]_(Abstract!absVars)
  BY ImplementsStep
<1> QED
  BY <1>1, <1>2, StreamAgrees, PTL DEF Spec, StreamImplemented, Abstract!AbsSpec
=============================================================================
