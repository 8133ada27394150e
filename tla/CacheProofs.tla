---------------------------- MODULE CacheProofs ----------------------------
(***************************************************************************)
(* Proofs about Cache: a parked client is parked once, holds one lock on   *)
(* its channel and its copied arguments exactly while it is parked, and    *)
(* its transaction is committed once, for any number of caches, channels,  *)
(* clients and misses and for any width of the transaction id.             *)
(***************************************************************************)
EXTENDS Cache, ProofLemmas

Queue == Seq(Client)

-----------------------------------------------------------------------------
(* The lists of clients.                                                   *)

\* A client is parked exactly if it stands at some place of some list.
Stands(c, b, w, e) ==
  \/ \E i \in DOMAIN b : b[i] = c
  \/ \E k \in Caches : \E i \in DOMAIN w[k] : w[k][i] = c
  \/ \E j \in DOMAIN e : \E i \in DOMAIN e[j] : e[j][i] = c

\* A client is on a list exactly when it has a place on one.
LEMMA OnSomeList ==
  ASSUME NEW b, NEW w, NEW e
  PROVE  \A c : c \in ClientsOn(b, w, e) <=> Stands(c, b, w, e)
<1> TAKE c
<1>1. \A q : c \in ToSet(q) <=> \E i \in DOMAIN q : q[i] = c
  BY DEF ToSet
<1> DEFINE W == UNION {ToSet(w[k]) : k \in Caches}
           E == UNION {ToSet(e[i]) : i \in DOMAIN e}
<1>2. c \in W <=> \E k \in Caches : c \in ToSet(w[k])
  OBVIOUS
<1>3. c \in E <=> \E j \in DOMAIN e : c \in ToSet(e[j])
  OBVIOUS
<1>4. ClientsOn(b, w, e) = ToSet(b) \cup W \cup E
  BY DEF ClientsOn
<1> HIDE DEF W, E
<1>5. /\ c \in ToSet(b) <=> \E i \in DOMAIN b : b[i] = c
      /\ \A k \in Caches : c \in ToSet(w[k]) <=> \E i \in DOMAIN w[k] : w[k][i] = c
      /\ \A j \in DOMAIN e : c \in ToSet(e[j]) <=> \E i \in DOMAIN e[j] : e[j][i] = c
  BY <1>1
<1> QED
  BY <1>2, <1>3, <1>4, <1>5 DEF Stands

\* The end of a run drops the first client of the batch, and no other.
LEMMA DropHead ==
  ASSUME NEW b \in Queue, NEW w \in [Caches -> Queue], NEW e \in Seq(Queue),
         b # <<>>, OnOneList(b, w, e)
  PROVE  /\ ClientsOn(Tail(b), w, e) = ClientsOn(b, w, e) \ {Head(b)}
         /\ OnOneList(Tail(b), w, e)
         /\ \A c \in ClientsOn(Tail(b), w, e) : c.ticket # Head(b).ticket
         /\ Head(b) \in ClientsOn(b, w, e)
<1>0. /\ \A x : x \in ClientsOn(Tail(b), w, e) <=> Stands(x, Tail(b), w, e)
      /\ \A x : x \in ClientsOn(b, w, e) <=> Stands(x, b, w, e)
  BY OnSomeList
<1>1. /\ Len(b) \in Nat \ {0} /\ DOMAIN b = 1 .. Len(b)
      /\ DOMAIN Tail(b) = 1 .. Len(b) - 1
      /\ \A i \in DOMAIN Tail(b) : Tail(b)[i] = b[i + 1]
      /\ Head(b) = b[1]
  BY TailPlaces DEF Queue
<1>2. \A i \in DOMAIN b : i # 1 => i - 1 \in DOMAIN Tail(b) /\ Tail(b)[i - 1] = b[i]
  BY <1>1
<1>3. \A i \in DOMAIN Tail(b) : i + 1 \in DOMAIN b /\ i + 1 # 1
  BY <1>1
<1>4. 1 \in DOMAIN b
  BY <1>1
<1>5. \A c \in ClientsOn(Tail(b), w, e) : c.ticket # Head(b).ticket /\ c \in ClientsOn(b, w, e)
  BY <1>1, <1>3, <1>4, <1>0 DEF OnOneList, NoRepeat, Apart, Stands
<1>6. \A c \in ClientsOn(b, w, e) : c = Head(b) \/ c \in ClientsOn(Tail(b), w, e)
  BY <1>1, <1>2, <1>0 DEF Stands
<1>7. Head(b) \in ClientsOn(b, w, e)
  BY <1>1, <1>4, <1>0 DEF Stands
<1>8. ClientsOn(Tail(b), w, e) = ClientsOn(b, w, e) \ {Head(b)}
  BY <1>5, <1>6
<1>9. NoRepeat(Tail(b))
  <2> SUFFICES ASSUME NEW i \in DOMAIN Tail(b), NEW j \in DOMAIN Tail(b),
                      Tail(b)[i].ticket = Tail(b)[j].ticket
               PROVE  i = j
    BY DEF NoRepeat
  <2>1. i + 1 = j + 1
    BY <1>1, <1>3 DEF OnOneList, NoRepeat
  <2> QED
    BY <1>1, <2>1
<1>10. OnOneList(Tail(b), w, e)
  BY <1>1, <1>3, <1>9 DEF OnOneList, Apart
<1> QED
  BY <1>5, <1>7, <1>8, <1>10

\* A client that is on no list is parked on the list of one cache.
Extended(w, k, c) == [w EXCEPT ![k] = Append(w[k], c)]

\* A client that is parked joins those on the lists, each still once.
LEMMA ParkOne ==
  ASSUME NEW b \in Queue, NEW w \in [Caches -> Queue], NEW e \in Seq(Queue),
         OnOneList(b, w, e), NEW k \in Caches, NEW c \in Client,
         \A d \in ClientsOn(b, w, e) : d.ticket # c.ticket
  PROVE  /\ ClientsOn(b, Extended(w, k, c), e) = ClientsOn(b, w, e) \cup {c}
         /\ OnOneList(b, Extended(w, k, c), e) /\ Extended(w, k, c) \in [Caches -> Queue]
<1> DEFINE n == Len(w[k]) + 1
           v == Extended(w, k, c)
<1>0. /\ \A x : x \in ClientsOn(b, v, e) <=> Stands(x, b, v, e)
      /\ \A x : x \in ClientsOn(b, w, e) <=> Stands(x, b, w, e)
  BY OnSomeList
<1>1. /\ Len(w[k]) \in Nat /\ DOMAIN w[k] = 1 .. Len(w[k]) /\ DOMAIN v[k] = 1 .. n
      /\ \A i \in DOMAIN w[k] : v[k][i] = w[k][i]
      /\ v[k][n] = c /\ v[k] \in Queue
  <2>1. w[k] \in Seq(Client) /\ v[k] = Append(w[k], c)
    BY DEF Queue, Extended
  <2> QED
    BY <2>1, AppendPlaces DEF Queue
<1>2. \A l \in Caches : l # k => v[l] = w[l]
  BY DEF Extended
<1>3. v \in [Caches -> Queue]
  BY <1>1, <1>2 DEF Extended
<1>4. n \in DOMAIN v[k] /\ \A i \in DOMAIN v[k] : i = n \/ i \in DOMAIN w[k]
  BY <1>1
<1>5. \A i \in DOMAIN w[k] : i \in DOMAIN v[k]
  BY <1>1
<1> HIDE DEF n, v
<1>6. ClientsOn(b, v, e) = ClientsOn(b, w, e) \cup {c}
  <2>1. \A d \in ClientsOn(b, v, e) : d = c \/ d \in ClientsOn(b, w, e)
    BY <1>1, <1>2, <1>4, <1>0 DEF Stands
  <2>2. \A d \in ClientsOn(b, w, e) : d \in ClientsOn(b, v, e)
    <3> SUFFICES ASSUME NEW d, Stands(d, b, w, e) PROVE Stands(d, b, v, e)
      BY <1>0
    <3>1. CASE \E l \in Caches : \E i \in DOMAIN w[l] : w[l][i] = d
      <4>0. PICK l \in Caches : \E i \in DOMAIN w[l] : w[l][i] = d
        BY <3>1
      <4>1. PICK i \in DOMAIN w[l] : w[l][i] = d
        BY <4>0
      <4>2. i \in DOMAIN v[l] /\ v[l][i] = d
        BY <1>1, <1>2, <1>5, <4>1
      <4> QED
        BY <4>2 DEF Stands
    <3> QED
      BY <3>1 DEF Stands
  <2>3. c \in ClientsOn(b, v, e)
    BY <1>1, <1>4, <1>0 DEF Stands
  <2> QED
    BY <2>1, <2>2, <2>3
<1>7. /\ \A i \in DOMAIN b : b[i].ticket # c.ticket
      /\ \A l \in Caches : \A i \in DOMAIN w[l] : w[l][i].ticket # c.ticket
      /\ \A j \in DOMAIN e : \A i \in DOMAIN e[j] : e[j][i].ticket # c.ticket
  BY <1>0 DEF Stands
<1>8. NoRepeat(v[k]) /\ Apart(b, v[k])
  <2>1. NoRepeat(w[k]) /\ Apart(b, w[k])
    BY DEF OnOneList
  <2>2. NoRepeat(v[k])
    BY SMTT(40), <1>1, <1>4, <1>7, <2>1 DEF NoRepeat
  <2>3. Apart(b, v[k])
    BY <1>1, <1>4, <1>7, <2>1 DEF Apart
  <2> QED
    BY <2>2, <2>3
<1>9. \A l \in Caches : l # k => Apart(v[k], v[l]) /\ Apart(v[l], v[k])
  BY SMTT(40), <1>1, <1>2, <1>4, <1>7 DEF OnOneList, Apart
<1>10. ASSUME NEW j \in DOMAIN e PROVE Apart(v[k], e[j])
  <2>1. Apart(w[k], e[j])
    BY DEF OnOneList
  <2> QED
    BY <1>1, <1>4, <1>7, <2>1 DEF Apart
<1>11. OnOneList(b, v, e)
  BY <1>2, <1>8, <1>9, <1>10 DEF OnOneList
<1> QED
  BY <1>3, <1>6, <1>11 DEF v

\* cache_notify takes the clients of a cache as the batch.
LEMMA TakeAsBatch ==
  ASSUME NEW w \in [Caches -> Queue], NEW e \in Seq(Queue), OnOneList(<<>>, w, e),
         NEW k \in Caches, NEW v, v = [w EXCEPT ![k] = <<>>]
  PROVE  /\ ClientsOn(w[k], v, e) = ClientsOn(<<>>, w, e)
         /\ OnOneList(w[k], v, e) /\ v \in [Caches -> Queue]
<1>0. /\ \A x : x \in ClientsOn(w[k], v, e) <=> Stands(x, w[k], v, e)
      /\ \A x : x \in ClientsOn(<<>>, w, e) <=> Stands(x, <<>>, w, e)
  BY OnSomeList
<1>1. /\ v[k] = <<>> /\ DOMAIN v[k] = {} /\ \A l \in Caches : l # k => v[l] = w[l]
      /\ v \in [Caches -> Queue]
  BY DEF Queue
<1>2. \A c : c \in ClientsOn(w[k], v, e) <=> c \in ClientsOn(<<>>, w, e)
  <2> SUFFICES ASSUME NEW c PROVE Stands(c, w[k], v, e) <=> Stands(c, <<>>, w, e)
    BY <1>0
  <2>1. ~ \E i \in DOMAIN <<>> : <<>>[i] = c
    OBVIOUS
  <2>2. (\E l \in Caches : \E i \in DOMAIN w[l] : w[l][i] = c)
          <=> \/ \E i \in DOMAIN w[k] : w[k][i] = c
              \/ \E l \in Caches : \E i \in DOMAIN v[l] : v[l][i] = c
    BY <1>1
  <2> QED
    BY <2>1, <2>2 DEF Stands
<1>3. OnOneList(w[k], v, e)
  BY <1>1 DEF OnOneList, NoRepeat, Apart
<1> QED
  BY <1>1, <1>2, <1>3

\* cache_notify_later takes the clients of a cache as a posted list.
Emptied(w, k)   == [w EXCEPT ![k] = <<>>]
Posted(w, k, e) == Append(e, w[k])

\* A list that becomes an event keeps every client, once.
LEMMA TakeAsEvent ==
  ASSUME NEW b \in Queue, NEW w \in [Caches -> Queue], NEW e \in Seq(Queue),
         OnOneList(b, w, e), NEW k \in Caches
  PROVE  /\ ClientsOn(b, Emptied(w, k), Posted(w, k, e)) = ClientsOn(b, w, e)
         /\ OnOneList(b, Emptied(w, k), Posted(w, k, e))
         /\ Emptied(w, k) \in [Caches -> Queue] /\ Posted(w, k, e) \in Seq(Queue)
<1> DEFINE n == Len(e) + 1
           v == Emptied(w, k)
           f == Posted(w, k, e)
<1>0. /\ \A x : x \in ClientsOn(b, v, f) <=> Stands(x, b, v, f)
      /\ \A x : x \in ClientsOn(b, w, e) <=> Stands(x, b, w, e)
  BY OnSomeList
<1>1. /\ v[k] = <<>> /\ DOMAIN v[k] = {} /\ \A l \in Caches : l # k => v[l] = w[l]
      /\ v \in [Caches -> Queue]
  BY DEF Queue, Emptied
<1>2. /\ DOMAIN e = 1 .. Len(e) /\ Len(e) \in Nat /\ DOMAIN f = 1 .. n
      /\ \A j \in DOMAIN e : f[j] = e[j]
      /\ f[n] = w[k] /\ f \in Seq(Queue)
  BY AppendPlaces DEF Posted
<1>3. n \in DOMAIN f /\ n \notin DOMAIN e /\ \A j \in DOMAIN f : j = n \/ j \in DOMAIN e
  BY <1>2
<1>4. \A j \in DOMAIN e : j \in DOMAIN f
  BY <1>2
<1> HIDE DEF n, v, f
<1>5. \A c : c \in ClientsOn(b, v, f) => c \in ClientsOn(b, w, e)
  BY <1>1, <1>2, <1>3, <1>0 DEF Stands
<1>6. \A c : c \in ClientsOn(b, w, e) => c \in ClientsOn(b, v, f)
  <2> SUFFICES ASSUME NEW c, Stands(c, b, w, e) PROVE Stands(c, b, v, f)
    BY <1>0
  <2>1. CASE \E l \in Caches : \E i \in DOMAIN w[l] : w[l][i] = c
    <3>0. PICK l \in Caches : \E i \in DOMAIN w[l] : w[l][i] = c
      BY <2>1
    <3>1. PICK i \in DOMAIN w[l] : w[l][i] = c
      BY <3>0
    <3>2. CASE l = k
      <4>1. n \in DOMAIN f /\ i \in DOMAIN f[n] /\ f[n][i] = c
        BY <1>2, <1>3, <3>1, <3>2
      <4> QED
        BY <4>1 DEF Stands
    <3>3. CASE l # k
      <4>1. i \in DOMAIN v[l] /\ v[l][i] = c
        BY <1>1, <3>1, <3>3
      <4> QED
        BY <4>1 DEF Stands
    <3> QED
      BY <3>2, <3>3
  <2>2. CASE \E j \in DOMAIN e : \E i \in DOMAIN e[j] : e[j][i] = c
    <3>0. PICK j \in DOMAIN e : \E i \in DOMAIN e[j] : e[j][i] = c
      BY <2>2
    <3>1. PICK i \in DOMAIN e[j] : e[j][i] = c
      BY <3>0
    <3>2. j \in DOMAIN f /\ f[j] = e[j]
      BY <1>2, <1>4
    <3> QED
      BY <3>1, <3>2 DEF Stands
  <2> QED
    BY <2>1, <2>2 DEF Stands
<1>7. /\ NoRepeat(b)
      /\ \A l \in Caches : NoRepeat(v[l]) /\ Apart(b, v[l])
      /\ \A l, m \in Caches : l # m => Apart(v[l], v[m])
  BY <1>1 DEF OnOneList, NoRepeat, Apart
<1>8. \A j \in DOMAIN f : NoRepeat(f[j]) /\ Apart(b, f[j])
  BY <1>2, <1>3 DEF OnOneList
<1>9. \A i, j \in DOMAIN f : i # j => Apart(f[i], f[j])
  BY <1>2, <1>3 DEF OnOneList, Apart
<1>10. \A l \in Caches, j \in DOMAIN f : Apart(v[l], f[j])
  BY <1>1, <1>2, <1>3 DEF OnOneList, Apart
<1>11. OnOneList(b, v, f)
  BY <1>7, <1>8, <1>9, <1>10 DEF OnOneList
<1> QED
  BY <1>1, <1>2, <1>5, <1>6, <1>11 DEF v, f

\* cache_notify_event takes a posted list as the batch.
LEMMA EventAsBatch ==
  ASSUME NEW w \in [Caches -> Queue], NEW e \in Seq(Queue), e # <<>>,
         OnOneList(<<>>, w, e)
  PROVE  /\ ClientsOn(Head(e), w, Tail(e)) = ClientsOn(<<>>, w, e)
         /\ OnOneList(Head(e), w, Tail(e)) /\ Head(e) \in Queue /\ Tail(e) \in Seq(Queue)
<1>0. /\ \A x : x \in ClientsOn(Head(e), w, Tail(e)) <=> Stands(x, Head(e), w, Tail(e))
      /\ \A x : x \in ClientsOn(<<>>, w, e) <=> Stands(x, <<>>, w, e)
  BY OnSomeList
<1>1. /\ Len(e) \in Nat \ {0} /\ DOMAIN e = 1 .. Len(e)
      /\ DOMAIN Tail(e) = 1 .. Len(e) - 1
      /\ \A i \in DOMAIN Tail(e) : Tail(e)[i] = e[i + 1]
      /\ Head(e) = e[1] /\ Head(e) \in Queue /\ Tail(e) \in Seq(Queue)
  BY TailPlaces
<1>2. \A i \in DOMAIN e : i # 1 => i - 1 \in DOMAIN Tail(e) /\ Tail(e)[i - 1] = e[i]
  BY <1>1
<1>3. \A i \in DOMAIN Tail(e) : i + 1 \in DOMAIN e /\ i + 1 # 1
  BY <1>1
<1>4. 1 \in DOMAIN e
  BY <1>1
<1>5. \A i, j \in DOMAIN Tail(e) : i # j => i + 1 # j + 1
  BY <1>1
<1>6. \A c : c \in ClientsOn(Head(e), w, Tail(e)) => c \in ClientsOn(<<>>, w, e)
  BY <1>1, <1>3, <1>4, <1>0 DEF Stands
<1>7. \A c : c \in ClientsOn(<<>>, w, e) => c \in ClientsOn(Head(e), w, Tail(e))
  <2> SUFFICES ASSUME NEW c, Stands(c, <<>>, w, e) PROVE Stands(c, Head(e), w, Tail(e))
    BY <1>0
  <2>1. ~ \E i \in DOMAIN <<>> : <<>>[i] = c
    OBVIOUS
  <2>2. CASE \E j \in DOMAIN e : \E i \in DOMAIN e[j] : e[j][i] = c
    <3>0. PICK j \in DOMAIN e : \E i \in DOMAIN e[j] : e[j][i] = c
      BY <2>2
    <3>1. PICK i \in DOMAIN e[j] : e[j][i] = c
      BY <3>0
    <3>2. CASE j = 1
      BY <1>1, <3>1, <3>2 DEF Stands
    <3>3. CASE j # 1
      <4>1. j - 1 \in DOMAIN Tail(e) /\ Tail(e)[j - 1] = e[j]
        BY <1>2, <3>3
      <4> QED
        BY <3>1, <4>1 DEF Stands
    <3> QED
      BY <3>2, <3>3
  <2> QED
    BY <2>1, <2>2 DEF Stands
<1>8. NoRepeat(e[1]) /\ \A k \in Caches : NoRepeat(w[k]) /\ Apart(e[1], w[k])
  BY <1>4 DEF OnOneList, Apart
<1>9. /\ \A j \in DOMAIN Tail(e) : NoRepeat(Tail(e)[j]) /\ Apart(e[1], Tail(e)[j])
      /\ \A i, j \in DOMAIN Tail(e) : i # j => Apart(Tail(e)[i], Tail(e)[j])
      /\ \A k \in Caches, i \in DOMAIN Tail(e) : Apart(w[k], Tail(e)[i])
  BY <1>1, <1>3, <1>4, <1>5 DEF OnOneList
<1>10. OnOneList(Head(e), w, Tail(e))
  BY <1>1, <1>8, <1>9 DEF OnOneList
<1> QED
  BY <1>1, <1>6, <1>7, <1>10

-----------------------------------------------------------------------------
(* The invariant.                                                          *)

Typed ==
  /\ pc \in {"idle", "run", "tail"}
  /\ current_cache \subseteq Caches
  /\ id_cnt \in 0 .. IdMod - 1
  /\ wait_list \in [Caches -> Queue] /\ batch \in Queue /\ events \in Seq(Queue)
  /\ lock_cnt \in [Channels -> Int]
  /\ tickets \in 0 .. MaxEnter
  /\ commits \in [Tickets -> Nat]

\* Clients are parked with the ids of transactions that were entered.
Known == /\ IsFiniteSet(Parked)
         /\ \A c \in Parked : c \in Client /\ c.ticket <= tickets /\ c.id # 0

\* A client that runs again is the first of the batch; one that runs for the
\* first time is not parked and owns no copy.
Running ==
  /\ pc # "run" => current_client = NoClient
  /\ pc = "run" => /\ current_client \in Client /\ current_client.id # 0
                   /\ current_client.ticket <= tickets
  /\ pc = "run" /\ batch # <<>> => current_client = Head(batch)
  /\ pc = "run" /\ batch = <<>> => /\ ~current_client.args_copy
                                   /\ \A c \in Parked : c.ticket # current_client.ticket

\* The copies of the clients in P.
Copies(P) == {c.ticket : c \in {d \in P : d.args_copy}}

\* The client that is being run again.
Dropped == IF batch = <<>> THEN {} ELSE {Head(batch)}

\* A run frees the copy of its own client.
FreesOwn == args_copy = IF pc = "idle" THEN {} ELSE Copies(Dropped)

\* Only the client that has just committed is still in the batch.
Uncommitted ==
  /\ \A t \in Tickets : commits[t] <= 1 /\ (t > tickets => commits[t] = 0)
  /\ \A c \in Parked : commits[c.ticket] = 0 \/ (pc = "tail" /\ c \in Dropped)
  /\ pc = "run" => commits[current_client.ticket] = 0

ClientsInv == /\ Typed /\ Known /\ Running /\ FreesOwn /\ Uncommitted
              /\ ParkedOnce /\ LocksMatchWaiters /\ ArgsOwned

\* What is left of the batch after a run.
Rest == IF batch = <<>> THEN batch ELSE Tail(batch)

Left == ClientsOn(Rest, wait_list, events)

\* What a run of the clients leaves on the lists.
LEMMA AfterRun ==
  ASSUME Typed, Known, Running, ParkedOnce
  PROVE  /\ Left = Parked \ Dropped /\ Dropped \subseteq Parked
         /\ OnOneList(Rest, wait_list, events) /\ Rest \in Queue
         /\ \A c \in Left, d \in Dropped : c.ticket # d.ticket
         /\ pc = "run" => \A c \in Left : c.ticket # current_client.ticket
<1>1. CASE batch = <<>>
  BY <1>1 DEF Typed, Running, ParkedOnce, Parked, Left, Rest, Dropped
<1>2. CASE batch # <<>>
  <2>1. /\ ClientsOn(Tail(batch), wait_list, events)
             = ClientsOn(batch, wait_list, events) \ {Head(batch)}
        /\ OnOneList(Tail(batch), wait_list, events)
        /\ \A c \in ClientsOn(Tail(batch), wait_list, events) : c.ticket # Head(batch).ticket
        /\ Head(batch) \in ClientsOn(batch, wait_list, events)
    BY <1>2, DropHead DEF Typed, ParkedOnce
  <2>2. Tail(batch) \in Queue
    BY <1>2, TailPlaces DEF Typed, Queue
  <2>3. Rest = Tail(batch) /\ Dropped = {Head(batch)}
    BY <1>2 DEF Rest, Dropped
  <2>4. pc = "run" => current_client = Head(batch)
    BY <1>2 DEF Running
  <2> QED
    BY <2>1, <2>2, <2>3, <2>4 DEF Parked, Left
<1> QED
  BY <1>1, <1>2

On(h) == {c \in Client : c.channel = h}

\* The locks on h that go with the clients in P.
LEMMA LocksOf ==
  ASSUME NEW P, P \subseteq Client, NEW h
  PROVE  {c \in P : c.channel = h} = P \cap On(h)
BY DEF On

Gone(h) == IF batch # <<>> /\ Head(batch).channel = h THEN 1 ELSE 0

\* Each retried client gives back one lock of its channel.
LEMMA UnlockFacts ==
  ASSUME Typed, NEW locks \in [Channels -> Int]
  PROVE  /\ UnlockRetried(locks) \in [Channels -> Int]
         /\ \A h \in Channels : UnlockRetried(locks)[h] = locks[h] - Gone(h)
<1>1. NoChannel \notin Channels
  BY CacheAssumption
<1>2. CASE batch # <<>> /\ Head(batch).channel # NoChannel
  <2> DEFINE g == Head(batch).channel
  <2>1. g \in Channels
    <3>1. Head(batch) \in Client
      BY <1>2, TailPlaces DEF Typed, Queue
    <3> QED
      BY <1>2, <3>1 DEF Client
  <2>2. UnlockRetried(locks) = [locks EXCEPT ![g] = @ - 1]
    BY <1>2 DEF UnlockRetried
  <2>3. \A h \in Channels : Gone(h) = IF h = g THEN 1 ELSE 0
    BY <1>2 DEF Gone
  <2> HIDE DEF g
  <2> QED
    BY <2>1, <2>2, <2>3
<1>3. CASE ~(batch # <<>> /\ Head(batch).channel # NoChannel)
  BY <1>1, <1>3 DEF UnlockRetried, Gone
<1> QED
  BY <1>2, <1>3

\* The locks that remain after a run are those of the clients that are left.
LEMMA LocksLeft ==
  ASSUME Typed, Known, Running, ParkedOnce, LocksMatchWaiters, NEW h \in Channels
  PROVE  /\ lock_cnt[h] - Gone(h) = Cardinality({c \in Left : c.channel = h})
         /\ IsFiniteSet(Left) /\ Left \subseteq Client
<1>1. Left = Parked \ Dropped /\ Dropped \subseteq Parked
  BY AfterRun
<1>2. IsFiniteSet(Parked) /\ Parked \subseteq Client /\ Left \subseteq Client
  BY <1>1 DEF Known
<1>3. IsFiniteSet(Left)
  BY <1>1, <1>2, FS_Subset
<1>4. lock_cnt[h] = Cardinality(Parked \cap On(h))
  BY <1>2, LocksOf DEF LocksMatchWaiters
<1>5. Cardinality(Left \cap On(h)) = Cardinality(Parked \cap On(h)) - Gone(h)
  <2>1. CASE batch = <<>>
    <3>1. Left = Parked /\ Gone(h) = 0
      BY <1>1, <2>1 DEF Dropped, Gone
    <3>2. Cardinality(Parked \cap On(h)) \in Nat
      BY <1>2, MeetFinite
    <3> QED
      BY <3>1, <3>2
  <2>2. CASE batch # <<>>
    <3> DEFINE x == Head(batch)
    <3>1. x \in Parked /\ Left = Parked \ {x}
      BY <1>1, <2>2 DEF Dropped
    <3>2. Gone(h) = IF x \in On(h) THEN 1 ELSE 0
      BY <1>2, <2>2, <3>1 DEF Gone, On
    <3> HIDE DEF x
    <3> QED
      BY <1>2, <3>1, <3>2, MeetRemove
  <2> QED
    BY <2>1, <2>2
<1>6. {c \in Left : c.channel = h} = Left \cap On(h)
  BY <1>2, LocksOf
<1>7. lock_cnt[h] \in Int /\ Gone(h) \in Int /\ Cardinality(Parked \cap On(h)) \in Nat
  <2>1. Cardinality(Parked \cap On(h)) \in Nat
    BY <1>2, MeetFinite
  <2> QED
    BY <2>1 DEF Typed, Gone
<1> QED
  BY <1>2, <1>3, <1>4, <1>5, <1>6, <1>7

\* The copies that remain after a run.
LEMMA CopiesLeft ==
  ASSUME Typed, Known, Running, ParkedOnce, ArgsOwned, FreesOwn, pc # "idle", NEW kept
  PROVE  (live_copies \ (args_copy \ kept)) \cup kept = Copies(Left) \cup kept
<1>1. /\ Left = Parked \ Dropped
      /\ \A c \in Left, d \in Dropped : c.ticket # d.ticket
      /\ Dropped \subseteq Parked
  BY AfterRun
<1>2. live_copies = Copies(Parked)
  BY DEF ArgsOwned, Copies
<1>3. args_copy = Copies(Dropped)
  BY DEF FreesOwn
<1>4. Copies(Left) = Copies(Parked) \ Copies(Dropped)
  <2>1. \A t : t \in Copies(Left) => t \in Copies(Parked) /\ t \notin Copies(Dropped)
    BY <1>1 DEF Copies
  <2>2. \A t : t \in Copies(Parked) /\ t \notin Copies(Dropped) => t \in Copies(Left)
    BY <1>1 DEF Copies
  <2> QED
    BY <2>1, <2>2
<1>5. ASSUME NEW A, NEW B, NEW C, C = A \ B
      PROVE  (A \ (B \ kept)) \cup kept = C \cup kept
  <2>1. \A x : x \in (A \ (B \ kept)) \cup kept <=> x \in (A \ B) \cup kept
    OBVIOUS
  <2> QED
    BY <1>5, <2>1
<1> QED
  BY <1>2, <1>3, <1>4, <1>5

-----------------------------------------------------------------------------
(* The steps.                                                              *)

\* A notification moves the clients of a list to another list.
LEMMA MoveStep ==
  ASSUME ClientsInv, Parked' = Parked, ParkedOnce',
         wait_list' \in [Caches -> Queue], batch' \in Queue, events' \in Seq(Queue),
         UNCHANGED <<run, id_cnt, lock_cnt, tickets, live_copies, commits>>,
         batch' = batch \/ pc = "idle"
  PROVE  ClientsInv'
<1> USE DEF ClientsInv
<1>1. Typed' /\ Known'
  BY DEF Typed, Known, run
<1>2. Running' /\ FreesOwn'
  BY DEF Running, FreesOwn, Dropped, Copies, run
<1>3. Uncommitted'
  BY DEF Uncommitted, Dropped, run, Typed
<1>4. LocksMatchWaiters' /\ ArgsOwned'
  BY DEF LocksMatchWaiters, ArgsOwned
<1> QED
  BY <1>1, <1>2, <1>3, <1>4

\* cache_notify.
LEMMA NotifyStep ==
  ASSUME ClientsInv, NEW k \in Caches, CacheNotify(k)
  PROVE  ClientsInv'
<1>1. /\ pc = "idle" /\ batch = <<>> /\ wait_list' = [wait_list EXCEPT ![k] = <<>>]
      /\ batch' = wait_list[k] /\ events' = events
      /\ UNCHANGED <<run, id_cnt, lock_cnt, tickets, live_copies, commits>>
  BY DEF CacheNotify, TakeWaiters, chans
<1>2. OnOneList(<<>>, wait_list, events) /\ Typed
  BY <1>1 DEF ClientsInv, ParkedOnce
<1>3. /\ ClientsOn(wait_list[k], wait_list', events) = ClientsOn(<<>>, wait_list, events)
      /\ OnOneList(wait_list[k], wait_list', events) /\ wait_list' \in [Caches -> Queue]
  BY <1>1, <1>2, TakeAsBatch DEF Typed
<1>4. wait_list[k] \in Queue /\ events \in Seq(Queue)
  BY <1>2 DEF Typed
<1>5. Parked' = Parked /\ ParkedOnce'
  BY <1>1, <1>3 DEF Parked, ParkedOnce
<1> QED
  BY <1>1, <1>3, <1>4, <1>5, MoveStep

\* cache_notify_later.
LEMMA NotifyLaterStep ==
  ASSUME ClientsInv, NEW k \in Caches, CacheNotifyLater(k)
  PROVE  ClientsInv'
<1>1. /\ wait_list' = [wait_list EXCEPT ![k] = <<>>]
      /\ batch' = batch /\ events' = Append(events, wait_list[k])
      /\ UNCHANGED <<run, id_cnt, lock_cnt, tickets, live_copies, commits>>
  BY DEF CacheNotifyLater, TakeWaiters, chans
<1>2. OnOneList(batch, wait_list, events) /\ Typed
  BY DEF ClientsInv, ParkedOnce
<1>3. /\ ClientsOn(batch, wait_list', events') = ClientsOn(batch, wait_list, events)
      /\ OnOneList(batch, wait_list', events')
      /\ wait_list' \in [Caches -> Queue] /\ events' \in Seq(Queue)
  <2>1. batch \in Queue /\ wait_list \in [Caches -> Queue] /\ events \in Seq(Queue)
    BY <1>2 DEF Typed
  <2>2. wait_list' = Emptied(wait_list, k) /\ events' = Posted(wait_list, k, events)
    BY <1>1 DEF Emptied, Posted
  <2>3. OnOneList(batch, wait_list, events)
    BY <1>2
  <2> QED
    BY <2>1, <2>2, <2>3, TakeAsEvent
<1>4. Parked' = Parked /\ ParkedOnce' /\ batch' \in Queue
  BY <1>1, <1>2, <1>3 DEF Parked, ParkedOnce, Typed
<1> QED
  BY <1>1, <1>3, <1>4, MoveStep

\* cache_notify_event.
LEMMA NotifyEventStep ==
  ASSUME ClientsInv, CacheNotifyEvent
  PROVE  ClientsInv'
<1>1. /\ pc = "idle" /\ batch = <<>> /\ wait_list' = wait_list /\ events # <<>>
      /\ batch' = Head(events) /\ events' = Tail(events)
      /\ UNCHANGED <<run, id_cnt, lock_cnt, tickets, live_copies, commits>>
  BY DEF CacheNotifyEvent, chans
<1>2. OnOneList(<<>>, wait_list, events) /\ Typed
  BY <1>1 DEF ClientsInv, ParkedOnce
<1>3. /\ ClientsOn(Head(events), wait_list, Tail(events)) = ClientsOn(<<>>, wait_list, events)
      /\ OnOneList(Head(events), wait_list, Tail(events))
      /\ Head(events) \in Queue /\ Tail(events) \in Seq(Queue)
  BY <1>1, <1>2, EventAsBatch DEF Typed
<1>4. Parked' = Parked /\ ParkedOnce' /\ wait_list' \in [Caches -> Queue]
  BY <1>1, <1>2, <1>3 DEF Parked, ParkedOnce, Typed
<1> QED
  BY <1>1, <1>3, <1>4, MoveStep

\* Steps that leave the lists and the locks alone.
LEMMA ListsStay ==
  ASSUME ClientsInv, UNCHANGED <<wait_list, batch, events, lock_cnt, live_copies>>
  PROVE  Parked' = Parked /\ ParkedOnce' /\ LocksMatchWaiters' /\ ArgsOwned' /\ Dropped' = Dropped
BY DEF ClientsInv, Parked, ParkedOnce, LocksMatchWaiters, ArgsOwned, Dropped

\* cache_enter.
LEMMA EnterStep ==
  ASSUME ClientsInv, NEW h \in Channels \cup {NoChannel}, NEW a \in BOOLEAN, CacheEnter(h, a)
  PROVE  ClientsInv'
<1> USE DEF ClientsInv
<1> DEFINE c == [ticket |-> tickets + 1, id |-> NewId, channel |-> h,
                 has_args |-> a, args_copy |-> FALSE]
<1>1. /\ pc = "idle" /\ batch = <<>> /\ tickets < MaxEnter /\ tickets' = tickets + 1
      /\ id_cnt' = IdAfter(NewId) /\ pc' = "run" /\ current_client' = c
      /\ current_cache' = {} /\ args_copy' = {}
      /\ UNCHANGED <<wait_list, batch, events, lock_cnt, live_copies, commits>>
  BY DEF CacheEnter, StartRun, lists, chans
<1>2. /\ NewId \in 1 .. IdMod - 1 /\ IdMod \in Nat \ {0}
      /\ MaxEnter \in Nat /\ tickets \in 0 .. MaxEnter
  BY CacheAssumption DEF NewId, Typed
<1>3. id_cnt' \in 0 .. IdMod - 1
  <2> DEFINE n == NewId + 1
  <2>1. n \in Nat /\ id_cnt' = n % IdMod
    BY <1>1, <1>2 DEF IdAfter
  <2> HIDE DEF n
  <2> QED
    BY <1>2, <2>1
<1>4. /\ c \in Client /\ c.id # 0 /\ c.ticket = tickets + 1 /\ c.args_copy = FALSE
      /\ tickets + 1 \in Tickets
  BY <1>1, <1>2 DEF Client, Tickets
<1> HIDE DEF c
<1>5. /\ Parked' = Parked /\ ParkedOnce' /\ LocksMatchWaiters' /\ ArgsOwned' /\ Dropped' = Dropped
  BY <1>1, ListsStay
<1>6. \A d \in Parked : d.ticket \in Nat /\ d.ticket <= tickets
  BY DEF Known, Client, Tickets
<1>7. Typed'
  BY <1>1, <1>2, <1>3 DEF Typed
<1>8. Known'
  BY <1>1, <1>2, <1>5, <1>6 DEF Known
<1>9. Running'
  BY <1>1, <1>2, <1>4, <1>5, <1>6 DEF Running
<1>10. FreesOwn'
  BY <1>1 DEF FreesOwn, Dropped, Copies
<1>11. Uncommitted'
  BY <1>1, <1>2, <1>4, <1>5 DEF Uncommitted, Tickets
<1> QED
  BY <1>5, <1>7, <1>8, <1>9, <1>10, <1>11

\* cache_wait.
LEMMA WaitStep ==
  ASSUME ClientsInv, NEW k \in Caches, CacheWait(k)
  PROVE  ClientsInv'
<1> USE DEF ClientsInv
<1>1. /\ current_cache' = {k}
      /\ UNCHANGED <<pc, current_client, args_copy, id_cnt, wait_list, batch, events,
                     lock_cnt, tickets, live_copies, commits>>
  BY DEF CacheWait, lists, chans
<1>2. Parked' = Parked /\ ParkedOnce' /\ LocksMatchWaiters' /\ ArgsOwned' /\ Dropped' = Dropped
  BY <1>1, ListsStay
<1>3. Typed' /\ Known' /\ Running' /\ FreesOwn' /\ Uncommitted'
  BY <1>1, <1>2 DEF Typed, Known, Running, FreesOwn, Copies, Uncommitted
<1> QED
  BY <1>2, <1>3

\* run_cache_client, the next client.
LEMMA RetryStep ==
  ASSUME ClientsInv, Retry
  PROVE  ClientsInv'
<1> USE DEF ClientsInv
<1> DEFINE c == Head(batch)
<1>1. /\ pc = "idle" /\ batch # <<>> /\ pc' = "run" /\ current_client' = c
      /\ current_cache' = {} /\ args_copy' = IF c.args_copy THEN {c.ticket} ELSE {}
      /\ UNCHANGED <<id_cnt, wait_list, batch, events, lock_cnt, tickets, live_copies, commits>>
  BY DEF Retry, StartRun, lists, chans
<1>2. Parked' = Parked /\ ParkedOnce' /\ LocksMatchWaiters' /\ ArgsOwned' /\ Dropped' = Dropped
  BY <1>1, ListsStay
<1>3. Dropped = {c} /\ c \in Parked
  <2>1. Dropped \subseteq Parked
    BY AfterRun
  <2> QED
    BY <1>1, <2>1 DEF Dropped
<1> HIDE DEF c
<1>4. Typed' /\ Known'
  BY <1>1, <1>2 DEF Typed, Known
<1>5. Running'
  BY <1>1, <1>2, <1>3 DEF Running, Known, c
<1>6. FreesOwn'
  BY <1>1, <1>2, <1>3 DEF FreesOwn, Copies
<1>7. Uncommitted'
  BY <1>1, <1>2, <1>3 DEF Uncommitted
<1> QED
  BY <1>2, <1>4, <1>5, <1>6, <1>7

\* A client that has ended leaves the batch with its lock and its copy.
LEMMA EndStep ==
  ASSUME ClientsInv, pc # "idle", EndRun(lock_cnt, {}), current_client' = NoClient,
         current_cache' \subseteq Caches, UNCHANGED <<id_cnt, wait_list, events, tickets>>,
         commits' \in [Tickets -> Nat],
         \A t \in Tickets : commits'[t] <= 1 /\ (t > tickets => commits'[t] = 0),
         \A c \in Left : commits'[c.ticket] = 0
  PROVE  ClientsInv'
<1> USE DEF ClientsInv
<1>1. /\ pc' = "idle" /\ args_copy' = {} /\ lock_cnt' = UnlockRetried(lock_cnt)
      /\ live_copies' = (live_copies \ (args_copy \ {})) \cup {} /\ batch' = Rest
  BY DEF EndRun, Rest
<1>2. /\ OnOneList(Rest, wait_list, events) /\ Rest \in Queue
      /\ Left = Parked \ Dropped
  BY AfterRun
<1>3. Parked' = Left /\ ParkedOnce'
  BY <1>1, <1>2 DEF Parked, ParkedOnce, Left
<1>4. /\ lock_cnt' \in [Channels -> Int]
      /\ \A h \in Channels : lock_cnt'[h] = lock_cnt[h] - Gone(h)
  <2>1. lock_cnt \in [Channels -> Int]
    BY DEF Typed
  <2> QED
    BY <1>1, <2>1, UnlockFacts
<1>5. LocksMatchWaiters'
  BY <1>3, <1>4, LocksLeft DEF LocksMatchWaiters
<1>6. ArgsOwned'
  <2>1. live_copies' = Copies(Left) \cup {}
    BY <1>1, CopiesLeft
  <2> QED
    BY <1>3, <2>1 DEF ArgsOwned, Copies
<1>7. Typed'
  BY <1>1, <1>2, <1>4 DEF Typed
<1>8. Known'
  <2>1. IsFiniteSet(Left)
    BY <1>2, FS_Subset DEF Known
  <2> QED
    BY <1>2, <1>3, <2>1 DEF Known
<1>9. Running' /\ FreesOwn' /\ Uncommitted'
  BY <1>1, <1>3 DEF Running, FreesOwn, Uncommitted
<1> QED
  BY <1>3, <1>5, <1>6, <1>7, <1>8, <1>9

\* CTLE_COMMIT for the running client.
LEMMA CommitFacts ==
  ASSUME ClientsInv, pc = "run", Commit
  PROVE  /\ commits' \in [Tickets -> Nat]
         /\ \A t \in Tickets : commits'[t] <= 1 /\ (t > tickets => commits'[t] = 0)
         /\ \A c \in Left : commits'[c.ticket] = 0
<1> USE DEF ClientsInv
<1> DEFINE n == current_client.ticket
<1>1. n \in Tickets /\ n <= tickets /\ commits[n] = 0
  BY DEF Running, Client, Uncommitted
<1>2. /\ \A c \in Left : c.ticket # n
      /\ Left \subseteq Parked
  BY AfterRun
<1>3. \A c \in Left : c.ticket \in Tickets /\ commits[c.ticket] = 0
  BY <1>2 DEF Known, Client, Uncommitted
<1>4. commits' = [commits EXCEPT ![n] = commits[n] + 1] /\ commits \in [Tickets -> Nat]
  BY DEF Commit, Typed
<1>5. tickets \in Nat /\ \A t \in Tickets : t \in Nat
  BY CacheAssumption DEF Typed, Tickets
<1> HIDE DEF n
<1>6. \A t \in Tickets : commits'[t] = IF t = n THEN 1 ELSE commits[t]
  BY <1>1, <1>4
<1>7. commits' \in [Tickets -> Nat]
  BY <1>1, <1>4
<1>8. \A t \in Tickets : commits[t] <= 1 /\ (t > tickets => commits[t] = 0)
  BY DEF Uncommitted
<1> QED
  BY <1>1, <1>2, <1>3, <1>5, <1>6, <1>7, <1>8

\* A client that fails after a wait in the same run.
LEMMA FailsStep ==
  ASSUME ClientsInv, ClientFails
  PROVE  ClientsInv'
<1>1. /\ pc = "run" /\ Commit /\ EndRun(lock_cnt, {}) /\ current_client' = NoClient
      /\ current_cache' = {} /\ UNCHANGED <<id_cnt, wait_list, events, tickets>>
  BY DEF ClientFails, ClearCurrent
<1> QED
  BY <1>1, CommitFacts, EndStep

\* A client that returns.
LEMMA ReturnsStep ==
  ASSUME ClientsInv, ClientReturns
  PROVE  ClientsInv'
<1>1. /\ pc = "tail" /\ EndRun(lock_cnt, {})
      /\ UNCHANGED <<current_client, current_cache, id_cnt, wait_list, events, tickets, commits>>
  BY DEF ClientReturns
<1>2. current_client' = NoClient /\ current_cache' \subseteq Caches
  BY <1>1 DEF ClientsInv, Running, Typed
<1>3. /\ commits' \in [Tickets -> Nat]
      /\ \A t \in Tickets : commits'[t] <= 1 /\ (t > tickets => commits'[t] = 0)
  BY <1>1 DEF ClientsInv, Typed, Uncommitted
<1>4. \A c \in Left : commits'[c.ticket] = 0
  <2>1. Left = Parked \ Dropped
    BY AfterRun DEF ClientsInv
  <2> QED
    BY <1>1, <2>1 DEF ClientsInv, Uncommitted
<1> QED
  BY <1>1, <1>2, <1>3, <1>4, EndStep

\* cache_exit.
LEMMA ExitStep ==
  ASSUME ClientsInv, CacheExit
  PROVE  ClientsInv'
<1> USE DEF ClientsInv
<1>1. /\ pc = "run" /\ pc' = "tail" /\ Commit /\ current_client' = NoClient /\ current_cache' = {}
      /\ UNCHANGED <<args_copy, id_cnt, wait_list, batch, events, lock_cnt, tickets, live_copies>>
  BY DEF CacheExit, ClearCurrent, lists, chans
<1>2. Parked' = Parked /\ ParkedOnce' /\ LocksMatchWaiters' /\ ArgsOwned' /\ Dropped' = Dropped
  BY <1>1, ListsStay
<1>3. /\ commits' \in [Tickets -> Nat]
      /\ \A t \in Tickets : commits'[t] <= 1 /\ (t > tickets => commits'[t] = 0)
      /\ \A c \in Left : commits'[c.ticket] = 0
  BY <1>1, CommitFacts
<1>4. Left = Parked \ Dropped
  BY AfterRun
<1>5. Typed' /\ Known' /\ Running'
  BY <1>1, <1>2, <1>3 DEF Typed, Known, Running
<1>6. FreesOwn'
  BY <1>1, <1>2 DEF FreesOwn, Copies
<1>7. Uncommitted'
  BY <1>1, <1>2, <1>3, <1>4 DEF Uncommitted
<1> QED
  BY <1>2, <1>5, <1>6, <1>7

\* A client is thrown out by a miss and parked, for the first time or again.
LEMMA SuspendStep ==
  ASSUME ClientsInv, Suspend
  PROVE  ClientsInv'
<1> USE DEF ClientsInv
<1> DEFINE k == CHOOSE x \in Caches : x \in current_cache
           c == [current_client EXCEPT !.args_copy = @ \/ current_client.has_args]
           kept == IF c.args_copy THEN {c.ticket} ELSE {}
<1>1. /\ pc = "run" /\ current_cache # {} /\ current_client' = NoClient /\ current_cache' = {}
      /\ wait_list' = [wait_list EXCEPT ![k] = Append(@, c)]
      /\ EndRun(LockFor(c), kept) /\ UNCHANGED <<id_cnt, events, tickets, commits>>
  BY DEF Suspend, ClearCurrent
<1>2. k \in Caches
  BY <1>1 DEF Typed
<1>3. /\ c \in Client /\ c.ticket = current_client.ticket /\ c.id # 0
      /\ c.ticket <= tickets /\ commits[c.ticket] = 0
  <2>1. current_client \in Client /\ current_client.id # 0 /\ current_client.ticket <= tickets
    BY <1>1 DEF Running
  <2>2. c \in Client /\ c.ticket = current_client.ticket /\ c.id = current_client.id
    BY <2>1 DEF Client
  <2> QED
    BY <1>1, <2>1, <2>2 DEF Uncommitted
<1> HIDE DEF k, c
<1>4. /\ pc' = "idle" /\ args_copy' = {} /\ lock_cnt' = UnlockRetried(LockFor(c))
      /\ live_copies' = (live_copies \ (args_copy \ kept)) \cup kept /\ batch' = Rest
      /\ wait_list' = [wait_list EXCEPT ![k] = Append(wait_list[k], c)]
  BY <1>1 DEF EndRun, Rest
<1>5. /\ OnOneList(Rest, wait_list, events) /\ Rest \in Queue
      /\ Left = Parked \ Dropped
      /\ \A d \in Left : d.ticket # c.ticket
  BY <1>1, <1>3, AfterRun
<1>6. /\ Parked' = Left \cup {c} /\ ParkedOnce'
      /\ wait_list' \in [Caches -> Queue]
  <2>1. wait_list \in [Caches -> Queue] /\ events \in Seq(Queue)
    BY DEF Typed
  <2>2. \A d \in ClientsOn(Rest, wait_list, events) : d.ticket # c.ticket
    BY <1>5 DEF Left
  <2>3. wait_list' = Extended(wait_list, k, c)
    BY <1>4 DEF Extended
  <2>4. OnOneList(Rest, wait_list, events) /\ Rest \in Queue /\ k \in Caches /\ c \in Client
    BY <1>2, <1>3, <1>5
  <2>5. /\ ClientsOn(Rest, wait_list', events) = ClientsOn(Rest, wait_list, events) \cup {c}
        /\ OnOneList(Rest, wait_list', events) /\ wait_list' \in [Caches -> Queue]
    BY <2>1, <2>2, <2>3, <2>4, ParkOne
  <2> QED
    BY <1>1, <1>4, <2>5 DEF Parked, ParkedOnce, Left
<1>7. c \notin Left /\ IsFiniteSet(Left) /\ Left \subseteq Client
  <2>1. IsFiniteSet(Left) /\ Left \subseteq Client
    BY <1>5, FS_Subset DEF Known
  <2> QED
    BY <1>5, <2>1
<1>8. /\ LockFor(c) \in [Channels -> Int]
      /\ \A h \in Channels : LockFor(c)[h] = lock_cnt[h] + (IF c.channel = h THEN 1 ELSE 0)
  BY <1>3, CacheAssumption DEF LockFor, Typed, Client
<1>9. /\ lock_cnt' \in [Channels -> Int]
      /\ \A h \in Channels : lock_cnt'[h] = LockFor(c)[h] - Gone(h)
  BY <1>4, <1>8, UnlockFacts
<1>10. ASSUME NEW h \in Channels
       PROVE  lock_cnt'[h] = Cardinality({d \in Parked' : d.channel = h})
  <2>1. lock_cnt[h] - Gone(h) = Cardinality({d \in Left : d.channel = h})
    BY LocksLeft
  <2>2. /\ {d \in Left : d.channel = h} = Left \cap On(h)
        /\ {d \in Left \cup {c} : d.channel = h} = (Left \cup {c}) \cap On(h)
    BY <1>3, <1>7, LocksOf
  <2>3. Cardinality((Left \cup {c}) \cap On(h))
          = Cardinality(Left \cap On(h)) + (IF c \in On(h) THEN 1 ELSE 0)
    BY <1>7, MeetAdd
  <2>4. c \in On(h) <=> c.channel = h
    BY <1>3 DEF On
  <2> DEFINE one == IF c.channel = h THEN 1 ELSE 0
  <2>5. LockFor(c)[h] = lock_cnt[h] + one /\ lock_cnt'[h] = LockFor(c)[h] - Gone(h)
    BY <1>8, <1>9
  <2>6. /\ lock_cnt[h] \in Int /\ Gone(h) \in Int /\ one \in Int
        /\ one = IF c \in On(h) THEN 1 ELSE 0
    BY <2>4 DEF Typed, Gone
  <2> HIDE DEF one
  <2>7. {d \in Parked' : d.channel = h} = (Left \cup {c}) \cap On(h)
    BY <1>6, <2>2
  <2>8. Cardinality(Left \cap On(h)) = lock_cnt[h] - Gone(h)
    BY <2>1, <2>2
  <2>9. lock_cnt'[h] = Cardinality(Left \cap On(h)) + one
    BY <2>5, <2>6, <2>8
  <2> QED
    BY <2>3, <2>6, <2>7, <2>9
<1>11. LocksMatchWaiters'
  BY <1>10 DEF LocksMatchWaiters
<1>12. ArgsOwned'
  <2>1. live_copies' = Copies(Left) \cup kept
    <3> HIDE DEF kept
    <3> QED
      BY <1>1, <1>4, CopiesLeft
  <2>2. Copies(Left \cup {c}) = Copies(Left) \cup kept
    BY DEF Copies
  <2> QED
    BY <1>6, <2>1, <2>2 DEF ArgsOwned, Copies
<1>13. Typed'
  BY <1>1, <1>4, <1>5, <1>6, <1>9 DEF Typed
<1>14. Known'
  <2>1. IsFiniteSet(Left \cup {c})
    BY <1>7, FS_AddElement
  <2> QED
    BY <1>1, <1>3, <1>5, <1>6, <2>1 DEF Known
<1>15. Running' /\ FreesOwn'
  BY <1>1, <1>4 DEF Running, FreesOwn
<1>16. Uncommitted'
  BY <1>1, <1>3, <1>4, <1>5, <1>6 DEF Uncommitted
<1> QED
  BY <1>6, <1>11, <1>12, <1>13, <1>14, <1>15, <1>16

-----------------------------------------------------------------------------
(* The theorems.                                                           *)

\* Nobody is parked at the start.
LEMMA ClientsInit == Init => ClientsInv
<1> SUFFICES ASSUME Init PROVE ClientsInv
  OBVIOUS
<1>1. Typed
  BY CacheAssumption DEF Init, Typed, Queue
<1>2. Parked = {} /\ Dropped = {}
  <2>1. \A x : x \in Parked <=> Stands(x, batch, wait_list, events)
    BY OnSomeList DEF Parked
  <2>2. \A x : ~Stands(x, batch, wait_list, events)
    BY DEF Stands, Init
  <2> QED
    BY <2>1, <2>2 DEF Dropped, Init
<1>3. ParkedOnce
  BY DEF Init, ParkedOnce, OnOneList, NoRepeat, Apart
<1>4. Known /\ Running /\ FreesOwn /\ ArgsOwned
  BY <1>2, FS_EmptySet DEF Init, Known, Running, FreesOwn, ArgsOwned
<1>5. Uncommitted
  BY <1>2, CacheAssumption DEF Init, Uncommitted
<1>6. LocksMatchWaiters
  <2> SUFFICES ASSUME NEW h \in Channels
               PROVE  lock_cnt[h] = Cardinality({c \in Parked : c.channel = h})
    BY DEF LocksMatchWaiters
  <2>1. {c \in Parked : c.channel = h} = {}
    BY <1>2
  <2> QED
    BY <2>1, FS_EmptySet DEF Init
<1> QED
  BY <1>1, <1>3, <1>4, <1>5, <1>6 DEF ClientsInv

\* The invariant is inductive.
LEMMA ClientsNext == ClientsInv /\ [Next]_vars => ClientsInv'
<1> SUFFICES ASSUME ClientsInv, [Next]_vars PROVE ClientsInv'
  OBVIOUS
<1>1. ASSUME UNCHANGED <<run, id_cnt, lists, lock_cnt, tickets, live_copies, commits>>
      PROVE  ClientsInv'
  <2>1. UNCHANGED <<run, id_cnt, wait_list, batch, events, lock_cnt, tickets, live_copies, commits>>
    BY <1>1 DEF lists
  <2>2. Parked' = Parked /\ ParkedOnce'
    BY <2>1, ListsStay
  <2>3. wait_list' \in [Caches -> Queue] /\ batch' \in Queue /\ events' \in Seq(Queue)
    BY <2>1 DEF ClientsInv, Typed
  <2> QED
    BY <2>1, <2>2, <2>3, MoveStep
<1>2. CASE CacheTimer
  BY <1>1, <1>2 DEF CacheTimer, chans
<1>3. ASSUME NEW h \in Channels, ChannelClose(h) PROVE ClientsInv'
  BY <1>1, <1>3 DEF ChannelClose
<1>4. CASE UNCHANGED vars
  BY <1>1, <1>4 DEF vars, chans
<1> QED
  BY <1>2, <1>3, <1>4, EnterStep, WaitStep, NotifyStep, NotifyLaterStep, NotifyEventStep,
     SuspendStep, FailsStep, ExitStep, ReturnsStep, RetryStep DEF Next, ClientStep

\* The inductive invariant of the wait lists, the batch and the running client.
THEOREM ClientsAlways == Spec => []ClientsInv
<1> QED
  BY ClientsInit, ClientsNext, PTL DEF Spec

\* run_cache_client, cache_notify, cache_notify_later and cache_notify_event
\* together keep every waiting client on one list, with one lock on its channel
\* and its copied arguments, from the miss that parks it until the end of the
\* run that does not: nothing is unlocked or freed twice, early or never.
THEOREM ParkedHoldTheirs == Spec => []ClientsBalanced
<1>1. ClientsInv => ClientsBalanced
  BY DEF ClientsInv, ClientsBalanced
<1> QED
  BY <1>1, ClientsAlways, PTL

\* The listeners of a transaction are told CTLE_COMMIT once at most, and not
\* while its client waits or runs; the id of a running client is never 0,
\* whatever the width of id_cnt and however often it wrapped.
THEOREM OneCommit == Spec => []CommitOnce
<1>1. ClientsInv => CommitOnce
  <2> SUFFICES ASSUME ClientsInv PROVE CommitOnce
    OBVIOUS
  <2> USE DEF ClientsInv
  <2>1. (pc = "run") = (current_client.id # 0)
    BY DEF Running, NoClient
  <2>2. \A t \in Tickets : commits[t] <= 1
    BY DEF Uncommitted
  <2>3. ASSUME NEW k \in Caches, NEW i \in DOMAIN wait_list[k]
        PROVE  commits[wait_list[k][i].ticket] = 0
    <3> DEFINE c == wait_list[k][i]
    <3>1. c \in Parked
      BY OnSomeList DEF Parked, Stands
    <3>2. c \notin Dropped
      <4>1. CASE batch # <<>>
        <5>1. 1 \in DOMAIN batch /\ Head(batch) = batch[1]
          BY <4>1, TailPlaces DEF Typed, Queue
        <5>2. Apart(batch, wait_list[k])
          BY DEF ParkedOnce, OnOneList
        <5> QED
          BY <4>1, <5>1, <5>2 DEF Dropped, Apart
      <4> QED
        BY <4>1 DEF Dropped
    <3> QED
      BY <3>1, <3>2 DEF Uncommitted
  <2>4. pc = "run" => commits[current_client.ticket] = 0
    BY DEF Uncommitted
  <2> QED
    BY <2>1, <2>2, <2>3, <2>4 DEF CommitOnce
<1> QED
  BY <1>1, ClientsAlways, PTL
=============================================================================
