--------------------------- MODULE ProtocolProofs ---------------------------
(***************************************************************************)
(* Proofs about what agents say to each other.                             *)
(*                                                                         *)
(* Protocol: every reply handler is called once, and a reply finds the     *)
(* command it answers, for any number of clients, any token size larger    *)
(* than that number and any hash size.                                     *)
(*                                                                         *)
(* Discovery: what agents tell each other of a slave never makes it look   *)
(* younger than it is, for any number of agents, starts and faults and any *)
(* retention period.                                                       *)
(***************************************************************************)
EXTENDS Protocol, Discovery, ProofLemmas

Someone == Clients \cup {NoClient}
Command == [token : Nat, client : Clients, redirect : BOOLEAN]
Entry   == [token : Nat, client : Someone, redirect : BOOLEAN, seq : Nat]
Failure == [client : Clients, redirect : BOOLEAN]
Position == [on : BOOLEAN, b : Int, seq : Nat, then : Someone]

Typed ==
  /\ tokenid \in 0 .. TokenMod - 1
  /\ reply_handlers \subseteq Entry /\ IsFiniteSet(reply_handlers)
  /\ failed \in Seq(Failure)
  /\ sweep \in Position
  /\ unsent \subseteq Clients
  /\ outstanding \subseteq Command
  /\ calls \in [Clients -> Nat]

\* A client is called after a walk only; without one there is nobody to call.
NoWalkNoThen == ~sweep.on => sweep.then = NoClient

\* No two entries of the table have the same token.
TokensDiffer == \A g, h \in reply_handlers : g.token = h.token => g = h

\* There are not more entries than commands sent, so that some token is free.
Room == Cardinality(reply_handlers) <= Cardinality(Clients \ unsent)

One(P) == IF P THEN 1 ELSE 0

\* CalledOnce, and nothing is known of a client before it sends its command.
Balanced == \A x \in Clients : calls[x] + Pending(x) = One(x \notin unsent)

\* The answers that are still to come are told apart by their tokens.
AnswersDiffer ==
  state # "Disconnected" => \A d, e \in outstanding : d.token = e.token => d = e

Books == /\ Typed /\ NoWalkNoThen /\ TokensDiffer /\ Room
         /\ Balanced /\ ReplyFindsItsCommand /\ AnswersDiffer

-----------------------------------------------------------------------------
(* Counting handlers.                                                      *)

\* The entries of table R that would call x.
With(R, x) == {h \in R : h.client = x}

\* Failures that are to be reported to x.
For(x) == {c \in Failure : c.client = x}

\* A handler that is added counts for its client.
LEMMA CountAdd ==
  ASSUME NEW R, IsFiniteSet(R), NEW e, e \notin R, NEW x
  PROVE  Cardinality(With(R \cup {e}, x)) = Cardinality(With(R, x)) + One(e.client = x)
<1>1. IsFiniteSet(With(R, x)) /\ Cardinality(With(R, x)) \in Nat
  BY FS_Subset, FS_CardinalityType DEF With
<1>2. CASE e.client = x
  <2>1. With(R \cup {e}, x) = With(R, x) \cup {e} /\ e \notin With(R, x)
    BY <1>2 DEF With
  <2> QED
    BY ZenonT(60), <1>1, <1>2, <2>1, FS_AddElement DEF One
<1>3. CASE e.client # x
  <2>1. With(R \cup {e}, x) = With(R, x)
    BY <1>3 DEF With
  <2> QED
    BY <1>1, <1>3, <2>1 DEF One
<1> QED
  BY <1>2, <1>3

\* A handler that is removed counts no more.
LEMMA CountRemove ==
  ASSUME NEW R, IsFiniteSet(R), NEW h \in R, NEW x
  PROVE  Cardinality(With(R \ {h}, x)) = Cardinality(With(R, x)) - One(h.client = x)
<1>1. IsFiniteSet(With(R, x)) /\ Cardinality(With(R, x)) \in Nat
  BY FS_Subset, FS_CardinalityType DEF With
<1>2. CASE h.client = x
  <2>1. With(R \ {h}, x) = With(R, x) \ {h} /\ h \in With(R, x)
    BY <1>2 DEF With
  <2> QED
    BY <1>1, <1>2, <2>1, FS_RemoveElement DEF One
<1>3. CASE h.client # x
  <2>1. With(R \ {h}, x) = With(R, x)
    BY <1>3 DEF With
  <2> QED
    BY <1>1, <1>3, <2>1 DEF One
<1> QED
  BY <1>2, <1>3

\* The failures of a client as places of the list.
LEMMA FailedPlaces ==
  ASSUME NEW q \in Seq(Failure), NEW x
  PROVE  {i \in DOMAIN q : q[i].client = x} = Places(q, For(x))
<1>1. \A i \in DOMAIN q : q[i] \in Failure
  BY LenProperties, ElementOfSeq
<1> QED
  BY <1>1 DEF Places, For

\* The two counts of a client are numbers.
LEMMA CountsAreNat ==
  ASSUME Typed, NEW x
  PROVE  /\ Cardinality(InTable(x)) \in Nat /\ Cardinality(InFailed(x)) \in Nat
         /\ InTable(x) = With(reply_handlers, x)
         /\ InFailed(x) = Places(failed, For(x))
<1>1. InTable(x) = With(reply_handlers, x)
  BY DEF InTable, With
<1>2. InFailed(x) = Places(failed, For(x))
  BY FailedPlaces DEF InFailed, Typed
<1>3. Cardinality(InTable(x)) \in Nat
  <2>1. InTable(x) \in SUBSET reply_handlers /\ IsFiniteSet(reply_handlers)
    BY DEF InTable, Typed
  <2> QED
    BY <2>1, FS_Subset, FS_CardinalityType
<1>4. Cardinality(InFailed(x)) \in Nat
  <2>1. failed \in Seq(Failure)
    BY DEF Typed
  <2> QED
    BY <1>2, <2>1, PlacesFinite
<1> QED
  BY <1>1, <1>2, <1>3, <1>4

-----------------------------------------------------------------------------
(* The token and the position of a new entry.                              *)

\* Numbers modulo M on less than two rounds.
LEMMA ModFacts ==
  ASSUME NEW M \in Nat \ {0}, NEW k \in Nat
  PROVE  /\ k % M \in 0 .. M - 1
         /\ k < M => k % M = k
         /\ M <= k /\ k < 2 * M => k % M = k - M
OBVIOUS

\* The loop in protocol_send_command finds a token that no entry has: there are
\* more tokens than commands.
LEMMA NewTokenFree ==
  ASSUME Typed, Room
  PROVE  NewToken \in 0 .. TokenMod - 1 /\ NewToken \notin Tokens
<1> DEFINE Free == {n \in 0 .. TokenMod - 1 : (tokenid + n) % TokenMod \notin Tokens}
<1>1. /\ TokenMod \in Nat \ {0} /\ TokenMod > Cardinality(Clients) /\ IsFiniteSet(Clients)
      /\ tokenid \in 0 .. TokenMod - 1 /\ IsFiniteSet(reply_handlers)
  BY ProtocolAssumption DEF Typed
<1>2. \A n \in 0 .. TokenMod - 1 :
             /\ (tokenid + n) % TokenMod \in 0 .. TokenMod - 1
             /\ (tokenid + n) % TokenMod = IF tokenid + n < TokenMod THEN tokenid + n
                                           ELSE tokenid + n - TokenMod
  <2> TAKE n \in 0 .. TokenMod - 1
  <2> DEFINE k == tokenid + n
  <2>1. k \in Nat /\ k < 2 * TokenMod /\ (k < TokenMod \/ TokenMod <= k)
    BY <1>1
  <2> HIDE DEF k
  <2>2. k % TokenMod \in 0 .. TokenMod - 1
    BY <1>1, <2>1, ModFacts
  <2>3. k % TokenMod = IF k < TokenMod THEN k ELSE k - TokenMod
    BY <1>1, <2>1, ModFacts
  <2> QED
    BY <1>1, <2>2, <2>3 DEF k
<1>3. IsFiniteSet(Tokens) /\ Cardinality(Tokens) <= Cardinality(reply_handlers)
  <2> DEFINE f == [h \in reply_handlers |-> h.token]
  <2>1. f \in [reply_handlers -> Tokens] /\ \A t \in Tokens : \E h \in reply_handlers : f[h] = t
    BY DEF Tokens
  <2>2. f \in Surjection(reply_handlers, Tokens)
    BY <2>1 DEF Surjection
  <2> HIDE DEF f
  <2> QED
    BY <1>1, <2>2, FS_Surjection
<1>4. /\ Cardinality(Tokens) \in Nat /\ Cardinality(reply_handlers) \in Nat
      /\ Cardinality(Tokens) < TokenMod
  <2>1. Cardinality(Clients \ unsent) <= Cardinality(Clients)
    BY <1>1, FS_Subset
  <2>2. /\ Cardinality(Clients) \in Nat /\ Cardinality(Clients \ unsent) \in Nat
        /\ Cardinality(Tokens) \in Nat /\ Cardinality(reply_handlers) \in Nat
    BY <1>1, <1>3, FS_CardinalityType, FS_Subset
  <2> QED
    BY <1>1, <1>3, <2>1, <2>2 DEF Room
<1>5. Free # {}
  <2> SUFFICES ASSUME Free = {} PROVE FALSE
    OBVIOUS
  <2> DEFINE g == [n \in 0 .. TokenMod - 1 |-> (tokenid + n) % TokenMod]
  <2>1. g \in [0 .. TokenMod - 1 -> Tokens]
    OBVIOUS
  <2>2. IsFiniteSet(0 .. TokenMod - 1) /\ Cardinality(0 .. TokenMod - 1) = TokenMod
    <3>1. 0 \in Int /\ TokenMod - 1 \in Int /\ ~(0 > TokenMod - 1)
      BY <1>1
    <3>2. /\ IsFiniteSet(0 .. TokenMod - 1)
          /\ Cardinality(0 .. TokenMod - 1) = (TokenMod - 1) - 0 + 1
      BY <3>1, FS_Interval
    <3> QED
      BY <1>1, <3>2
  <2>3. \E m, n \in 0 .. TokenMod - 1 : m # n /\ g[m] = g[n]
    <3>1. Cardinality(Tokens) < Cardinality(0 .. TokenMod - 1)
      BY <1>4, <2>2
    <3> DEFINE D == 0 .. TokenMod - 1
    <3>2. IsFiniteSet(D) /\ Cardinality(Tokens) < Cardinality(D) /\ g \in [D -> Tokens]
      BY <2>1, <2>2, <3>1
    <3> HIDE DEF g, D
    <3>3. \E m, n \in D : m # n /\ g[m] = g[n]
      BY <1>3, <3>2, FS_PigeonHole
    <3> QED
      BY <3>3 DEF D
  <2>4. PICK m \in 0 .. TokenMod - 1, n \in 0 .. TokenMod - 1 :
          m # n /\ (tokenid + m) % TokenMod = (tokenid + n) % TokenMod
    BY <2>3
  <2> QED
    BY <1>1, <1>2, <2>4
<1>6. Min(Free) \in Free
  <2>1. Free \subseteq Nat
    OBVIOUS
  <2> HIDE DEF Free
  <2> QED
    BY <1>5, <2>1, MinNat
<1>7. NewToken = (tokenid + Min(Free)) % TokenMod
  BY DEF NewToken
<1>8. Min(Free) \in 0 .. TokenMod - 1 /\ (tokenid + Min(Free)) % TokenMod \notin Tokens
  BY <1>6
<1> HIDE DEF Free
<1> QED
  BY <1>2, <1>7, <1>8

\* A token is a number.
LEMMA NextSeqType ==
  ASSUME Typed
  PROVE  NextSeq \in Nat
<1> DEFINE S == {h.seq : h \in reply_handlers}
           f == [h \in reply_handlers |-> h.seq]
<1>1. CASE reply_handlers # {}
  <2>1. S \subseteq Nat /\ S # {}
    BY <1>1 DEF Typed, Entry
  <2>2. f \in Surjection(reply_handlers, S)
    BY DEF Surjection
  <2>3. IsFiniteSet(S)
    BY <2>2, FS_Surjection DEF Typed
  <2>4. Max(S) \in Nat
    BY <2>1, <2>3, MaxNat
  <2> QED
    BY <2>4 DEF NextSeq
<1> QED
  BY <1>1 DEF NextSeq

-----------------------------------------------------------------------------
(* The steps.                                                              *)

\* A step that leaves the books alone, also after a close.
LEMMA QuietStep ==
  ASSUME Books, tokenid' \in 0 .. TokenMod - 1,
         UNCHANGED <<reply_handlers, failed, sweep, unsent, outstanding, calls>>,
         state = "Disconnected" => state' = "Disconnected"
  PROVE  Books'
<1>1. Typed' /\ NoWalkNoThen' /\ TokensDiffer' /\ Room'
  BY DEF Books, Typed, NoWalkNoThen, TokensDiffer, Room
<1>2. Balanced'
  BY DEF Books, Balanced, Pending, InTable, InFailed
<1>3. ReplyFindsItsCommand' /\ AnswersDiffer'
  BY DEF Books, ReplyFindsItsCommand, AnswersDiffer
<1> QED
  BY <1>1, <1>2, <1>3 DEF Books

\* A command that is sent has one entry; one that is not has one failure.
LEMMA SendStep ==
  ASSUME Books, NEW x \in Clients, NEW redirect \in BOOLEAN, Send(x, redirect),
         state = "Disconnected" => state' = "Disconnected",
         state' = "Disconnected" => state = "Disconnected"
  PROVE  Books'
<1> USE DEF Books
<1> DEFINE e == [token |-> NewToken, client |-> x, redirect |-> redirect, seq |-> NextSeq]
           c == [token |-> NewToken, client |-> x, redirect |-> redirect]
           f == [client |-> x, redirect |-> redirect]
<1>1. /\ x \in unsent /\ unsent' = unsent \ {x} /\ UNCHANGED <<calls, sweep>>
      /\ NoClient \notin Clients /\ IsFiniteSet(Clients)
  BY ProtocolAssumption DEF Send
<1>2. Clients \ unsent' = (Clients \ unsent) \cup {x} /\ x \notin Clients \ unsent
  BY <1>1 DEF Typed
<1>3. Cardinality(Clients \ unsent') = Cardinality(Clients \ unsent) + 1
  BY <1>1, <1>2, FS_Subset, FS_AddElement
<1>4. Cardinality(Clients \ unsent) \in Nat /\ Cardinality(reply_handlers) \in Nat
  BY <1>1, FS_Subset, FS_CardinalityType DEF Typed
<1>5. NoWalkNoThen'
  BY <1>1 DEF NoWalkNoThen
<1>6. CASE state = "Disconnected" \/ ~peer_services
  <2>1. failed' = Append(failed, f) /\ UNCHANGED <<tokenid, reply_handlers, outstanding>>
    BY <1>6 DEF Send
  <2>2. f \in Failure /\ failed \in Seq(Failure)
    BY DEF Failure, Typed
  <2>3. Typed'
    BY <1>1, <2>1, <2>2 DEF Typed
  <2>4. TokensDiffer' /\ Room'
    BY <1>3, <1>4, <2>1 DEF TokensDiffer, Room
  <2>5. ASSUME NEW y \in Clients
        PROVE  (calls[y] + Pending(y) = One(y \notin unsent))'
    <3>1. Cardinality(Places(failed', For(y)))
            = Cardinality(Places(failed, For(y))) + (IF f \in For(y) THEN 1 ELSE 0)
      BY <2>1, <2>2, PlacesAppend
    <3>2. f \in For(y) <=> y = x
      BY <2>2 DEF For
    <3>3. InTable(y)' = InTable(y)
      BY <2>1 DEF InTable
    <3>4. InFailed(y)' = Places(failed', For(y)) /\ InFailed(y) = Places(failed, For(y))
      BY <2>3, FailedPlaces DEF InFailed, Typed
    <3>5. Cardinality(InTable(y)) \in Nat /\ Cardinality(InFailed(y)) \in Nat /\ calls[y] \in Nat
      BY CountsAreNat DEF Typed
    <3>6. calls[y] + Pending(y) = One(y \notin unsent)
      BY DEF Balanced
    <3>7. Cardinality(InFailed(y)') = Cardinality(InFailed(y)) + One(y = x)
      BY <3>1, <3>2, <3>4 DEF One
    <3> QED
      BY <1>1, <3>3, <3>5, <3>6, <3>7 DEF Pending, One
  <2>6. Balanced'
    BY <2>5 DEF Balanced
  <2>7. ReplyFindsItsCommand' /\ AnswersDiffer'
    BY <2>1 DEF ReplyFindsItsCommand, AnswersDiffer
  <2> QED
    BY <1>5, <2>3, <2>4, <2>6, <2>7
<1>7. CASE ~(state = "Disconnected" \/ ~peer_services)
  <2>1. /\ tokenid' = (NewToken + 1) % TokenMod
        /\ reply_handlers' = reply_handlers \cup {e}
        /\ outstanding' = outstanding \cup {c} /\ failed' = failed
    BY <1>7 DEF Send
  <2>2. NewToken \in 0 .. TokenMod - 1 /\ NewToken \notin Tokens /\ NextSeq \in Nat
    BY NewTokenFree, NextSeqType
  <2>3. e \in Entry /\ c \in Command /\ e.token = NewToken /\ e.client = x
    BY <2>2 DEF Entry, Command, Someone
  <2> HIDE DEF e
  <2>4. \A h \in reply_handlers : h.token # NewToken
    BY <2>2 DEF Tokens
  <2>5. e \notin reply_handlers
    BY <2>3, <2>4
  <2>6. /\ IsFiniteSet(reply_handlers')
        /\ Cardinality(reply_handlers') = Cardinality(reply_handlers) + 1
    BY <2>1, <2>5, FS_AddElement DEF Typed
  <2>7. tokenid' \in 0 .. TokenMod - 1
    <3>1. NewToken + 1 \in Nat /\ TokenMod \in Nat \ {0}
      BY <2>2, ProtocolAssumption
    <3> QED
      BY <2>1, <3>1, ModFacts
  <2>8. Typed'
    BY <1>1, <2>1, <2>3, <2>6, <2>7 DEF Typed
  <2>9. TokensDiffer'
    BY <2>1, <2>3, <2>4 DEF TokensDiffer
  <2>10. Room'
    BY <1>3, <1>4, <2>6 DEF Room
  <2>11. ASSUME NEW y \in Clients
         PROVE  (calls[y] + Pending(y) = One(y \notin unsent))'
    <3>1. Cardinality(With(reply_handlers', y))
            = Cardinality(With(reply_handlers, y)) + One(e.client = y)
      BY <2>1, <2>5, CountAdd DEF Typed
    <3>2. InFailed(y)' = InFailed(y)
      BY <2>1 DEF InFailed
    <3>3. InTable(y)' = With(reply_handlers', y) /\ InTable(y) = With(reply_handlers, y)
      BY DEF InTable, With
    <3>4. Cardinality(InTable(y)) \in Nat /\ Cardinality(InFailed(y)) \in Nat /\ calls[y] \in Nat
      BY CountsAreNat DEF Typed
    <3>5. calls[y] + Pending(y) = One(y \notin unsent)
      BY DEF Balanced
    <3> QED
      BY <1>1, <2>3, <3>1, <3>2, <3>3, <3>4, <3>5 DEF Pending, One
  <2>12. Balanced'
    BY <2>11 DEF Balanced
  <2>13. state # "Disconnected"
    BY <1>7
  <2>14. \A d \in outstanding : d.token # NewToken
    BY <2>4, <2>13 DEF ReplyFindsItsCommand
  <2>15. c.token = NewToken /\ c.client = x
    OBVIOUS
  <2> HIDE DEF c
  <2>16. ReplyFindsItsCommand' /\ AnswersDiffer'
    BY <2>1, <2>3, <2>4, <2>13, <2>14, <2>15 DEF ReplyFindsItsCommand, AnswersDiffer
  <2> QED
    BY <1>5, <2>8, <2>9, <2>10, <2>12, <2>16
<1> QED
  BY <1>6, <1>7

\* What a call of x's handler adds to the history.
LEMMA CallFacts ==
  ASSUME Typed, NEW x \in Someone, Call(x)
  PROVE  /\ calls' \in [Clients -> Nat]
         /\ \A y \in Clients : calls'[y] = calls[y] + One(x = y)
<1>1. NoClient \notin Clients
  BY ProtocolAssumption
<1> QED
  BY <1>1 DEF Typed, Call, Someone, One

\* The positions of the sweep of a closed channel.
LEMMA SweepType ==
  ASSUME NEW x \in Someone
  PROVE  NoSweep \in Position /\ Sweep(x) \in Position
<1>1. NoClient \in Someone /\ 0 \in Int /\ -1 \in Int /\ 0 \in Nat
  BY DEF Someone
<1>2. NoSweep \in Position
  BY <1>1 DEF NoSweep, Position
<1>3. Sweep(x) \in Position
  BY <1>1 DEF Sweep, Position
<1> QED
  BY <1>2, <1>3

\* A reply takes an entry out of the table; its handler is called at once, or
\* after the walk that a redirection starts.
LEMMA AnswerStep ==
  ASSUME Books, Idle, state # "Disconnected",
         NEW e \in outstanding, NEW h \in reply_handlers, h.token = e.token,
         reply_handlers' = reply_handlers \ {h}, outstanding' = outstanding \ {e},
         UNCHANGED <<tokenid, failed, unsent>>,
         \/ sweep' \in {sweep, NoSweep} /\ Call(h.client)
         \/ sweep' = Sweep(h.client) /\ UNCHANGED calls
  PROVE  Books'
<1> USE DEF Books
<1>1. h.client \in Someone /\ NoClient \notin Clients /\ sweep.then = NoClient
  BY ProtocolAssumption DEF Typed, Entry, Idle, NoWalkNoThen
<1>2. /\ calls' \in [Clients -> Nat]
      /\ \A y \in Clients : calls'[y] + One(sweep'.then = y) = calls[y] + One(h.client = y)
  <2>1. CASE sweep' \in {sweep, NoSweep} /\ Call(h.client)
    <3>1. sweep'.then = NoClient
      BY <1>1, <2>1 DEF NoSweep
    <3>2. /\ calls' \in [Clients -> Nat]
          /\ \A y \in Clients : calls'[y] = calls[y] + One(h.client = y)
      BY <1>1, <2>1, CallFacts
    <3> QED
      BY <1>1, <3>1, <3>2 DEF One
  <2>2. CASE sweep' = Sweep(h.client) /\ UNCHANGED calls
    BY <2>2 DEF Typed, Sweep
  <2> QED
    BY <2>1, <2>2
<1>3. /\ IsFiniteSet(reply_handlers')
      /\ Cardinality(reply_handlers') <= Cardinality(reply_handlers)
  BY FS_Subset DEF Typed
<1>4. sweep' \in Position /\ NoWalkNoThen'
  <2>1. CASE sweep' \in {sweep, NoSweep}
    <3>1. sweep' \in Position
      BY <1>1, <2>1, SweepType DEF Typed
    <3>2. sweep'.then = NoClient
      BY <1>1, <2>1 DEF NoSweep
    <3> QED
      BY <3>1, <3>2 DEF NoWalkNoThen
  <2>2. CASE sweep' = Sweep(h.client)
    BY <1>1, <2>2, SweepType DEF NoWalkNoThen, Sweep
  <2> QED
    BY <2>1, <2>2
<1>5. Typed'
  BY <1>2, <1>3, <1>4 DEF Typed
<1>6. TokensDiffer'
  BY DEF TokensDiffer
<1>7. Room'
  <2>1. /\ Cardinality(reply_handlers) \in Nat /\ Cardinality(reply_handlers') \in Nat
        /\ Cardinality(Clients \ unsent) \in Nat
    BY <1>3, FS_CardinalityType, FS_Subset, ProtocolAssumption DEF Typed
  <2> QED
    BY <1>3, <2>1 DEF Room
<1>8. ASSUME NEW y \in Clients
      PROVE  (calls[y] + Pending(y) = One(y \notin unsent))'
  <2>1. Cardinality(With(reply_handlers', y))
          = Cardinality(With(reply_handlers, y)) - One(h.client = y)
    BY CountRemove DEF Typed
  <2>2. InFailed(y)' = InFailed(y)
    BY DEF InFailed
  <2>3. InTable(y)' = With(reply_handlers', y) /\ InTable(y) = With(reply_handlers, y)
    BY DEF InTable, With
  <2>4. Cardinality(InTable(y)) \in Nat /\ Cardinality(InFailed(y)) \in Nat /\ calls[y] \in Nat
    BY CountsAreNat DEF Typed
  <2>5. calls[y] + Pending(y) = One(y \notin unsent) /\ sweep.then # y
    BY <1>1 DEF Balanced
  <2>6. calls'[y] + One(sweep'.then = y) = calls[y] + One(h.client = y) /\ calls'[y] \in Nat
    BY <1>2
  <2> QED
    BY <2>1, <2>2, <2>3, <2>4, <2>5, <2>6 DEF Pending, One
<1>9. Balanced'
  BY <1>8 DEF Balanced
<1>10. \A d \in outstanding' : d.token # h.token
  BY DEF AnswersDiffer
<1>11. ReplyFindsItsCommand' /\ AnswersDiffer'
  BY <1>10 DEF ReplyFindsItsCommand, AnswersDiffer
<1> QED
  BY <1>4, <1>5, <1>6, <1>7, <1>9, <1>11

\* The event of a command that was not sent.
LEMMA FailedStep ==
  ASSUME Books, SendCommandFailed
  PROVE  Books'
<1> USE DEF Books
<1> DEFINE x == Head(failed).client
<1>1. /\ failed \in Seq(Failure) /\ failed # <<>> /\ failed' = Tail(failed) /\ Call(x)
      /\ UNCHANGED <<tokenid, reply_handlers, sweep, unsent, outstanding>>
      /\ state = "Disconnected" => state' = "Disconnected"
      /\ state' = "Disconnected" => state = "Disconnected"
  BY DEF Typed, SendCommandFailed, AfterRefusal, peer
<1>2. Head(failed) \in Failure /\ failed' \in Seq(Failure)
  BY <1>1, HeadTailProperties
<1>3. x \in Clients
  BY <1>2 DEF Failure
<1>4. /\ calls' \in [Clients -> Nat]
      /\ \A y \in Clients : calls'[y] = calls[y] + One(x = y)
  BY <1>1, <1>3, CallFacts DEF Someone
<1>5. Typed' /\ NoWalkNoThen' /\ TokensDiffer' /\ Room'
  BY <1>1, <1>2, <1>4 DEF Typed, NoWalkNoThen, TokensDiffer, Room
<1> HIDE DEF x
<1>6. ASSUME NEW y \in Clients
      PROVE  (calls[y] + Pending(y) = One(y \notin unsent))'
  <2>1. Cardinality(Places(failed', For(y)))
          = Cardinality(Places(failed, For(y))) - (IF Head(failed) \in For(y) THEN 1 ELSE 0)
    BY <1>1, PlacesTail
  <2>2. Head(failed) \in For(y) <=> x = y
    BY <1>2 DEF For, x
  <2>3. InTable(y)' = InTable(y)
    BY <1>1 DEF InTable
  <2>4. InFailed(y)' = Places(failed', For(y)) /\ InFailed(y) = Places(failed, For(y))
    BY <1>1, <1>2, FailedPlaces DEF InFailed
  <2>5. Cardinality(InTable(y)) \in Nat /\ Cardinality(InFailed(y)) \in Nat /\ calls[y] \in Nat
    BY CountsAreNat DEF Typed
  <2>6. calls[y] + Pending(y) = One(y \notin unsent)
    BY DEF Balanced
  <2>7. Cardinality(InFailed(y)') = Cardinality(InFailed(y)) - One(x = y)
    BY <2>1, <2>2, <2>4 DEF One
  <2>8. calls'[y] = calls[y] + One(x = y)
    BY <1>4
  <2>9. UNCHANGED <<sweep, unsent>>
    BY <1>1
  <2> QED
    BY <2>3, <2>5, <2>6, <2>7, <2>8, <2>9 DEF Pending, One
<1>7. Balanced'
  BY <1>6 DEF Balanced
<1>8. ReplyFindsItsCommand' /\ AnswersDiffer'
  BY <1>1 DEF ReplyFindsItsCommand, AnswersDiffer
<1> QED
  BY <1>5, <1>7, <1>8

\* channel_closed starts its walk, or nobody has to be told.
LEMMA CloseStep ==
  ASSUME Books, Close
  PROVE  Books'
<1> USE DEF Books
<1>1. /\ sweep' \in {Sweep(NoClient), NoSweep} /\ calls' = calls /\ state' = "Disconnected"
      /\ UNCHANGED <<tokenid, reply_handlers, failed, unsent, outstanding>>
  BY DEF Close, NotifyClosed, Call, table, peer
<1>2. sweep.then = NoClient /\ NoClient \notin Clients
  BY ProtocolAssumption DEF Close, Idle, NoWalkNoThen
<1>3. sweep' \in Position /\ sweep'.then = NoClient
  <2>1. NoClient \in Someone
    BY DEF Someone
  <2>2. sweep' \in Position
    BY <1>1, <2>1, SweepType
  <2>3. sweep'.then = NoClient
    BY <1>1 DEF Sweep, NoSweep
  <2> QED
    BY <2>2, <2>3
<1>4. Typed' /\ NoWalkNoThen' /\ TokensDiffer' /\ Room'
  BY <1>1, <1>3 DEF Typed, NoWalkNoThen, TokensDiffer, Room
<1>5. Balanced'
  BY <1>1, <1>2, <1>3 DEF Balanced, Pending, InTable, InFailed
<1>6. ReplyFindsItsCommand' /\ AnswersDiffer'
  BY <1>1 DEF ReplyFindsItsCommand, AnswersDiffer
<1> QED
  BY <1>4, <1>5, <1>6

\* The walk visits an entry of the table.
LEMMA NextEntryInTable ==
  ASSUME Typed, Ahead # {}
  PROVE  NextEntry \in reply_handlers
<1> DEFINE B == {Bucket(h.token) : h \in Ahead}
           b == Min(B)
           chain == {h \in Ahead : Bucket(h.token) = b}
           Q == {h.seq : h \in chain}
           f == [h \in chain |-> h.seq]
<1>1. Ahead \subseteq reply_handlers /\ Ahead \subseteq Entry
  BY DEF Ahead, Typed
<1>2. B \subseteq Nat /\ B # {}
  <2>1. ASSUME NEW h \in Ahead PROVE Bucket(h.token) \in Nat
    <3> DEFINE k == h.token
    <3>1. k \in Nat /\ HashSize \in Nat \ {0}
      BY <1>1, ProtocolAssumption DEF Entry
    <3> HIDE DEF k
    <3>2. k % HashSize \in 0 .. HashSize - 1
      BY <3>1, ModFacts
    <3> QED
      BY <3>1, <3>2 DEF Bucket, k
  <2> QED
    BY <2>1
<1>3. b \in B
  <2> HIDE DEF B
  <2> QED
    BY <1>2, MinNat
<1>4. chain # {} /\ chain \subseteq reply_handlers
  BY <1>1, <1>3
<1>5. IsFiniteSet(chain)
  BY <1>4, FS_Subset DEF Typed
<1>6. NextEntry = CHOOSE h \in chain : \A g \in chain : g.seq <= h.seq
  BY DEF NextEntry
<1> HIDE DEF chain
<1>7. Q \subseteq Nat /\ Q # {}
  BY <1>4 DEF Typed, Entry
<1>8. IsFiniteSet(Q)
  <2>1. f \in [chain -> Q] /\ \A t \in Q : \E h \in chain : f[h] = t
    OBVIOUS
  <2>2. f \in Surjection(chain, Q)
    BY <2>1 DEF Surjection
  <2> HIDE DEF f, Q
  <2> QED
    BY <1>5, <2>2, FS_Surjection
<1>9. Max(Q) \in Q /\ \A n \in Q : n <= Max(Q)
  <2> HIDE DEF Q
  <2> QED
    BY <1>7, <1>8, MaxNat
<1>10. \E h \in chain : \A g \in chain : g.seq <= h.seq
  BY <1>9
<1>11. NextEntry \in chain
  BY <1>6, <1>10
<1> QED
  BY <1>4, <1>11

\* The walk calls a handler; a redirected channel keeps the entry without it.
LEMMA WalkStep ==
  ASSUME Books, SweepStep
  PROVE  Books'
<1> USE DEF Books
<1> DEFINE h == NextEntry
           k == [h EXCEPT !.client = NoClient, !.redirect = FALSE]
<1>1. /\ Call(h.client) /\ reply_handlers' = (reply_handlers \ {h}) \cup KeepEntry(h)
      /\ sweep.on /\ Ahead # {}
      /\ sweep' = [sweep EXCEPT !.b = Bucket(h.token), !.seq = h.seq]
      /\ UNCHANGED <<tokenid, failed, unsent, outstanding>>
      /\ state = "Disconnected" => state' = "Disconnected"
      /\ state' = "Disconnected" => state = "Disconnected"
  BY DEF SweepStep, AfterRefusal, peer
<1>2. h \in reply_handlers
  BY <1>1, NextEntryInTable
<1> HIDE DEF h
<1>3. h \in Entry /\ h.client \in Someone /\ NoClient \notin Clients
  BY <1>2, ProtocolAssumption DEF Typed, Entry
<1>4. k \in Entry /\ k.token = h.token /\ k.client = NoClient
  BY <1>3 DEF Entry, Someone
<1>5. KeepEntry(h) = IF state = "Disconnected" THEN {} ELSE {k}
  BY DEF KeepEntry
<1> HIDE DEF k
<1>6. /\ calls' \in [Clients -> Nat]
      /\ \A y \in Clients : calls'[y] = calls[y] + One(h.client = y)
  BY <1>1, <1>3, CallFacts
<1>7. /\ IsFiniteSet(reply_handlers')
      /\ Cardinality(reply_handlers') <= Cardinality(reply_handlers)
  <2>1. /\ IsFiniteSet(reply_handlers \ {h})
        /\ Cardinality(reply_handlers \ {h}) = Cardinality(reply_handlers) - 1
        /\ Cardinality(reply_handlers) \in Nat
    BY <1>2, FS_RemoveElement, FS_CardinalityType DEF Typed
  <2>2. CASE state = "Disconnected"
    <3>1. reply_handlers' = reply_handlers \ {h}
      BY <1>1, <1>5, <2>2
    <3> QED
      BY <2>1, <3>1
  <2>3. CASE state # "Disconnected"
    <3>1. reply_handlers' = (reply_handlers \ {h}) \cup {k}
      BY <1>1, <1>5, <2>3
    <3>2. k \notin reply_handlers \ {h}
      BY <1>2, <1>4 DEF TokensDiffer
    <3> QED
      BY <2>1, <3>1, <3>2, FS_AddElement
  <2> QED
    BY <2>2, <2>3
<1>8. sweep' \in Position /\ sweep'.then = sweep.then /\ sweep'.on
  <2>1. Bucket(h.token) \in Int
    <3> DEFINE t == h.token
    <3>1. t \in Nat /\ HashSize \in Nat \ {0}
      BY <1>3, ProtocolAssumption DEF Entry
    <3> HIDE DEF t
    <3>2. t % HashSize \in 0 .. HashSize - 1
      BY <3>1, ModFacts
    <3> QED
      BY <3>1, <3>2 DEF Bucket, t
  <2> QED
    BY <1>1, <1>3, <2>1 DEF Typed, Position, Entry
<1>9. Typed' /\ NoWalkNoThen'
  BY <1>1, <1>4, <1>5, <1>6, <1>7, <1>8 DEF Typed, NoWalkNoThen
<1>10. TokensDiffer'
  BY <1>1, <1>2, <1>4, <1>5 DEF TokensDiffer
<1>11. Room'
  <2>1. /\ Cardinality(reply_handlers) \in Nat /\ Cardinality(reply_handlers') \in Nat
        /\ Cardinality(Clients \ unsent) \in Nat
    BY <1>7, FS_CardinalityType, FS_Subset, ProtocolAssumption DEF Typed
  <2> QED
    BY <1>1, <1>7, <2>1 DEF Room
<1>12. ASSUME NEW y \in Clients
       PROVE  (calls[y] + Pending(y) = One(y \notin unsent))'
  <2>1. With(reply_handlers', y) = With(reply_handlers \ {h}, y)
    <3>1. \/ reply_handlers' = reply_handlers \ {h}
          \/ reply_handlers' = (reply_handlers \ {h}) \cup {k}
      BY <1>1, <1>5
    <3>2. k.client # y
      BY <1>3, <1>4
    <3> QED
      BY <3>1, <3>2 DEF With
  <2>2. Cardinality(With(reply_handlers', y))
          = Cardinality(With(reply_handlers, y)) - One(h.client = y)
    BY <1>2, <2>1, CountRemove DEF Typed
  <2>3. InFailed(y)' = InFailed(y)
    BY <1>1 DEF InFailed
  <2>4. InTable(y)' = With(reply_handlers', y) /\ InTable(y) = With(reply_handlers, y)
    BY DEF InTable, With
  <2>5. Cardinality(InTable(y)) \in Nat /\ Cardinality(InFailed(y)) \in Nat /\ calls[y] \in Nat
    BY CountsAreNat DEF Typed
  <2>6. calls[y] + Pending(y) = One(y \notin unsent)
    BY DEF Balanced
  <2>7. calls'[y] = calls[y] + One(h.client = y)
    BY <1>6
  <2>8. unsent' = unsent /\ sweep'.then = sweep.then
    BY <1>1, <1>8
  <2> QED
    BY <2>2, <2>3, <2>4, <2>5, <2>6, <2>7, <2>8 DEF Pending, One
<1>13. Balanced'
  BY <1>12 DEF Balanced
<1>14. ReplyFindsItsCommand' /\ AnswersDiffer'
  BY <1>1, <1>2, <1>4, <1>5 DEF ReplyFindsItsCommand, AnswersDiffer
<1> QED
  BY <1>9, <1>10, <1>11, <1>13, <1>14

\* After the walk the handler of the redirect command is called.
LEMMA WalkEnd ==
  ASSUME Books, SweepEnd
  PROVE  Books'
<1> USE DEF Books
<1> DEFINE x == sweep.then
<1>1. /\ sweep' = NoSweep /\ Call(x)
      /\ UNCHANGED <<state, tokenid, reply_handlers, failed, unsent, outstanding>>
  BY DEF SweepEnd, table, peer
<1>2. x \in Someone /\ NoClient \notin Clients
  BY ProtocolAssumption DEF Typed, Position
<1> HIDE DEF x
<1>3. /\ calls' \in [Clients -> Nat]
      /\ \A y \in Clients : calls'[y] = calls[y] + One(x = y)
  BY <1>1, <1>2, CallFacts
<1>4. sweep' \in Position /\ sweep'.then = NoClient
  BY <1>1, <1>2, SweepType DEF NoSweep
<1>5. Typed' /\ NoWalkNoThen' /\ TokensDiffer' /\ Room'
  BY <1>1, <1>3, <1>4 DEF Typed, NoWalkNoThen, TokensDiffer, Room
<1>6. ASSUME NEW y \in Clients
      PROVE  (calls[y] + Pending(y) = One(y \notin unsent))'
  <2>1. InTable(y)' = InTable(y) /\ InFailed(y)' = InFailed(y) /\ unsent' = unsent
    BY <1>1 DEF InTable, InFailed
  <2>2. Cardinality(InTable(y)) \in Nat /\ Cardinality(InFailed(y)) \in Nat /\ calls[y] \in Nat
    BY CountsAreNat DEF Typed
  <2>3. calls[y] + Pending(y) = One(y \notin unsent)
    BY DEF Balanced
  <2>4. calls'[y] = calls[y] + One(x = y) /\ sweep'.then # y
    BY <1>2, <1>3, <1>4
  <2>5. Pending(y) = Cardinality(InTable(y)) + Cardinality(InFailed(y)) + One(x = y)
    BY DEF Pending, One, x
  <2>6. Pending(y)' = Cardinality(InTable(y)) + Cardinality(InFailed(y)) + 0
    BY <2>1, <2>4 DEF Pending
  <2>7. One(x = y) \in Nat /\ One(y \notin unsent)' = One(y \notin unsent)
    BY <2>1 DEF One
  <2> QED
    BY <2>2, <2>3, <2>4, <2>5, <2>6, <2>7
<1>7. Balanced'
  BY <1>6 DEF Balanced
<1>8. ReplyFindsItsCommand' /\ AnswersDiffer'
  BY <1>1 DEF ReplyFindsItsCommand, AnswersDiffer
<1> QED
  BY <1>5, <1>7, <1>8

-----------------------------------------------------------------------------
(* The theorems.                                                           *)

\* The books are exact at the start.
LEMMA BooksInit == Init => Books
<1> SUFFICES ASSUME Init PROVE Books
  OBVIOUS
<1>1. NoClient \in Someone /\ NoClient \notin Clients /\ TokenMod \in Nat /\ TokenMod > 1
  BY ProtocolAssumption DEF Someone
<1>2. IsFiniteSet(reply_handlers) /\ Cardinality(reply_handlers) = 0
  BY FS_EmptySet DEF Init
<1>3. sweep \in Position /\ sweep.then = NoClient
  BY <1>1, SweepType DEF Init, NoSweep
<1>4. Typed
  BY <1>1, <1>2, <1>3 DEF Init, Typed
<1>5. NoWalkNoThen /\ TokensDiffer /\ ReplyFindsItsCommand /\ AnswersDiffer
  BY <1>3 DEF Init, NoWalkNoThen, TokensDiffer, ReplyFindsItsCommand, AnswersDiffer
<1>6. Room
  <2>1. Clients \ unsent = {}
    BY DEF Init
  <2> QED
    BY <1>2, <2>1, FS_EmptySet DEF Room
<1>7. ASSUME NEW x \in Clients
      PROVE  calls[x] + Pending(x) = One(x \notin unsent)
  <2>1. InTable(x) = {} /\ InFailed(x) = {}
    BY DEF Init, InTable, InFailed
  <2>2. sweep.then # x /\ calls[x] = 0 /\ x \in unsent
    BY <1>1, <1>3 DEF Init
  <2>3. Cardinality(InTable(x)) = 0 /\ Cardinality(InFailed(x)) = 0
    BY <2>1, FS_EmptySet
  <2> QED
    BY <2>2, <2>3 DEF Pending, One
<1>8. Balanced
  BY <1>7 DEF Balanced
<1> QED
  BY <1>4, <1>5, <1>6, <1>8 DEF Books

\* The books stay exact.
LEMMA BooksNext == Books /\ [Next]_vars => Books'
<1> SUFFICES ASSUME Books, [Next]_vars PROVE Books'
  OBVIOUS
<1>1. tokenid \in 0 .. TokenMod - 1
  BY DEF Books, Typed
<1>2. CASE Start
  BY <1>1, <1>2, QuietStep DEF Start, table, peer
<1>3. CASE SendHello
  BY <1>1, <1>3, QuietStep DEF SendHello, table, peer
<1>4. ASSUME NEW some \in BOOLEAN, Hello(some) PROVE Books'
  BY <1>1, <1>4, QuietStep DEF Hello, table
<1>5. ASSUME NEW x \in Clients, SendCommand(x) PROVE Books'
  <2>1. Send(x, FALSE) /\ state' = state
    BY <1>5 DEF SendCommand, chan
  <2> QED
    BY <2>1, SendStep
<1>6. ASSUME NEW x \in Clients, SendRedirect(x) PROVE Books'
  <2>1. Send(x, TRUE) /\ state = "Connected" /\ state' = "RedirectSent"
    BY <1>6 DEF SendRedirect
  <2> QED
    BY <2>1, SendStep
<1>7. CASE OtherTakesToken
  <2>1. tokenid' \in 0 .. TokenMod - 1
    <3> DEFINE k == tokenid + 1
    <3>1. k \in Nat /\ TokenMod \in Nat \ {0} /\ tokenid' = k % TokenMod
      BY <1>1, <1>7, ProtocolAssumption DEF OtherTakesToken
    <3> HIDE DEF k
    <3> QED
      BY <3>1, ModFacts
  <2> QED
    BY <1>7, <2>1, QuietStep DEF OtherTakesToken, chan, peer
<1>8. ASSUME NEW e \in outstanding, Reply(e) PROVE Books'
  <2>1. PICK h \in reply_handlers : /\ h.token = e.token
                                    /\ reply_handlers' = reply_handlers \ {h}
                                    /\ Call(h.client)
    BY <1>8 DEF Reply
  <2>2. /\ Idle /\ state # "Disconnected" /\ outstanding' = outstanding \ {e}
        /\ UNCHANGED <<tokenid, failed, unsent>> /\ sweep' = sweep
    BY <1>8 DEF Reply
  <2> QED
    BY <2>1, <2>2, AnswerStep
<1>9. ASSUME NEW e \in outstanding, RedirectAccepted(e) PROVE Books'
  <2>1. PICK h \in reply_handlers : /\ h.token = e.token
                                    /\ reply_handlers' = reply_handlers \ {h}
                                    /\ NotifyClosed(h.client)
    BY <1>9 DEF RedirectAccepted
  <2>2. /\ Idle /\ state # "Disconnected" /\ outstanding' = outstanding \ {e}
        /\ UNCHANGED <<tokenid, failed, unsent>>
    BY <1>9 DEF RedirectAccepted
  <2>3. \/ sweep' \in {sweep, NoSweep} /\ Call(h.client)
        \/ sweep' = Sweep(h.client) /\ UNCHANGED calls
    BY <2>1 DEF NotifyClosed
  <2> QED
    BY <2>1, <2>2, <2>3, AnswerStep
<1>10. ASSUME NEW e \in outstanding, RedirectRefused(e) PROVE Books'
  <2>1. PICK h \in reply_handlers : /\ h.token = e.token
                                    /\ reply_handlers' = reply_handlers \ {h}
                                    /\ Call(h.client)
    BY <1>10 DEF RedirectRefused
  <2>2. /\ Idle /\ state # "Disconnected" /\ outstanding' = outstanding \ {e}
        /\ UNCHANGED <<tokenid, failed, unsent>> /\ sweep' = sweep
    BY <1>10 DEF RedirectRefused
  <2> QED
    BY <2>1, <2>2, AnswerStep
<1>11. CASE UNCHANGED vars
  BY <1>1, <1>11, QuietStep DEF vars, chan, table, peer
<1> QED
  BY <1>2, <1>3, <1>4, <1>5, <1>6, <1>7, <1>8, <1>9, <1>10, <1>11,
     FailedStep, CloseStep, WalkStep, WalkEnd DEF Next, PeerAnswers

\* The inductive invariant of all steps of the channel.
THEOREM BooksAlways == Spec => []Books
<1> QED
  BY BooksInit, BooksNext, PTL DEF Spec

\* Every command that protocol_send_command accepted has its handler called at
\* most once, whether by handle_protocol_message, by the walk of channel_closed,
\* by redirect_done after it or by send_command_failed; and until then it waits
\* in exactly one of the places from which it will be called.
THEOREM HandlersCalledOnce == Spec => []CalledOnce
<1>1. Books => CalledOnce
  BY DEF Books, Typed, Balanced, CalledOnce, One
<1> QED
  BY <1>1, BooksAlways, PTL

\* While the channel lives, the token of every reply to come is the token of an
\* entry of reply_handlers, of the command that the peer answers or of the same
\* command after its handler was called: handle_protocol_message never meets an
\* unexpected token, although tokenid wraps and other channels take tokens.
THEOREM RepliesFindCommands == Spec => []ReplyFindsItsCommand
<1>1. Books => ReplyFindsItsCommand
  BY DEF Books
<1> QED
  BY <1>1, BooksAlways, PTL

-----------------------------------------------------------------------------
(* Discovery.  w is quiet, or what quiet will be after the step.           *)

\* What is known of slaves, by an agent and in a list on its way, is not younger
\* than the last packet of the slave.
SlavesOK(w, f) ==
  \A p \in DOMAIN f : /\ p \in Ports /\ DOMAIN f[p] = {"age", "req"}
                      /\ f[p].age \in 0 .. Old /\ w[p] <= f[p].age

BodyOK(w, f) ==
  \A p \in DOMAIN f : p \in Ports /\ RETENTION - f[p] \in 0 .. Old /\ w[p] <= RETENTION - f[p]

PacketTypes == {"REQ_INFO", "ACK_INFO", "REQ_SLAVES", "ACK_SLAVES", "PEERS_REMOVED"}

\* A packet on its way was sent after the last tick.
PacketOK(w, m) ==
  /\ m.type \in PacketTypes /\ m.from \in Ports /\ w[m.from] = 0 /\ m.to \in Ports
  /\ m.type = "ACK_SLAVES" => BodyOK(w, m.body)

Packets(w, q) == \E S : q \in Seq(S) /\ \A m \in S : PacketOK(w, m)

\* An agent lists itself.
PeersOK(a, f) ==
  /\ a \in DOMAIN f /\ f[a].left > 0
  /\ \A b \in DOMAIN f : DOMAIN f[b] = {"left", "ver"}

StateFields == {"id", "port", "slaves", "silence", "asked", "peers", "due"}

\* An agent that has its socket at P.
StateOK(w, a, P, s) ==
  /\ DOMAIN s = StateFields /\ s.id = a /\ s.port = P /\ SlavesOK(w, s.slaves)
  /\ PeersOK(a, s.peers)

AgentOK(w, a, s) ==
  s = Down(a) \/ (s.port \in Ports /\ StateOK(w, a, s.port, s))

\* A packet that a handler at P sends.
OutOK(w, P, o) ==
  /\ o.to \subseteq Ports /\ DOMAIN o.msg = {"type", "from", "to", "body"}
  /\ o.msg.type \in PacketTypes /\ o.msg.from = P
  /\ o.msg.type = "ACK_SLAVES" => BodyOK(w, o.msg.body)

Sends(w, P, q) == \E S : q \in Seq(S) /\ \A o \in S : OutOK(w, P, o)

HandlerOK(w, a, P, h) ==
  DOMAIN h = {"s", "out"} /\ StateOK(w, a, P, h.s) /\ Sends(w, P, h.out)

DiscInv ==
  /\ quiet \in [Ports -> 0 .. Old] /\ DOMAIN ag = Agents
  /\ \A a \in Agents : AgentOK(quiet, a, ag[a])
  /\ Packets(quiet, net)

-----------------------------------------------------------------------------
(* What the handlers do.                                                   *)

\* send_packet
LEMMA SendPacket ==
  ASSUME NEW w, NEW a, NEW P \in Ports, NEW h, HandlerOK(w, a, P, h), NEW to, to \subseteq Ports,
         NEW t \in PacketTypes, NEW b, t = "ACK_SLAVES" => BodyOK(w, b)
  PROVE  LET g == send_packet(h, to, t, b)
         IN  HandlerOK(w, a, P, g) /\ g.s = h.s /\ g.out # <<>>
<1> DEFINE o == [to |-> to \ {h.s.port}, msg |-> [type |-> t, from |-> h.s.port, to |-> None, body |-> b]]
           g == [h EXCEPT !.out = Append(h.out, o)]
<1>1. PICK S : h.out \in Seq(S) /\ \A x \in S : OutOK(w, P, x)
  BY DEF HandlerOK, Sends
<1>2. OutOK(w, P, o)
  BY DEF HandlerOK, StateOK, OutOK
<1>3. send_packet(h, to, t, b) = g
  BY DEF send_packet
<1> HIDE DEF o
<1>4. DOMAIN g = {"s", "out"} /\ g.s = h.s /\ g.out = Append(h.out, o)
  BY DEF HandlerOK
<1>5. Append(h.out, o) \in Seq(S \cup {o}) /\ Append(h.out, o) # <<>>
  <2>1. h.out \in Seq(S \cup {o})
    BY <1>1, SeqWithin
  <2> QED
    BY <2>1, AppendProperties
<1>6. Sends(w, P, Append(h.out, o))
  BY <1>1, <1>2, <1>5 DEF Sends
<1> HIDE DEF g
<1> QED
  BY <1>3, <1>4, <1>5, <1>6 DEF HandlerOK

\* udp_send_peer_info
LEMMA SendPeerInfo ==
  ASSUME NEW w, NEW a, NEW P \in Ports, NEW h, HandlerOK(w, a, P, h), NEW to, to \subseteq Ports,
         NEW id
  PROVE  LET g == udp_send_peer_info(h, id, to)
         IN  HandlerOK(w, a, P, g) /\ g.s = h.s /\ (id = a \/ h.out # <<>> => g.out # <<>>)
<1> DEFINE b == [id |-> id, ver |-> h.s.peers[id].ver]
           g == send_packet(h, to, "ACK_INFO", b)
<1>1. HandlerOK(w, a, P, g) /\ g.s = h.s /\ g.out # <<>>
  <2>1. "ACK_INFO" \in PacketTypes /\ "ACK_INFO" # "ACK_SLAVES"
    BY DEF PacketTypes
  <2> HIDE DEF b
  <2> QED
    BY <2>1, SendPacket
<1>2. h.s.id = a
  BY DEF HandlerOK, StateOK
<1> QED
  BY <1>1, <1>2 DEF udp_send_peer_info

\* A handler that has changed its table of slaves to a legal one.
LEMMA WithSlaves ==
  ASSUME NEW w, NEW a, NEW P, NEW h, HandlerOK(w, a, P, h), NEW f, SlavesOK(w, f)
  PROVE  LET g == [h EXCEPT !.s.slaves = f]
         IN  HandlerOK(w, a, P, g) /\ g.s.slaves = f /\ g.s.peers = h.s.peers /\ g.out = h.out
  BY DEF HandlerOK, StateOK, StateFields

\* A handler that has changed its table of peers to a legal one.
LEMMA WithPeers ==
  ASSUME NEW w, NEW a, NEW P, NEW h, HandlerOK(w, a, P, h), NEW f, PeersOK(a, f)
  PROVE  LET g == [h EXCEPT !.s.peers = f]
         IN  HandlerOK(w, a, P, g) /\ g.s.peers = f /\ g.s.slaves = h.s.slaves /\ g.out = h.out
  BY DEF HandlerOK, StateOK, StateFields

\* A handler that has reset last_req_slaves_time or last_master_packet_time.
LEMMA WithTimes ==
  ASSUME NEW w, NEW a, NEW P, NEW h, HandlerOK(w, a, P, h), NEW n
  PROVE  /\ HandlerOK(w, a, P, [h EXCEPT !.s.asked = n])
         /\ HandlerOK(w, a, P, [h EXCEPT !.s.silence = n])
  BY DEF HandlerOK, StateOK, StateFields

\* An operator is applied to an argument.
LEMMA StrictIs ==
  ASSUME NEW x, NEW F(_)
  PROVE  Strict(F, x) = F(x)
  BY DEF Strict

\* One peer of the walk of udp_send_ack_info, and what it does to a handler.
InfoOne(to, x, id) ==
  Strict(LAMBDA y : IF id \in DOMAIN y.s.peers THEN udp_send_peer_info(y, id, to) ELSE y, x)
InfoSent(to, i, b, x) ==
  \A w, a : \A P \in Ports : to \subseteq Ports /\ HandlerOK(w, a, P, b) =>
    /\ HandlerOK(w, a, P, x) /\ x.s = b.s
    /\ b.out # <<>> \/ (\E j \in 1 .. i : AgentSeq[j] = a) => x.out # <<>>

Announcing == INSTANCE ProofLemmas WITH Op <- InfoOne, Rel <- InfoSent

\* One more peer.
LEMMA InfoMore ==
  ASSUME NEW to, NEW i \in 1 .. Len(AgentSeq), NEW b, NEW x, InfoSent(to, i - 1, b, x)
  PROVE  InfoSent(to, i, b, InfoOne(to, x, AgentSeq[i]))
<1> DEFINE id == AgentSeq[i]
           y == IF id \in DOMAIN x.s.peers THEN udp_send_peer_info(x, id, to) ELSE x
<1>1. InfoOne(to, x, id) = y
  BY DEF InfoOne, Strict
<1>2. SUFFICES ASSUME NEW w, NEW a, NEW P \in Ports, to \subseteq Ports, HandlerOK(w, a, P, b)
               PROVE  /\ HandlerOK(w, a, P, y) /\ y.s = b.s
                      /\ b.out # <<>> \/ (\E j \in 1 .. i : AgentSeq[j] = a) => y.out # <<>>
  <2> HIDE DEF y
  <2> QED
    BY <1>1 DEF InfoSent, id
<1>3. /\ HandlerOK(w, a, P, x) /\ x.s = b.s
      /\ b.out # <<>> \/ (\E j \in 1 .. i - 1 : AgentSeq[j] = a) => x.out # <<>>
  BY <1>2 DEF InfoSent
<1>4. /\ HandlerOK(w, a, P, udp_send_peer_info(x, id, to)) /\ udp_send_peer_info(x, id, to).s = x.s
      /\ id = a \/ x.out # <<>> => udp_send_peer_info(x, id, to).out # <<>>
  BY <1>2, <1>3, SendPeerInfo
<1>5. a \in DOMAIN x.s.peers
  BY <1>3 DEF HandlerOK, StateOK, PeersOK
<1>6. \A j \in 1 .. i : j \in 1 .. i - 1 \/ j = i
  BY DiscoveryAssumption, LenProperties
<1>7. b.out # <<>> \/ (\E j \in 1 .. i : AgentSeq[j] = a) => id = a \/ x.out # <<>>
  BY <1>3, <1>6
<1> HIDE DEF id
<1>8. CASE id \in DOMAIN x.s.peers
  BY <1>3, <1>4, <1>7, <1>8
<1>9. CASE id \notin DOMAIN x.s.peers
  BY <1>3, <1>5, <1>7, <1>9
<1> QED
  BY <1>8, <1>9

\* udp_send_ack_info: the local peer is always sent.
LEMMA SendAckInfo ==
  ASSUME NEW w, NEW a \in Agents, NEW P \in Ports, NEW h, HandlerOK(w, a, P, h),
         NEW to, to \subseteq Ports
  PROVE  LET g == udp_send_ack_info(h, to)
         IN  HandlerOK(w, a, P, g) /\ g.s = h.s /\ g.out # <<>>
<1> DEFINE g == udp_send_ack_info(h, to)
<1>1. g = Announcing!Fold(to, h, AgentSeq)
  BY Zenon DEF udp_send_ack_info, InfoOne, Announcing!Fold, FoldLeft, Announcing!FoldLeft,
               MapThenFoldSet, Announcing!MapThenFoldSet, Max, Announcing!Max
<1>2. InfoSent(to, 0, h, h)
  BY DEF InfoSent
<1>3. \A i \in 1 .. Len(AgentSeq) : \A x :
        InfoSent(to, i - 1, h, x) => InfoSent(to, i, h, InfoOne(to, x, AgentSeq[i]))
  BY InfoMore
<1>4. AgentSeq \in Seq(Agents) /\ Len(AgentSeq) \in Nat /\ DOMAIN AgentSeq = 1 .. Len(AgentSeq)
  BY DiscoveryAssumption, LenProperties
<1>5. InfoSent(to, Len(AgentSeq), h, g)
  BY <1>1, <1>2, <1>3, <1>4, Announcing!FoldKeeps
<1>6. \E j \in 1 .. Len(AgentSeq) : AgentSeq[j] = a
  BY <1>4 DEF Agents, Range
<1>7. HandlerOK(w, a, P, g) /\ g.s = h.s /\ g.out # <<>>
  BY <1>5, <1>6 DEF InfoSent
<1> QED
  BY <1>7

\* udp_send_ack_slaves_all
LEMMA SendSlavesAll ==
  ASSUME NEW w, NEW a, NEW P \in Ports, NEW h, HandlerOK(w, a, P, h), NEW p \in Ports
  PROVE  LET g == udp_send_ack_slaves_all(h, p)
         IN  HandlerOK(w, a, P, g) /\ g.s = h.s
<1> DEFINE known == {q \in DOMAIN h.s.slaves \ {p} : TTL(h.s.slaves[q]) > 0}
           f == [q \in known |-> TTL(h.s.slaves[q])]
<1>1. SlavesOK(w, h.s.slaves)
  BY DEF HandlerOK, StateOK
<1>2. BodyOK(w, f)
  BY <1>1, DiscoveryAssumption DEF SlavesOK, BodyOK, TTL, Old
<1>3. "ACK_SLAVES" \in PacketTypes
  BY DEF PacketTypes
<1> HIDE DEF f, known
<1>4. LET g == send_packet(h, {p}, "ACK_SLAVES", f) IN HandlerOK(w, a, P, g) /\ g.s = h.s
  BY <1>2, <1>3, SendPacket
<1>5. udp_send_ack_slaves_all(h, p) = IF known = {} THEN h ELSE send_packet(h, {p}, "ACK_SLAVES", f)
  BY DEF udp_send_ack_slaves_all, known, f
<1> QED
  BY <1>4, <1>5

\* udp_send_ack_slaves_one
LEMMA SendSlavesOne ==
  ASSUME NEW w, NEW a, NEW P \in Ports, NEW h, HandlerOK(w, a, P, h), NEW p \in DOMAIN h.s.slaves
  PROVE  LET g == udp_send_ack_slaves_one(h, p)
         IN  HandlerOK(w, a, P, g) /\ g.s = h.s
<1> DEFINE f == Put(<<>>, p, TTL(h.s.slaves[p]))
           to == Requests(h.s)
<1>1. SlavesOK(w, h.s.slaves)
  BY DEF HandlerOK, StateOK
<1>2. BodyOK(w, f)
  BY <1>1, DiscoveryAssumption DEF SlavesOK, BodyOK, TTL, Old, Put
<1>3. "ACK_SLAVES" \in PacketTypes /\ to \subseteq Ports
  BY <1>1 DEF PacketTypes, Requests, SlavesOK
<1> HIDE DEF f, to
<1>4. LET g == send_packet(h, to, "ACK_SLAVES", f) IN HandlerOK(w, a, P, g) /\ g.s = h.s
  BY <1>2, <1>3, SendPacket
<1>5. udp_send_ack_slaves_one(h, p)
        = IF TTL(h.s.slaves[p]) <= 0 THEN h ELSE send_packet(h, to, "ACK_SLAVES", f)
  BY DEF udp_send_ack_slaves_one, to, f
<1> QED
  BY <1>4, <1>5

\* udp_send_all
LEMMA SendAll ==
  ASSUME NEW w, NEW a \in Agents, NEW P \in Ports, NEW h, HandlerOK(w, a, P, h), NEW p \in Ports
  PROVE  LET g == udp_send_all(h, p)
         IN  HandlerOK(w, a, P, g) /\ g.s = h.s
<1>1. PICK x : x = udp_send_ack_info(h, {p})
  OBVIOUS
<1>2. HandlerOK(w, a, P, x) /\ x.s = h.s
  BY <1>1, SendAckInfo
<1>3. PICK y : y = udp_send_ack_slaves_all(x, p)
  OBVIOUS
<1>4. HandlerOK(w, a, P, y) /\ y.s = x.s
  BY <1>2, <1>3, SendSlavesAll
<1>5. udp_send_all(h, p) = IF p \in Requests(h.s) THEN y ELSE x
  BY <1>1, <1>3 DEF udp_send_all, Strict
<1> QED
  BY <1>2, <1>4, <1>5

\* Greet, for a slave that is listed
LEMMA GreetKeeps ==
  ASSUME NEW w, NEW a \in Agents, NEW P \in Ports, NEW h, HandlerOK(w, a, P, h),
         NEW p \in DOMAIN h.s.slaves
  PROVE  LET g == Greet(h, p)
         IN  HandlerOK(w, a, P, g) /\ g.s = h.s
<1>1. p \in Ports
  BY DEF HandlerOK, StateOK, SlavesOK
<1>2. "REQ_INFO" \in PacketTypes /\ "REQ_INFO" # "ACK_SLAVES"
  BY DEF PacketTypes
<1>3. PICK x : x = send_packet(h, {p}, "REQ_INFO", <<>>)
  OBVIOUS
<1>4. HandlerOK(w, a, P, x) /\ x.s = h.s
  BY <1>1, <1>2, <1>3, SendPacket
<1>5. PICK y : y = udp_send_all(x, p)
  OBVIOUS
<1>6. HandlerOK(w, a, P, y) /\ y.s = h.s
  BY <1>1, <1>4, <1>5, SendAll
<1>7. PICK z : z = udp_send_ack_slaves_one(y, p)
  OBVIOUS
<1>8. HandlerOK(w, a, P, z) /\ z.s = h.s
  BY <1>6, <1>7, SendSlavesOne
<1>9. Greet(h, p) = z
  BY <1>3, <1>5, <1>7 DEF Greet, Strict
<1> QED
  BY <1>8, <1>9

\* add_slave, with an age that is not too young
LEMMA AddSlave ==
  ASSUME NEW w, NEW a \in Agents, NEW P \in Ports, NEW h, HandlerOK(w, a, P, h),
         NEW p \in Ports, NEW n \in 0 .. Old, w[p] <= n
  PROVE  HandlerOK(w, a, P, add_slave(h, p, n))
<1> DEFINE f == h.s.slaves
<1>1. SlavesOK(w, f)
  BY DEF HandlerOK, StateOK
<1>2. CASE p \in DOMAIN f
  <2>1. PICK v : v = [f[p] EXCEPT !.age = IF n < @ THEN n ELSE @]
    OBVIOUS
  <2>2. DOMAIN v = {"age", "req"} /\ v.age \in 0 .. Old /\ w[p] <= v.age
    BY <1>1, <1>2, <2>1 DEF SlavesOK
  <2>3. SlavesOK(w, [f EXCEPT ![p] = v])
    BY <1>1, <1>2, <2>2 DEF SlavesOK
  <2>4. PICK u : u = [f EXCEPT ![p] = v]
    OBVIOUS
  <2>5. HandlerOK(w, a, P, [h EXCEPT !.s.slaves = u])
    BY <2>3, <2>4, WithSlaves
  <2>6. add_slave(h, p, n) = [h EXCEPT !.s.slaves[p].age = IF n < @ THEN n ELSE @]
    BY <1>2 DEF add_slave
  <2>7. add_slave(h, p, n) = [h EXCEPT !.s.slaves = u]
    BY <2>1, <2>4, <2>6
  <2> QED
    BY <2>5, <2>7
<1>3. CASE p \notin DOMAIN f
  <2>1. PICK u : u = Put(f, p, [age |-> n, req |-> Old])
    OBVIOUS
  <2>2. SlavesOK(w, u) /\ p \in DOMAIN u
    BY <1>1, <2>1 DEF SlavesOK, Put
  <2>3. PICK g : g = [h EXCEPT !.s.slaves = u]
    OBVIOUS
  <2>4. HandlerOK(w, a, P, g) /\ g.s.slaves = u
    BY <2>2, <2>3, WithSlaves
  <2>5. HandlerOK(w, a, P, Greet(g, p))
    BY <2>2, <2>4, GreetKeeps
  <2>6. add_slave(h, p, n) = Greet(g, p)
    BY <1>3, <2>1, <2>3 DEF add_slave
  <2> QED
    BY <2>5, <2>6
<1> QED
  BY <1>2, <1>3

\* The addresses of a broadcast are ports.
LEMMA EveryonePorts ==
  ASSUME NEW w, NEW a, NEW P, NEW h, HandlerOK(w, a, P, h)
  PROVE  Everyone(h.s) \subseteq Ports
  BY DEF HandlerOK, StateOK, SlavesOK, Everyone, Ports

\* peer_server_add
LEMMA ServerAdd ==
  ASSUME NEW w, NEW a \in Agents, NEW P \in Ports, NEW h, HandlerOK(w, a, P, h), NEW id, NEW v
  PROVE  HandlerOK(w, a, P, peer_server_add(h, id, v))
<1> DEFINE f == h.s.peers
           same == id \in DOMAIN h.s.peers /\ (id = h.s.id \/ h.s.peers[id].ver = v)
<1>1. PeersOK(a, f) /\ h.s.id = a
  BY DEF HandlerOK, StateOK
<1>2. RETENTION > 0
  BY DiscoveryAssumption
<1>3. CASE same
  <2>1. PICK u : u = [f EXCEPT ![id].left = RETENTION]
    OBVIOUS
  <2>2. PeersOK(a, u)
    BY <1>1, <1>2, <1>3, <2>1 DEF PeersOK
  <2>3. HandlerOK(w, a, P, [h EXCEPT !.s.peers = u])
    BY <2>2, WithPeers
  <2>4. peer_server_add(h, id, v) = [h EXCEPT !.s.peers[id].left = RETENTION]
    BY <1>3 DEF peer_server_add
  <2>5. peer_server_add(h, id, v) = [h EXCEPT !.s.peers = u]
    BY <2>1, <2>4
  <2> QED
    BY <2>3, <2>5
<1>4. CASE ~same
  <2>1. PICK u : u = Put(f, id, [left |-> RETENTION, ver |-> v])
    OBVIOUS
  <2>2. PeersOK(a, u)
    BY <1>1, <1>2, <2>1 DEF PeersOK, Put
  <2>3. PICK g : g = [h EXCEPT !.s.peers = u]
    OBVIOUS
  <2>4. HandlerOK(w, a, P, g)
    BY <2>2, <2>3, WithPeers
  <2>5. HandlerOK(w, a, P, udp_send_peer_info(g, id, Everyone(g.s)))
    BY <2>4, EveryonePorts, SendPeerInfo
  <2>6. peer_server_add(h, id, v) = udp_send_peer_info(g, id, Everyone(g.s))
    BY <1>4, <2>1, <2>3 DEF peer_server_add, Strict
  <2> QED
    BY <2>5, <2>6
<1> QED
  BY <1>3, <1>4

\* RequestSlaves
LEMMA AskSlaves ==
  ASSUME NEW w, NEW a, NEW P \in Ports, NEW h, HandlerOK(w, a, P, h), NEW from \in Ports
  PROVE  HandlerOK(w, a, P, RequestSlaves(h, from))
<1>1. PICK y : y = [h EXCEPT !.s.asked = 0]
  OBVIOUS
<1>2. HandlerOK(w, a, P, y)
  BY <1>1, WithTimes
<1>3. "REQ_SLAVES" \in PacketTypes /\ "REQ_SLAVES" # "ACK_SLAVES"
  BY DEF PacketTypes
<1>4. HandlerOK(w, a, P, send_packet(y, {from}, "REQ_SLAVES", <<>>))
  BY <1>2, <1>3, SendPacket
<1>5. PICK early, z : /\ early = (h.s.asked < RequestDelay(from))
                      /\ z = send_packet(y, {from}, "REQ_SLAVES", <<>>)
  OBVIOUS
<1>6. PICK x : x = IF early THEN h ELSE z
  OBVIOUS
<1>7. HandlerOK(w, a, P, x)
  BY <1>4, <1>5, <1>6
<1>8. RequestSlaves(h, from) = IF from = Default THEN [x EXCEPT !.s.silence = 0] ELSE x
  BY <1>1, <1>5, <1>6 DEF RequestSlaves
<1>9. HandlerOK(w, a, P, [x EXCEPT !.s.silence = 0])
  BY <1>7, WithTimes
<1> QED
  BY <1>7, <1>8, <1>9

\* One slave of the list that Handle reads, and what the first of them do to a handler.
LearnOne(f, x, p) ==
  Strict(LAMBDA y : IF p \in DOMAIN f THEN add_slave(y, p, RETENTION - f[p]) ELSE y, x)
Learnt(f, i, b, x) ==
  \A w : \A a \in Agents, P \in Ports :
    BodyOK(w, f) /\ HandlerOK(w, a, P, b) => HandlerOK(w, a, P, x)

Learning == INSTANCE ProofLemmas WITH Op <- LearnOne, Rel <- Learnt

\* LearnSlaves
LEMMA LearnAll ==
  ASSUME NEW w, NEW a \in Agents, NEW P \in Ports, NEW h, HandlerOK(w, a, P, h), NEW f,
         BodyOK(w, f)
  PROVE  HandlerOK(w, a, P, LearnSlaves(h, f))
<1>2. PortSeq \in Seq(Ports)
  <2>1. AgentSeq \in Seq(Agents) /\ Len(AgentSeq) \in Nat /\ DOMAIN AgentSeq = 1 .. Len(AgentSeq)
    BY DiscoveryAssumption, LenProperties
  <2>2. ASSUME NEW i \in 1 .. 2 * Len(AgentSeq)
        PROVE  <<AgentSeq[(i + 1) \div 2], i % 2>> \in Ports
    <3>1. (i + 1) \div 2 \in 1 .. Len(AgentSeq) /\ i % 2 \in {0, 1}
      BY <2>1
    <3>2. AgentSeq[(i + 1) \div 2] \in Agents
      BY <2>1, <3>1, ElementOfSeq
    <3> QED
      BY <3>1, <3>2 DEF Ports
  <2>3. 2 * Len(AgentSeq) \in Nat
    BY <2>1
  <2> QED
    BY <2>2, <2>3, IsASeq DEF PortSeq
<1>3. Learnt(f, 0, h, h)
  BY DEF Learnt
<1>4. ASSUME NEW i \in 1 .. Len(PortSeq), NEW x, Learnt(f, i - 1, h, x)
      PROVE  Learnt(f, i, h, LearnOne(f, x, PortSeq[i]))
  <2>1. PICK p \in Ports : p = PortSeq[i]
    BY <1>2, ElementOfSeq
  <2>2. ASSUME NEW v, NEW b \in Agents, NEW Q \in Ports, BodyOK(v, f), HandlerOK(v, b, Q, h)
        PROVE  HandlerOK(v, b, Q, LearnOne(f, x, p))
    <3>1. HandlerOK(v, b, Q, x)
      BY <1>4, <2>2 DEF Learnt
    <3>2. CASE p \in DOMAIN f
      <4>1. RETENTION - f[p] \in 0 .. Old /\ v[p] <= RETENTION - f[p]
        BY <2>2, <3>2 DEF BodyOK
      <4>2. HandlerOK(v, b, Q, add_slave(x, p, RETENTION - f[p]))
        BY <3>1, <4>1, AddSlave
      <4>3. LearnOne(f, x, p) = add_slave(x, p, RETENTION - f[p])
        BY <3>2 DEF LearnOne, Strict
      <4> QED
        BY <4>2, <4>3
    <3>3. CASE p \notin DOMAIN f
      <4>1. LearnOne(f, x, p) = x
        BY <3>3 DEF LearnOne, Strict
      <4> QED
        BY <3>1, <4>1
    <3> QED
      BY <3>2, <3>3
  <2> QED
    BY <2>1, <2>2 DEF Learnt
<1>5. PICK g : g = Learning!Fold(f, h, PortSeq)
  OBVIOUS
<1>6. Learnt(f, Len(PortSeq), h, g)
  BY <1>2, <1>3, <1>4, <1>5, Learning!FoldKeeps
<1>7. HandlerOK(w, a, P, g)
  BY <1>6 DEF Learnt
<1>8. LearnSlaves(h, f) = g
  BY <1>5, Zenon DEF LearnSlaves, LearnOne, Learning!Fold, FoldLeft, Learning!FoldLeft,
                     MapThenFoldSet, Learning!MapThenFoldSet, Max, Learning!Max
<1> QED
  BY <1>7, <1>8

\* Handle, for a packet that is right
LEMMA HandleKeeps ==
  ASSUME NEW w, NEW a \in Agents, NEW P \in Ports, NEW h, HandlerOK(w, a, P, h), NEW m,
         PacketOK(w, m), m.type # "PEERS_REMOVED"
  PROVE  HandlerOK(w, a, P, Handle(h, m))
<1>1. m.from \in Ports
  BY DEF PacketOK
<1>2. m.type \in {"REQ_INFO", "ACK_INFO", "REQ_SLAVES", "ACK_SLAVES"}
  BY DEF PacketOK, PacketTypes
<1>3. CASE m.type = "REQ_INFO"
  <2>1. Handle(h, m) = udp_send_all(h, m.from)
    BY <1>3 DEF Handle
  <2> QED
    BY <1>1, <2>1, SendAll
<1>4. CASE m.type = "ACK_INFO"
  <2>1. Handle(h, m) = peer_server_add(h, m.body.id, m.body.ver)
    BY <1>4 DEF Handle
  <2> QED
    BY <2>1, ServerAdd
<1>5. CASE m.type = "REQ_SLAVES"
  <2> DEFINE f == h.s.slaves
  <2>1. PICK u : u = [f EXCEPT ![m.from].req = 0]
    OBVIOUS
  <2>2. SlavesOK(w, f)
    BY DEF HandlerOK, StateOK
  <2>3. SlavesOK(w, u)
    BY <2>1, <2>2 DEF SlavesOK
  <2>4. PICK x : x = [h EXCEPT !.s.slaves = u]
    OBVIOUS
  <2>5. HandlerOK(w, a, P, x)
    BY <2>3, <2>4, WithSlaves
  <2>6. [h EXCEPT !.s.slaves[m.from].req = 0] = x
    BY <2>1, <2>4
  <2>7. PICK y : y = IF m.from = Default THEN h ELSE x
    OBVIOUS
  <2>8. HandlerOK(w, a, P, y)
    BY <2>5, <2>7
  <2>9. HandlerOK(w, a, P, udp_send_ack_slaves_all(y, m.from))
    BY <1>1, <2>8, SendSlavesAll
  <2>10. Handle(h, m) = udp_send_ack_slaves_all(y, m.from)
    BY <1>5, <2>6, <2>7 DEF Handle
  <2> QED
    BY <2>9, <2>10
<1>6. CASE m.type = "ACK_SLAVES"
  <2>1. BodyOK(w, m.body)
    BY <1>6 DEF PacketOK
  <2>2. Handle(h, m) = LearnSlaves(h, m.body)
    BY <1>6 DEF Handle
  <2> QED
    BY <2>1, <2>2, LearnAll
<1> QED
  BY <1>2, <1>3, <1>4, <1>5, <1>6

\* udp_server_recv
LEMMA ReceivedKeeps ==
  ASSUME NEW w, NEW a \in Agents, NEW P \in Ports, NEW h, HandlerOK(w, a, P, h), NEW m,
         PacketOK(w, m)
  PROVE  HandlerOK(w, a, P, udp_server_recv(h, m))
<1>1. CASE m.from = h.s.port
  BY <1>1 DEF udp_server_recv
<1>2. CASE m.from # h.s.port /\ m.type = "PEERS_REMOVED"
  <2> DEFINE f == h.s.peers
  <2>1. PICK u : u = Restrict(f, DOMAIN f \ ({m.body} \ {h.s.id}))
    OBVIOUS
  <2>2. PeersOK(a, f) /\ h.s.id = a
    BY DEF HandlerOK, StateOK
  <2>3. PeersOK(a, u)
    BY <2>1, <2>2 DEF PeersOK, Restrict
  <2>4. HandlerOK(w, a, P, [h EXCEPT !.s.peers = u])
    BY <2>3, WithPeers
  <2>5. udp_server_recv(h, m) = [h EXCEPT !.s.peers = u]
    BY <1>2, <2>1 DEF udp_server_recv
  <2> QED
    BY <2>4, <2>5
<1>3. CASE m.from # h.s.port /\ m.type # "PEERS_REMOVED"
  <2>1. m.from \in Ports /\ w[m.from] <= 0 /\ 0 \in 0 .. Old
    BY DiscoveryAssumption DEF PacketOK, Old
  <2>2. PICK x : x = IF m.from = Default THEN h ELSE add_slave(h, m.from, 0)
    OBVIOUS
  <2>3. HandlerOK(w, a, P, add_slave(h, m.from, 0))
    BY <2>1, AddSlave
  <2>4. HandlerOK(w, a, P, x)
    BY <2>2, <2>3
  <2>5. PICK y : y = Handle(x, m)
    OBVIOUS
  <2>6. HandlerOK(w, a, P, y)
    BY <1>3, <2>4, <2>5, HandleKeeps
  <2>7. HandlerOK(w, a, P, RequestSlaves(y, m.from))
    BY <2>1, <2>6, AskSlaves
  <2>8. udp_server_recv(h, m) = RequestSlaves(y, m.from)
    BY <1>3, <2>2, <2>5 DEF udp_server_recv, Strict
  <2> QED
    BY <2>7, <2>8
<1> QED
  BY <1>1, <1>2, <1>3

\* Broadcast: something is sent.
LEMMA BroadcastSends ==
  ASSUME NEW w, NEW a \in Agents, NEW P \in Ports, NEW h, HandlerOK(w, a, P, h)
  PROVE  LET g == Broadcast(h) IN HandlerOK(w, a, P, g) /\ g.out # <<>>
<1>1. Everyone(h.s) \subseteq Ports
  BY EveryonePorts
<1> QED
  BY <1>1, SendAckInfo DEF Broadcast

\* Before anything is sent.
LEMMA NothingYet ==
  ASSUME NEW w
  PROVE  Packets(w, <<>>) /\ \A P : Sends(w, P, <<>>)
<1>1. PICK S : S = {}
  OBVIOUS
<1>2. <<>> \in Seq(S)
  OBVIOUS
<1>3. (\A m \in S : PacketOK(w, m)) /\ \A P : \A o \in S : OutOK(w, P, o)
  BY <1>1
<1> QED
  BY <1>2, <1>3 DEF Packets, Sends

\* An agent that is about to handle an event.
LEMMA BeginOK ==
  ASSUME NEW w, NEW a, NEW P, NEW s, StateOK(w, a, P, s)
  PROVE  HandlerOK(w, a, P, Begin(s))
<1>1. Sends(w, P, <<>>)
  BY NothingYet
<1>2. DOMAIN Begin(s) = {"s", "out"} /\ Begin(s).s = s /\ Begin(s).out = <<>>
  BY DEF Begin
<1> QED
  BY <1>1, <1>2 DEF HandlerOK

\* What is old enough for w is old enough for a v that is not greater.
LEMMA AgentLater ==
  ASSUME NEW w \in [Ports -> 0 .. Old], NEW v \in [Ports -> 0 .. Old],
         \A p \in Ports : v[p] <= w[p], NEW a, NEW s
  PROVE  /\ SlavesOK(w, s) => SlavesOK(v, s)
         /\ BodyOK(w, s) => BodyOK(v, s)
         /\ \A P : StateOK(w, a, P, s) => StateOK(v, a, P, s)
         /\ AgentOK(w, a, s) => AgentOK(v, a, s)
         /\ PacketOK(w, s) => PacketOK(v, s)
<1>1. Old \in Nat
  BY DiscoveryAssumption DEF Old
<1>2. ASSUME NEW f, SlavesOK(w, f) PROVE SlavesOK(v, f)
  BY <1>1, <1>2 DEF SlavesOK
<1>3. ASSUME NEW f, BodyOK(w, f) PROVE BodyOK(v, f)
  BY <1>1, <1>3 DEF BodyOK
<1>4. ASSUME NEW P, StateOK(w, a, P, s) PROVE StateOK(v, a, P, s)
  BY <1>2, <1>4 DEF StateOK
<1>5. AgentOK(w, a, s) => AgentOK(v, a, s)
  BY <1>4 DEF AgentOK
<1>6. ASSUME PacketOK(w, s) PROVE PacketOK(v, s)
  <2>1. s.from \in Ports /\ w[s.from] = 0
    BY <1>6 DEF PacketOK
  <2>2. v[s.from] = 0
    BY <1>1, <2>1
  <2> QED
    BY <1>3, <1>6, <2>2 DEF PacketOK
<1> QED
  BY <1>2, <1>3, <1>4, <1>5, <1>6

\* udp_refresh_timer at the port it takes, Q: an agent that lists itself is heard.
LEMMA TimerKeeps ==
  ASSUME NEW w \in [Ports -> 0 .. Old], NEW a \in Agents, NEW P \in Ports, NEW s,
         StateOK(w, a, P, s), NEW p \in Ports
  PROVE  \E Q \in Ports : LET g == udp_refresh_timer(s, p)
                              v == [w EXCEPT ![Q] = 0]
                          IN  HandlerOK(v, a, Q, g) /\ g.out # <<>>
<1> DEFINE f == s.slaves
<1>1. PICK k : k = KeptSlaves(f)
  OBVIOUS
<1>2. SlavesOK(w, f)
  BY DEF StateOK
<1>3. SlavesOK(w, k)
  BY <1>1, <1>2 DEF SlavesOK, KeptSlaves, RestrictValues, Restrict
<1>4. PICK t : t = [s EXCEPT !.slaves = k]
  OBVIOUS
<1>5. StateOK(w, a, P, t)
  BY <1>3, <1>4 DEF StateOK, StateFields
<1>6. PICK b : b = Begin(t)
  OBVIOUS
<1>7. HandlerOK(w, a, P, b) /\ b.out = <<>> /\ b.s = t
  BY <1>5, <1>6, BeginOK DEF Begin
<1>8. PICK x : x = create_server_socket(b, p)
  OBVIOUS
<1>9. PICK Q \in Ports : HandlerOK(w, a, Q, x)
  <2>1. CASE x = b
    BY <1>7, <2>1
  <2>2. CASE x = [b EXCEPT !.s.port = p]
    <3>1. DOMAIN x = {"s", "out"} /\ x.s = [t EXCEPT !.port = p] /\ x.out = <<>>
      BY <1>7, <2>2 DEF HandlerOK
    <3>2. StateOK(w, a, p, x.s)
      BY <1>5, <3>1 DEF StateOK, StateFields
    <3>3. x = Begin(x.s)
      BY <1>6, <2>2, <3>1 DEF Begin
    <3> QED
      BY <3>2, <3>3, BeginOK
  <2> QED
    BY <1>8, <2>1, <2>2 DEF create_server_socket
<1>10. PICK v : v = [w EXCEPT ![Q] = 0]
  OBVIOUS
<1>11. v \in [Ports -> 0 .. Old] /\ v[Q] = 0 /\ 0 \in 0 .. Old /\ \A r \in Ports : v[r] <= w[r]
  BY <1>10, DiscoveryAssumption DEF Old
<1>12. HandlerOK(v, a, Q, x)
  <2>1. StateOK(w, a, Q, x.s) /\ DOMAIN x = {"s", "out"} /\ x.out = <<>>
    BY <1>7, <1>8, <1>9 DEF HandlerOK, create_server_socket
  <2>2. StateOK(v, a, Q, x.s)
    BY <1>11, <2>1, AgentLater
  <2>3. Sends(v, Q, <<>>)
    BY NothingYet
  <2> QED
    BY <2>1, <2>2, <2>3 DEF HandlerOK
<1>13. PICK y : y = IF x.s.port = Default THEN x ELSE add_slave(x, x.s.port, 0)
  OBVIOUS
<1>14. HandlerOK(v, a, Q, y)
  <2>1. x.s.port = Q
    BY <1>12 DEF HandlerOK, StateOK
  <2>2. HandlerOK(v, a, Q, add_slave(x, Q, 0))
    BY <1>11, <1>12, AddSlave
  <2> QED
    BY <1>12, <1>13, <2>1, <2>2
<1>15. PICK g : g = Broadcast(y)
  OBVIOUS
<1>16. HandlerOK(v, a, Q, g) /\ g.out # <<>>
  BY <1>14, <1>15, BroadcastSends
<1>17. udp_refresh_timer(s, p) = g
  BY <1>1, <1>4, <1>6, <1>8, <1>13, <1>15 DEF udp_refresh_timer, Strict
<1> QED
  BY <1>10, <1>16, <1>17

-----------------------------------------------------------------------------
(* The packets on their way.                                               *)

\* One packet more.
LEMMA PacketsMore ==
  ASSUME NEW w, NEW q, Packets(w, q), NEW m, PacketOK(w, m)
  PROVE  Packets(w, Append(q, m))
<1>1. PICK S : q \in Seq(S) /\ \A x \in S : PacketOK(w, x)
  BY DEF Packets
<1>2. q \in Seq(S \cup {m})
  BY <1>1, SeqWithin, ElementOfSeq
<1>3. Append(q, m) \in Seq(S \cup {m})
  BY <1>2, AppendProperties
<1>4. \A x \in S \cup {m} : PacketOK(w, x)
  BY <1>1
<1> QED
  BY <1>3, <1>4 DEF Packets

\* The first packet and the others.
LEMMA PacketsFirst ==
  ASSUME NEW w, NEW q, Packets(w, q), q # <<>>
  PROVE  PacketOK(w, Head(q)) /\ Packets(w, Tail(q))
<1>1. PICK S : q \in Seq(S) /\ \A x \in S : PacketOK(w, x)
  BY DEF Packets
<1>2. Head(q) \in S /\ Tail(q) \in Seq(S)
  BY <1>1, TailPlaces
<1> QED
  BY <1>1, <1>2 DEF Packets

\* One agent of the walk of Copies, one packet of the walk of WithCopies, and one of
\* the walk of Without; p holds their parameters, and w for which packets are right.
CopyOne(p, n, b) ==
  IF b \in DOMAIN p.open /\ p.open[b] \in p.o.to
  THEN Append(n, [p.o.msg EXCEPT !.to = p.open[b]]) ELSE n
CopyNext(p, n, o) == Copies(p.open, n, o)
KeepOne(p, n, m) == IF m.to \in p.closed THEN n ELSE Append(n, m)
Right(p, i, b, n) == Packets(p.w, n)

Copying == INSTANCE ProofLemmas WITH Op <- CopyOne, Rel <- Right
CopyingAll == INSTANCE ProofLemmas WITH Op <- CopyNext, Rel <- Right
Keeping == INSTANCE ProofLemmas WITH Op <- KeepOne, Rel <- Right

\* Copies
LEMMA CopiesRight ==
  ASSUME NEW w, NEW P \in Ports, w[P] = 0, NEW open, NEW o, OutOK(w, P, o), NEW q, Packets(w, q)
  PROVE  Packets(w, Copies(open, q, o))
<1>1. PICK p : p.open = open /\ p.o = o /\ p.w = w
  <2> DEFINE p == [open |-> open, o |-> o, w |-> w]
  <2>1. p.open = open /\ p.o = o /\ p.w = w
    OBVIOUS
  <2> QED
    BY <2>1
<1>2. Copies(p.open, q, p.o) = Copying!Fold(p, q, AgentSeq)
  BY Zenon DEF Copies, CopyOne, Copying!Fold, FoldLeft, Copying!FoldLeft,
               MapThenFoldSet, Copying!MapThenFoldSet, Max, Copying!Max
<1>3. Right(p, 0, q, q)
  BY <1>1 DEF Right
<1>4. ASSUME NEW i \in 1 .. Len(AgentSeq), NEW n, Right(p, i - 1, q, n)
      PROVE  Right(p, i, q, CopyOne(p, n, AgentSeq[i]))
  <2>1. PICK b : b = AgentSeq[i]
    OBVIOUS
  <2>2. Packets(w, n)
    BY <1>1, <1>4 DEF Right
  <2>3. CASE b \in DOMAIN open /\ open[b] \in o.to
    <3>1. PICK t : t = open[b]
      OBVIOUS
    <3>2. PICK m : m = [o.msg EXCEPT !.to = t]
      OBVIOUS
    <3>3. /\ m.type = o.msg.type /\ m.from = P /\ m.to = t /\ m.body = o.msg.body
          /\ t \in Ports
      BY <2>3, <3>1, <3>2 DEF OutOK
    <3>4. PacketOK(w, m)
      BY <3>3 DEF OutOK, PacketOK
    <3>5. CopyOne(p, n, b) = Append(n, m)
      BY <1>1, <2>3, <3>1, <3>2 DEF CopyOne
    <3> QED
      BY <1>1, <2>1, <2>2, <3>4, <3>5, PacketsMore DEF Right
  <2>4. CASE ~(b \in DOMAIN open /\ open[b] \in o.to)
    <3>1. CopyOne(p, n, b) = n
      BY <1>1, <2>4 DEF CopyOne
    <3> QED
      BY <1>1, <2>1, <2>2, <3>1 DEF Right
  <2> QED
    BY <2>3, <2>4
<1>5. AgentSeq \in Seq(Agents)
  BY DiscoveryAssumption
<1>6. Right(p, Len(AgentSeq), q, Copying!Fold(p, q, AgentSeq))
  BY <1>3, <1>4, <1>5, Copying!FoldKeeps
<1> QED
  BY <1>1, <1>2, <1>6 DEF Right

\* WithCopies
LEMMA WithCopiesRight ==
  ASSUME NEW w, NEW P \in Ports, NEW open, NEW out, Sends(w, P, out), out # <<>> => w[P] = 0,
         NEW q, Packets(w, q)
  PROVE  Packets(w, WithCopies(open, q, out))
<1>1. PICK p : p.open = open /\ p.w = w
  <2> DEFINE p == [open |-> open, w |-> w]
  <2>1. p.open = open /\ p.w = w
    OBVIOUS
  <2> QED
    BY <2>1
<1>2. WithCopies(p.open, q, out) = CopyingAll!Fold(p, q, out)
  BY Zenon DEF WithCopies, CopyNext, CopyingAll!Fold, FoldLeft, CopyingAll!FoldLeft,
               MapThenFoldSet, CopyingAll!MapThenFoldSet, Max, CopyingAll!Max
<1>3. Right(p, 0, q, q)
  BY <1>1 DEF Right
<1>4. PICK S : out \in Seq(S) /\ \A o \in S : OutOK(w, P, o)
  BY DEF Sends
<1>5. ASSUME NEW i \in 1 .. Len(out), NEW n, Right(p, i - 1, q, n)
      PROVE  Right(p, i, q, CopyNext(p, n, out[i]))
  <2>1. OutOK(w, P, out[i])
    BY <1>4, ElementOfSeq
  <2>2. out # <<>>
    BY <1>4
  <2>3. Packets(w, n)
    BY <1>1, <1>5 DEF Right
  <2>4. Packets(w, Copies(open, n, out[i]))
    BY <2>1, <2>2, <2>3, CopiesRight
  <2> QED
    BY <1>1, <2>4 DEF Right, CopyNext
<1>6. Right(p, Len(out), q, CopyingAll!Fold(p, q, out))
  BY <1>3, <1>4, <1>5, CopyingAll!FoldKeeps
<1> QED
  BY <1>1, <1>2, <1>6 DEF Right

\* Without
LEMMA WithoutRight ==
  ASSUME NEW w, NEW closed, NEW q, Packets(w, q)
  PROVE  Packets(w, Without(closed, q))
<1>1. PICK p : p.closed = closed /\ p.w = w
  <2> DEFINE p == [closed |-> closed, w |-> w]
  <2>1. p.closed = closed /\ p.w = w
    OBVIOUS
  <2> QED
    BY <2>1
<1>2. Without(p.closed, q) = Keeping!Fold(p, <<>>, q)
  BY Zenon DEF Without, KeepOne, Keeping!Fold, FoldLeft, Keeping!FoldLeft,
               MapThenFoldSet, Keeping!MapThenFoldSet, Max, Keeping!Max
<1>3. Right(p, 0, <<>>, <<>>)
  BY <1>1, NothingYet DEF Right
<1>4. PICK S : q \in Seq(S) /\ \A m \in S : PacketOK(w, m)
  BY DEF Packets
<1>5. ASSUME NEW i \in 1 .. Len(q), NEW n, Right(p, i - 1, <<>>, n)
      PROVE  Right(p, i, <<>>, KeepOne(p, n, q[i]))
  <2>1. PacketOK(w, q[i])
    BY <1>4, ElementOfSeq
  <2>2. Packets(w, n)
    BY <1>1, <1>5 DEF Right
  <2>3. Packets(w, Append(n, q[i]))
    BY <2>1, <2>2, PacketsMore
  <2> QED
    BY <1>1, <2>2, <2>3 DEF Right, KeepOne
<1>6. Right(p, Len(q), <<>>, Keeping!Fold(p, <<>>, q))
  BY <1>3, <1>4, <1>5, Keeping!FoldKeeps
<1> QED
  BY <1>1, <1>2, <1>6 DEF Right

\* The packets and the agents that are right for w are right for a v that is not greater.
LEMMA PacketsLater ==
  ASSUME NEW w \in [Ports -> 0 .. Old], NEW v \in [Ports -> 0 .. Old],
         \A p \in Ports : v[p] <= w[p]
  PROVE  /\ \A q : Packets(w, q) => Packets(v, q)
         /\ \A P, q : Sends(w, P, q) => Sends(v, P, q)
<1>1. \A m : PacketOK(w, m) => PacketOK(v, m)
  BY AgentLater
<1>2. \A f : BodyOK(w, f) => BodyOK(v, f)
  BY AgentLater
<1>3. \A P, o : OutOK(w, P, o) => OutOK(v, P, o)
  BY <1>2 DEF OutOK
<1> QED
  BY <1>1, <1>3 DEF Packets, Sends

-----------------------------------------------------------------------------
(* The steps.                                                              *)

\* Done, for a handler at P that is right for quiet, or for quiet with 0 at P if
\* it has sent something.
LEMMA DoneKeeps ==
  ASSUME DiscInv, NEW a \in Agents, NEW P \in Ports, NEW w, NEW h, NEW q,
         Packets(quiet, q), Sends(w, P, h.out), AgentOK(w, a, h.s),
         w = quiet \/ (w = [quiet EXCEPT ![P] = 0] /\ h.out # <<>>), Done(a, h, q)
  PROVE  DiscInv'
<1>1. PICK u, z : u = quiet /\ z = quiet'
  OBVIOUS
<1>2. 0 \in 0 .. Old /\ 0 .. Old \subseteq Nat
  BY DiscoveryAssumption DEF Old
<1>3. u \in [Ports -> 0 .. Old] /\ w \in [Ports -> 0 .. Old] /\ \A p \in Ports : w[p] <= u[p]
  <2>1. u \in [Ports -> 0 .. Old]
    BY <1>1 DEF DiscInv
  <2>2. CASE w = u
    BY <1>2, <2>1, <2>2
  <2>3. CASE w = [u EXCEPT ![P] = 0]
    BY <1>2, <2>1, <2>3
  <2> QED
    BY <1>1, <2>1, <2>2, <2>3
<1>4. z = [p \in Ports |-> IF \E i \in DOMAIN h.out : h.out[i].msg.from = p THEN 0 ELSE u[p]]
  BY <1>1 DEF Done
<1>5. h.out # <<>> => z[P] = 0
  <2>1. PICK S : h.out \in Seq(S) /\ \A o \in S : OutOK(w, P, o)
    BY DEF Sends
  <2>2. ASSUME h.out # <<>> PROVE 1 \in DOMAIN h.out /\ h.out[1] \in S
    BY <2>1, <2>2, TailPlaces
  <2>3. ASSUME h.out # <<>> PROVE h.out[1].msg.from = P
    BY <2>1, <2>2, <2>3 DEF OutOK
  <2> QED
    BY <1>4, <2>2, <2>3
<1>6. z \in [Ports -> 0 .. Old] /\ \A p \in Ports : z[p] <= u[p] /\ z[p] <= w[p]
  <2>1. ASSUME NEW p \in Ports PROVE z[p] \in 0 .. Old /\ z[p] <= u[p]
    BY <1>2, <1>3, <1>4
  <2>2. ASSUME NEW p \in Ports PROVE z[p] <= w[p]
    <3>1. CASE w = u
      BY <2>1, <3>1
    <3>2. CASE w = [u EXCEPT ![P] = 0] /\ h.out # <<>> /\ p = P
      BY <1>2, <1>3, <1>5, <3>2
    <3>3. CASE w = [u EXCEPT ![P] = 0] /\ p # P
      BY <1>3, <2>1, <3>3
    <3> QED
      BY <1>1, <3>1, <3>2, <3>3
  <2>3. DOMAIN z = Ports /\ z = [p \in Ports |-> z[p]]
    BY <1>4
  <2> QED
    BY <2>1, <2>2, <2>3
<1>7. ag' = [ag EXCEPT ![a] = h.s] /\ DOMAIN ag = Agents
  BY DEF Done, DiscInv
<1>8. ASSUME NEW b \in Agents PROVE AgentOK(z, b, ag'[b])
  <2>1. CASE b = a
    BY <1>3, <1>6, <1>7, <2>1, AgentLater
  <2>2. CASE b # a
    <3>1. AgentOK(u, b, ag[b]) /\ ag'[b] = ag[b]
      BY <1>1, <1>7, <2>2 DEF DiscInv
    <3> QED
      BY <1>3, <1>6, <3>1, AgentLater
  <2> QED
    BY <2>1, <2>2
<1>9. Packets(z, net')
  <2>1. PICK open, closed : /\ open = [b \in Agents \ {a} |-> ag[b].port]
                            /\ closed = {ag[a].port} \ {h.s.port}
    OBVIOUS
  <2>2. net' = WithCopies(open, Without(closed, q), h.out)
    BY <2>1 DEF Done
  <2>3. Packets(z, Without(closed, q))
    BY <1>1, <1>3, <1>6, PacketsLater, WithoutRight
  <2>4. Sends(z, P, h.out)
    BY <1>3, <1>6, PacketsLater
  <2>5. Packets(z, WithCopies(open, Without(closed, q), h.out))
    BY <1>5, <2>3, <2>4, WithCopiesRight
  <2> QED
    BY <2>2, <2>5
<1> QED
  BY <1>1, <1>6, <1>7, <1>8, <1>9 DEF DiscInv

\* A handler ends with its agent at P.
LEMMA HandlerDone ==
  ASSUME DiscInv, NEW a \in Agents, NEW P \in Ports, NEW w, NEW h, NEW q,
         Packets(quiet, q), HandlerOK(w, a, P, h),
         w = quiet \/ (w = [quiet EXCEPT ![P] = 0] /\ h.out # <<>>), Done(a, h, q)
  PROVE  DiscInv'
<1>1. Sends(w, P, h.out) /\ AgentOK(w, a, h.s)
  BY DEF HandlerOK, AgentOK, StateOK
<1> QED
  BY <1>1, DoneKeeps

\* The port of bind
LEMMA BindPort ==
  ASSUME NEW a \in Agents
  PROVE  Bind(a) \in Ports
  BY DEF Bind, Ports

\* An agent that runs
LEMMA UpOK ==
  ASSUME DiscInv, NEW a \in Agents, ag[a].port # None
  PROVE  ag[a].port \in Ports /\ StateOK(quiet, a, ag[a].port, ag[a])
<1>1. AgentOK(quiet, a, ag[a])
  BY DEF DiscInv
<1>2. Down(a).port = None
  BY DEF Down
<1> QED
  BY <1>1, <1>2 DEF AgentOK

\* An agent is started.
LEMMA StartKeeps ==
  ASSUME DiscInv, NEW a \in Agents, StartAgent(a)
  PROVE  DiscInv'
<1>1. PICK P, n : P = Bind(a) /\ n = NextVersion(a)
  OBVIOUS
<1>2. P \in Ports
  BY <1>1, BindPort
<1>3. PICK s : s = Fresh(a, P, n)
  OBVIOUS
<1>4. StateOK(quiet, a, P, s)
  BY <1>3, DiscoveryAssumption DEF Fresh, StateOK, StateFields, SlavesOK, PeersOK, Put
<1>5. PICK b : b = Begin(s)
  OBVIOUS
<1>6. PICK h : h = send_packet(b, {Default}, "REQ_INFO", <<>>)
  OBVIOUS
<1>7. HandlerOK(quiet, a, P, h)
  <2>1. HandlerOK(quiet, a, P, b)
    BY <1>4, <1>5, BeginOK
  <2>2. {Default} \subseteq Ports /\ "REQ_INFO" \in PacketTypes /\ "REQ_INFO" # "ACK_SLAVES"
    BY DEF Ports, PacketTypes
  <2> QED
    BY <1>2, <1>6, <2>1, <2>2, SendPacket
<1>8. HandlerOK(quiet, a, P, Broadcast(h))
  BY <1>2, <1>7, BroadcastSends
<1>9. Done(a, Broadcast(h), net)
  BY <1>1, <1>3, <1>5, <1>6 DEF StartAgent
<1>10. Packets(quiet, net)
  BY DEF DiscInv
<1> QED
  BY <1>2, <1>8, <1>9, <1>10, HandlerDone

\* The timers fire.
LEMMA TimersKeep ==
  ASSUME DiscInv, NEW a \in Agents, Timers(a)
  PROVE  DiscInv'
<1>1. ag[a].due /\ Packets(quiet, net) /\ quiet \in [Ports -> 0 .. Old] /\ AgentOK(quiet, a, ag[a])
  BY DEF Timers, DiscInv
<1>2. ag[a].port \in Ports /\ StateOK(quiet, a, ag[a].port, ag[a])
  <2>1. ~Down(a).due
    BY DEF Down
  <2> QED
    BY <1>1, <2>1 DEF AgentOK
<1>3. PICK s : s = clear_stale_peers([ag[a] EXCEPT !.due = FALSE])
  OBVIOUS
<1>4. StateOK(quiet, a, ag[a].port, s)
  <2>1. PICK r : r = [ag[a] EXCEPT !.due = FALSE]
    OBVIOUS
  <2>2. StateOK(quiet, a, ag[a].port, r)
    BY <1>2, <2>1 DEF StateOK, StateFields
  <2>3. PICK f : f = RestrictValues(r.peers, LAMBDA e : e.left > 0)
    OBVIOUS
  <2>4. PeersOK(a, f)
    BY <2>2, <2>3 DEF StateOK, PeersOK, RestrictValues, Restrict
  <2>5. s = [r EXCEPT !.peers = f]
    BY <1>3, <2>1, <2>3 DEF clear_stale_peers
  <2> QED
    BY <2>2, <2>4, <2>5 DEF StateOK, StateFields
<1>5. PICK p : p = Bind(a)
  OBVIOUS
<1>6. p \in Ports
  BY <1>5, BindPort
<1>7. PICK h : h = udp_refresh_timer(s, p)
  OBVIOUS
<1>8. PICK Q \in Ports : HandlerOK([quiet EXCEPT ![Q] = 0], a, Q, h) /\ h.out # <<>>
  BY <1>1, <1>2, <1>4, <1>6, <1>7, TimerKeeps
<1>9. PICK w : w = [quiet EXCEPT ![Q] = 0]
  OBVIOUS
<1>10. Done(a, h, net)
  BY <1>3, <1>5, <1>7 DEF Timers
<1> QED
  BY <1>1, <1>8, <1>9, <1>10, HandlerDone

\* A packet is received.
LEMMA ReceiveKeeps ==
  ASSUME DiscInv, NEW a \in Agents, Receive(a)
  PROVE  DiscInv'
<1>1. net # <<>> /\ Packets(quiet, net) /\ Head(net).to = ag[a].port
  BY DEF Receive, DiscInv
<1>2. PICK m, q : m = Head(net) /\ q = Tail(net)
  OBVIOUS
<1>3. PacketOK(quiet, m) /\ Packets(quiet, q)
  BY <1>1, <1>2, PacketsFirst
<1>4. ag[a].port \in Ports /\ ag[a].port # None
  BY <1>1, <1>2, <1>3, DiscoveryAssumption DEF PacketOK
<1>5. StateOK(quiet, a, ag[a].port, ag[a])
  BY <1>4, UpOK
<1>6. PICK b, P : b = Begin(ag[a]) /\ P = ag[a].port
  OBVIOUS
<1>7. HandlerOK(quiet, a, P, b) /\ P \in Ports
  BY <1>4, <1>5, <1>6, BeginOK
<1>8. PICK h : h = udp_server_recv(b, m)
  OBVIOUS
<1>9. HandlerOK(quiet, a, P, h)
  BY <1>3, <1>7, <1>8, ReceivedKeeps
<1>10. Done(a, h, q)
  BY <1>2, <1>6, <1>8 DEF Receive
<1> QED
  BY <1>3, <1>7, <1>9, <1>10, HandlerDone

\* An agent stops or crashes.
LEMMA StopKeeps ==
  ASSUME DiscInv, NEW a \in Agents, Stop(a) \/ Crash(a)
  PROVE  DiscInv'
<1>1. a \in Up /\ Packets(quiet, net) /\ AgentOK(quiet, a, Down(a))
  BY DEF Stop, Crash, DiscInv, AgentOK
<1>2. ag[a].port \in Ports /\ StateOK(quiet, a, ag[a].port, ag[a])
  BY <1>1, UpOK DEF Up
<1>3. CASE Stop(a)
  <2>1. PICK P, b : P = ag[a].port /\ b = Begin(ag[a])
    OBVIOUS
  <2>2. HandlerOK(quiet, a, P, b) /\ P \in Ports /\ b.s = ag[a]
    BY <1>2, <2>1, BeginOK DEF Begin
  <2>3. Everyone(ag[a]) \subseteq Ports
    BY <2>2, EveryonePorts
  <2>4. PICK h : h = send_packet(b, Everyone(ag[a]), "PEERS_REMOVED", a)
    OBVIOUS
  <2>5. "PEERS_REMOVED" \in PacketTypes /\ "PEERS_REMOVED" # "ACK_SLAVES"
    BY DEF PacketTypes
  <2>6. HandlerOK(quiet, a, P, h)
    BY <2>2, <2>3, <2>4, <2>5, SendPacket
  <2>7. PICK g : g = [h EXCEPT !.s = Down(a)]
    OBVIOUS
  <2>8. Done(a, g, net)
    BY <1>3, <2>1, <2>4, <2>7 DEF Stop
  <2>9. g.s = Down(a) /\ g.out = h.out /\ Sends(quiet, P, h.out)
    BY <2>6, <2>7 DEF HandlerOK
  <2>10. Sends(quiet, P, g.out) /\ AgentOK(quiet, a, g.s)
    BY <1>1, <2>9
  <2> QED
    BY <1>1, <2>2, <2>8, <2>10, DoneKeeps
<1>4. CASE Crash(a)
  <2>1. PICK g : g = Begin(Down(a))
    OBVIOUS
  <2>2. g.s = Down(a) /\ g.out = <<>> /\ Done(a, g, net)
    BY <1>4, <2>1 DEF Crash, Begin
  <2>3. Sends(quiet, Default, g.out) /\ AgentOK(quiet, a, g.s) /\ Default \in Ports
    BY <1>1, <2>2, NothingYet DEF Ports
  <2> QED
    BY <1>1, <2>2, <2>3, DoneKeeps
<1> QED
  BY <1>3, <1>4

\* A packet is lost, delayed or doubled.
LEMMA NetworkKeeps ==
  ASSUME DiscInv, Lose \/ Delay \/ Duplicate
  PROVE  DiscInv'
<1>1. Packets(quiet, net) /\ net # <<>> /\ UNCHANGED <<ag, quiet>>
  <2>1. Len(net) > 1 => net # <<>>
    OBVIOUS
  <2> QED
    BY <2>1 DEF DiscInv, Lose, Delay, Duplicate
<1>2. PacketOK(quiet, Head(net)) /\ Packets(quiet, Tail(net))
  BY <1>1, PacketsFirst
<1>3. Packets(quiet, Append(Tail(net), Head(net))) /\ Packets(quiet, Append(net, Head(net)))
  BY <1>1, <1>2, PacketsMore
<1>4. Packets(quiet, net')
  BY <1>2, <1>3 DEF Lose, Delay, Duplicate
<1>5. Packets(quiet, net)'
  BY <1>1, <1>4
<1>6. \A a \in Agents : AgentOK(quiet, a, ag[a])'
  BY <1>1 DEF DiscInv
<1> QED
  BY <1>1, <1>5, <1>6 DEF DiscInv

\* Time passes for what is known of a slave and for the slave alike.
LEMMA TickKeeps ==
  ASSUME DiscInv, Tick
  PROVE  DiscInv'
<1>1. PICK u, z : u = quiet /\ z = quiet'
  OBVIOUS
<1>2. u \in [Ports -> 0 .. Old] /\ z = [p \in Ports |-> Older(u[p])] /\ Old \in Nat
  BY <1>1, DiscoveryAssumption DEF DiscInv, Tick, Old
<1>3. \A n \in 0 .. Old : Older(n) \in 0 .. Old
  BY <1>2 DEF Older
<1>4. \A m, n \in 0 .. Old : m <= n => Older(m) <= Older(n)
  BY <1>2 DEF Older
<1>5. z \in [Ports -> 0 .. Old]
  BY <1>2, <1>3
<1>6. ASSUME NEW a \in Agents PROVE AgentOK(z, a, ag'[a])
  <2>1. PICK s : s = ag[a]
    OBVIOUS
  <2>2. AgentOK(u, a, s)
    BY <1>1, <2>1 DEF DiscInv
  <2>3. CASE s = Down(a)
    <3>1. s.port = None
      BY <2>3 DEF Down
    <3>2. a \notin Up
      BY <2>1, <3>1 DEF Up
    <3>3. ag'[a] = s
      BY <2>1, <3>2 DEF Tick
    <3> QED
      BY <2>3, <3>3 DEF AgentOK
  <2>4. CASE s.port \in Ports /\ StateOK(u, a, s.port, s)
    <3>1. ag'[a] = Aged(s)
      <4>1. a \in Up
        BY <2>1, <2>4, DiscoveryAssumption DEF Up
      <4> QED
        BY <2>1, <4>1 DEF Tick
    <3> DEFINE f == [p \in DOMAIN s.slaves |-> [age |-> Older(s.slaves[p].age),
                                                req |-> Older(s.slaves[p].req)]]
               g == [id \in DOMAIN s.peers |-> IF id = s.id THEN s.peers[id]
                      ELSE [s.peers[id] EXCEPT !.left = @ - 1]]
               i == Older(s.silence)
               j == Older(s.asked)
    <3>2. Aged(s) = [s EXCEPT !.slaves = f, !.peers = g, !.silence = i, !.asked = j, !.due = TRUE]
      BY DEF Aged
    <3>3. SlavesOK(z, f)
      <4>1. SlavesOK(u, s.slaves)
        BY <2>4 DEF StateOK
      <4>2. ASSUME NEW p \in DOMAIN f
            PROVE  /\ p \in Ports /\ DOMAIN f[p] = {"age", "req"}
                   /\ f[p].age \in 0 .. Old /\ z[p] <= f[p].age
        <5>1. p \in Ports /\ s.slaves[p].age \in 0 .. Old /\ u[p] <= s.slaves[p].age
          BY <4>1 DEF SlavesOK
        <5>2. f[p] = [age |-> Older(s.slaves[p].age), req |-> Older(s.slaves[p].req)]
          OBVIOUS
        <5>3. z[p] = Older(u[p]) /\ u[p] \in 0 .. Old
          BY <1>2, <5>1
        <5>4. Older(u[p]) <= Older(s.slaves[p].age) /\ Older(s.slaves[p].age) \in 0 .. Old
          BY <1>3, <1>4, <5>1, <5>3
        <5> QED
          BY <5>1, <5>2, <5>3, <5>4
      <4> QED
        BY <4>2 DEF SlavesOK
    <3>4. PeersOK(a, g)
      <4>1. PeersOK(a, s.peers) /\ s.id = a
        BY <2>4 DEF StateOK
      <4> QED
        BY <4>1 DEF PeersOK
    <3> HIDE DEF f, g, i, j
    <3>5. DOMAIN s = StateFields
      BY <2>4 DEF StateOK
    <3>6. PICK t : t = [s EXCEPT !.slaves = f, !.peers = g, !.silence = i, !.asked = j, !.due = TRUE]
      OBVIOUS
    <3>7. /\ DOMAIN t = StateFields /\ t.id = s.id /\ t.port = s.port
          /\ t.slaves = f /\ t.peers = g
      BY <3>5, <3>6 DEF StateFields
    <3>8. StateOK(z, a, t.port, t) /\ t.port \in Ports
      BY <2>4, <3>3, <3>4, <3>7 DEF StateOK
    <3> QED
      BY <3>1, <3>2, <3>6, <3>8 DEF AgentOK
  <2> QED
    BY <2>2, <2>3, <2>4 DEF AgentOK
<1>7. Packets(z, net')
  BY NothingYet DEF Tick
<1>8. DOMAIN ag' = Agents
  BY DEF Tick
<1> QED
  BY <1>1, <1>5, <1>6, <1>7, <1>8 DEF DiscInv

\* The invariant holds before any agent is started.
LEMMA DiscInitOk ==
  ASSUME DiscInit
  PROVE  DiscInv
<1>1. quiet \in [Ports -> 0 .. Old]
  BY DiscoveryAssumption DEF DiscInit, Old
<1>2. Packets(quiet, net)
  BY NothingYet DEF DiscInit
<1>3. \A a \in Agents : ag[a] = Down(a)
  BY DEF DiscInit
<1>4. DOMAIN ag = Agents
  BY DEF DiscInit
<1> QED
  BY <1>1, <1>2, <1>3, <1>4 DEF DiscInv, AgentOK

\* Every step keeps the invariant.
LEMMA DiscNextKeeps ==
  ASSUME DiscInv, [DiscNext]_disc_vars
  PROVE  DiscInv'
<1>1. CASE UNCHANGED disc_vars
  BY <1>1 DEF disc_vars, DiscInv
<1>2. CASE DiscNext
  BY <1>2, TickKeeps, NetworkKeeps, StartKeeps, StopKeeps, TimersKeep, ReceiveKeeps
     DEF DiscNext, Works
<1> QED
  BY <1>1, <1>2

\* Nothing that the agents know or tell each other of a slave, in a table or in a
\* packet, is younger than the last packet of that slave; the inductive invariant.
THEOREM SlaveAgesSound == DiscSpec => []DiscInv
<1>1. DiscInit => DiscInv
  BY DiscInitOk
<1>2. DiscInv /\ [DiscNext]_disc_vars => DiscInv'
  BY DiscNextKeeps
<1> QED
  BY <1>1, <1>2, PTL DEF DiscSpec

\* A slave that is gone is not kept alive by agents that tell each other about it
\* (add_slave keeps the smaller age, the lists carry the time that is left).
THEOREM SlavesAreHonest == DiscSpec => []SlavesHonest
<1>1. DiscInv => SlavesHonest
  <2>1. SUFFICES ASSUME DiscInv, NEW a \in Up, NEW p \in DOMAIN ag[a].slaves
                 PROVE  ag[a].slaves[p].age >= quiet[p]
    BY DEF SlavesHonest
  <2>2. SlavesOK(quiet, ag[a].slaves) /\ quiet \in [Ports -> 0 .. Old]
    BY <2>1, UpOK DEF Up, StateOK, DiscInv
  <2>3. p \in Ports /\ ag[a].slaves[p].age \in 0 .. Old /\ quiet[p] <= ag[a].slaves[p].age
    BY <2>2 DEF SlavesOK
  <2> QED
    BY <2>2, <2>3, DiscoveryAssumption DEF Old
<1> QED
  BY <1>1, SlaveAgesSound, PTL
=============================================================================
