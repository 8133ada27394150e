---------------------------- MODULE ProofLemmas ----------------------------
(***************************************************************************)
(* Facts about numbers, finite sets and sequences that the proofs of       *)
(* several components use.                                                 *)
(***************************************************************************)
EXTENDS Integers, Sequences, FiniteSets, FiniteSetsExt, SequencesExt,
        FiniteSetTheorems, SequenceTheorems, WellFoundedInduction, TLAPS

\* Min of a non-empty set of naturals is its least element: what the loops
\* that search a list or a free number return.
LEMMA MinNat ==
  ASSUME NEW S, S \subseteq Nat, S # {}
  PROVE  Min(S) \in S /\ \A y \in S : Min(S) <= y
<1>1. IsWellFoundedOn(OpToRel(<, Nat), Nat)
  BY NatLessThanWellFounded
<1>2. PICK x \in S : \A y \in S : <<y, x>> \notin OpToRel(<, Nat)
  BY <1>1, WFMin
<1>3. ASSUME NEW y \in S PROVE x <= y
  <2>1. y \in Nat /\ x \in Nat
    OBVIOUS
  <2>2. ~(y < x)
    BY <1>2, <2>1 DEF OpToRel
  <2> QED
    BY <2>1, <2>2
<1> QED
  BY <1>3 DEF Min

\* A finite set of naturals has a greatest element: take the one with the
\* fewest elements above it.
LEMMA MaxNat ==
  ASSUME NEW S, S \subseteq Nat, S # {}, IsFiniteSet(S)
  PROVE  Max(S) \in S /\ \A y \in S : y <= Max(S)
<1> DEFINE Above(y) == {z \in S : z > y}
           Sizes == {Cardinality(Above(y)) : y \in S}
<1>1. ASSUME NEW y \in S
      PROVE  IsFiniteSet(Above(y)) /\ Cardinality(Above(y)) \in Nat
  BY FS_Subset, FS_CardinalityType
<1>2. Sizes \subseteq Nat /\ Sizes # {}
  BY <1>1
<1>3. PICK y \in S : Cardinality(Above(y)) = Min(Sizes)
  <2>1. Min(Sizes) \in Sizes
    BY <1>2, MinNat
  <2> QED
    BY <2>1
<1>4. ASSUME NEW z \in S PROVE z <= y
  <2> SUFFICES ASSUME z > y PROVE FALSE
    OBVIOUS
  <2>1. Above(z) \subseteq Above(y) /\ z \in Above(y) /\ z \notin Above(z)
    <3>1. \A w \in S : w \in Nat
      OBVIOUS
    <3>2. \A w \in S : w > z => w > y
      BY <3>1
    <3>3. ~(z > z)
      BY <3>1
    <3> QED
      BY <3>2, <3>3
  <2>2. Cardinality(Above(z)) < Cardinality(Above(y))
    <3>1. Cardinality(Above(z)) <= Cardinality(Above(y)) /\ Cardinality(Above(z)) # Cardinality(Above(y))
      BY <1>1, <2>1, FS_Subset
    <3> QED
      BY <1>1, <3>1
  <2>3. Cardinality(Above(y)) <= Cardinality(Above(z))
    <3>1. Cardinality(Above(z)) \in Sizes
      OBVIOUS
    <3>2. Min(Sizes) <= Cardinality(Above(z))
      <4> HIDE DEF Sizes
      <4> QED
        BY <1>2, <3>1, MinNat
    <3> QED
      BY <1>3, <3>2
  <2> QED
    BY <1>1, <2>2, <2>3
<1>5. \E x \in S : \A w \in S : x >= w
  BY <1>4
<1> QED
  BY <1>5 DEF Max

-----------------------------------------------------------------------------
(* Changes of a sequence.                                                 *)

\* A sequence is one over every set that holds its elements.
LEMMA SeqWithin ==
  ASSUME NEW S, NEW R, NEW q \in Seq(S), \A k \in 1 .. Len(q) : q[k] \in R
  PROVE  q \in Seq(R)
<1>1. Len(q) \in Nat /\ DOMAIN q = 1 .. Len(q) /\ q = [k \in 1 .. Len(q) |-> q[k]]
  BY LenProperties
<1> QED
  BY <1>1, IsASeq

\* The tail of a sequence, place by place.
LEMMA TailPlaces ==
  ASSUME NEW S, NEW q \in Seq(S), q # <<>>
  PROVE  /\ Len(q) \in Nat \ {0} /\ DOMAIN q = 1 .. Len(q)
         /\ DOMAIN Tail(q) = 1 .. Len(q) - 1
         /\ \A i \in DOMAIN Tail(q) : Tail(q)[i] = q[i + 1]
         /\ Head(q) = q[1] /\ Head(q) \in S /\ Tail(q) \in Seq(S)
<1>1. Len(q) \in Nat \ {0} /\ DOMAIN q = 1 .. Len(q) /\ Head(q) = q[1]
  BY LenProperties, EmptySeq
<1>2. /\ Tail(q) \in Seq(S) /\ Len(Tail(q)) = Len(q) - 1 /\ Head(q) \in S
      /\ \A i \in 1 .. Len(Tail(q)) : Tail(q)[i] = q[i + 1]
  BY HeadTailProperties
<1>3. DOMAIN Tail(q) = 1 .. Len(Tail(q))
  BY <1>2, LenProperties
<1> QED
  BY <1>1, <1>2, <1>3

\* An appended sequence, place by place.
LEMMA AppendPlaces ==
  ASSUME NEW S, NEW q \in Seq(S), NEW x \in S
  PROVE  /\ Len(q) \in Nat /\ DOMAIN q = 1 .. Len(q)
         /\ DOMAIN Append(q, x) = 1 .. Len(q) + 1
         /\ \A i \in DOMAIN q : Append(q, x)[i] = q[i]
         /\ Append(q, x)[Len(q) + 1] = x /\ Append(q, x) \in Seq(S)
<1>1. Len(q) \in Nat /\ DOMAIN q = 1 .. Len(q)
  BY LenProperties
<1>2. /\ Append(q, x) \in Seq(S) /\ Len(Append(q, x)) = Len(q) + 1
      /\ \A i \in 1 .. Len(q) : Append(q, x)[i] = q[i]
      /\ Append(q, x)[Len(q) + 1] = x
  BY AppendProperties
<1>3. DOMAIN Append(q, x) = 1 .. Len(Append(q, x))
  BY <1>2, LenProperties
<1> QED
  BY <1>1, <1>2, <1>3

\* Inserting one element keeps the others in order.
LEMMA InsertAtFacts ==
  ASSUME NEW S, NEW q \in Seq(S), NEW i \in 1 .. Len(q) + 1, NEW e \in S
  PROVE  /\ InsertAt(q, i, e) \in Seq(S)
         /\ Len(InsertAt(q, i, e)) = Len(q) + 1
         /\ \A k \in 1 .. Len(q) + 1 :
              InsertAt(q, i, e)[k] = IF k < i THEN q[k]
                                     ELSE IF k = i THEN e ELSE q[k - 1]
<1> DEFINE a == SubSeq(q, 1, i - 1)
           b == SubSeq(q, i, Len(q))
<1>1. Len(q) \in Nat /\ \A k \in 1 .. Len(q) : q[k] \in S
  BY LenProperties, ElementOfSeq
<1>2. /\ a \in Seq(S) /\ Len(a) = i - 1
      /\ \A k \in 1 .. i - 1 : a[k] = q[k]
  <2>1. \A k \in 1 .. i - 1 : q[k] \in S
    BY <1>1
  <2>2. /\ a \in Seq(S) /\ Len(a) = IF 1 <= i - 1 THEN (i - 1) - 1 + 1 ELSE 0
        /\ \A k \in 1 .. (i - 1) - 1 + 1 : a[k] = q[1 + k - 1]
    BY <1>1, <2>1, SubSeqProperties
  <2> QED
    BY <1>1, <2>2
<1>3. /\ b \in Seq(S) /\ Len(b) = Len(q) - i + 1
      /\ \A k \in 1 .. Len(q) - i + 1 : b[k] = q[i + k - 1]
  <2>1. \A k \in i .. Len(q) : q[k] \in S
    BY <1>1
  <2> QED
    BY <1>1, <2>1, SubSeqProperties
<1>4. <<e>> \in Seq(S) /\ Len(<<e>>) = 1 /\ <<e>>[1] = e
  OBVIOUS
<1>5. /\ a \o <<e>> \in Seq(S) /\ Len(a \o <<e>>) = i
      /\ \A k \in 1 .. i : (a \o <<e>>)[k] = IF k < i THEN q[k] ELSE e
  BY <1>1, <1>2, <1>4, ConcatProperties
<1>6. /\ (a \o <<e>>) \o b \in Seq(S)
      /\ Len((a \o <<e>>) \o b) = Len(q) + 1
      /\ \A k \in 1 .. Len(q) + 1 :
           ((a \o <<e>>) \o b)[k] = IF k <= i THEN (a \o <<e>>)[k] ELSE b[k - i]
  <2> DEFINE ae == a \o <<e>>
  <2> HIDE DEF a, b, ae
  <2>1. ae \in Seq(S) /\ Len(ae) = i
    BY <1>5 DEF ae
  <2>2. /\ ae \o b \in Seq(S) /\ Len(ae \o b) = Len(ae) + Len(b)
        /\ \A k \in 1 .. Len(ae) + Len(b) :
             (ae \o b)[k] = IF k <= Len(ae) THEN ae[k] ELSE b[k - Len(ae)]
    BY <1>3, <2>1, ConcatProperties
  <2>3. Len(ae) + Len(b) = Len(q) + 1
    BY <1>1, <1>3, <2>1
  <2>4. /\ ae \o b \in Seq(S) /\ Len(ae \o b) = Len(q) + 1
        /\ \A k \in 1 .. Len(q) + 1 :
             (ae \o b)[k] = IF k <= i THEN ae[k] ELSE b[k - i]
    BY <2>1, <2>2, <2>3
  <2> QED
    BY <2>4 DEF ae
<1>7. InsertAt(q, i, e) = (a \o <<e>>) \o b
  BY DEF InsertAt
<1> HIDE DEF a, b
<1>8. \A k \in 1 .. Len(q) + 1 :
        InsertAt(q, i, e)[k] = IF k < i THEN q[k]
                               ELSE IF k = i THEN e ELSE q[k - 1]
  <2> SUFFICES ASSUME NEW k \in 1 .. Len(q) + 1
               PROVE  InsertAt(q, i, e)[k] = IF k < i THEN q[k]
                                             ELSE IF k = i THEN e ELSE q[k - 1]
    OBVIOUS
  <2>1. CASE k <= i
    BY <1>1, <1>5, <1>6, <1>7, <2>1
  <2>2. CASE k > i
    <3>1. k - i \in 1 .. Len(q) - i + 1 /\ i + (k - i) - 1 = k - 1
      BY <1>1, <2>2
    <3>2. b[k - i] = q[k - 1]
      BY <1>3, <3>1
    <3> QED
      BY <1>1, <1>6, <1>7, <2>2, <3>2
  <2> QED
    BY <1>1, <2>1, <2>2
<1> QED
  BY <1>6, <1>7, <1>8

\* Removing one element keeps the others in order.
LEMMA RemoveAtFacts ==
  ASSUME NEW S, NEW q \in Seq(S), NEW i \in 1 .. Len(q)
  PROVE  /\ RemoveAt(q, i) \in Seq(S)
         /\ Len(RemoveAt(q, i)) = Len(q) - 1
         /\ \A k \in 1 .. Len(q) - 1 :
              RemoveAt(q, i)[k] = IF k < i THEN q[k] ELSE q[k + 1]
<1> DEFINE a == SubSeq(q, 1, i - 1)
           b == SubSeq(q, i + 1, Len(q))
<1>1. Len(q) \in Nat /\ \A k \in 1 .. Len(q) : q[k] \in S
  BY LenProperties, ElementOfSeq
<1>2. /\ a \in Seq(S) /\ Len(a) = i - 1
      /\ \A k \in 1 .. i - 1 : a[k] = q[k]
  <2>1. \A k \in 1 .. i - 1 : q[k] \in S
    BY <1>1
  <2> QED
    BY <1>1, <2>1, SubSeqProperties
<1>3. /\ b \in Seq(S) /\ Len(b) = Len(q) - i
      /\ \A k \in 1 .. Len(q) - i : b[k] = q[i + k]
  <2>1. \A k \in i + 1 .. Len(q) : q[k] \in S
    BY <1>1
  <2> QED
    BY <1>1, <2>1, SubSeqProperties
<1>4. /\ a \o b \in Seq(S) /\ Len(a \o b) = Len(q) - 1
      /\ \A k \in 1 .. Len(q) - 1 :
           (a \o b)[k] = IF k <= i - 1 THEN a[k] ELSE b[k - (i - 1)]
  <2> HIDE DEF a, b
  <2>1. /\ a \o b \in Seq(S) /\ Len(a \o b) = Len(a) + Len(b)
        /\ \A k \in 1 .. Len(a) + Len(b) :
             (a \o b)[k] = IF k <= Len(a) THEN a[k] ELSE b[k - Len(a)]
    BY <1>2, <1>3, ConcatProperties
  <2>2. Len(a) + Len(b) = Len(q) - 1
    BY <1>1, <1>2, <1>3
  <2> QED
    BY <1>2, <2>1, <2>2
<1>5. RemoveAt(q, i) = a \o b
  BY DEF RemoveAt
<1> HIDE DEF a, b
<1>6. \A k \in 1 .. Len(q) - 1 :
        RemoveAt(q, i)[k] = IF k < i THEN q[k] ELSE q[k + 1]
  <2> SUFFICES ASSUME NEW k \in 1 .. Len(q) - 1
               PROVE  RemoveAt(q, i)[k] = IF k < i THEN q[k] ELSE q[k + 1]
    OBVIOUS
  <2>1. CASE k < i
    BY <1>1, <1>2, <1>4, <1>5, <2>1
  <2>2. CASE k >= i
    <3>1. k - (i - 1) \in 1 .. Len(q) - i /\ i + (k - (i - 1)) = k + 1
      BY <1>1, <2>2
    <3>2. b[k - (i - 1)] = q[k + 1]
      BY <1>3, <3>1
    <3>3. ~(k <= i - 1) /\ ~(k < i)
      BY <1>1, <2>2
    <3>4. (a \o b)[k] = b[k - (i - 1)]
      BY <1>4, <3>3
    <3> QED
      BY <1>5, <3>2, <3>3, <3>4
  <2> QED
    BY <1>1, <2>1, <2>2
<1> QED
  BY <1>4, <1>5, <1>6

-----------------------------------------------------------------------------
(* Counting in a sequence.                                                 *)

\* The places of s at which a member of T stands.
Places(s, T) == {i \in DOMAIN s : s[i] \in T}

\* The places of a set in a sequence are finitely many.
LEMMA PlacesFinite ==
  ASSUME NEW S, NEW s \in Seq(S), NEW T
  PROVE  IsFiniteSet(Places(s, T)) /\ Cardinality(Places(s, T)) \in Nat
<1>1. DOMAIN s = 1 .. Len(s) /\ Len(s) \in Nat
  BY LenProperties
<1>2. IsFiniteSet(1 .. Len(s)) /\ Places(s, T) \in SUBSET (1 .. Len(s))
  BY <1>1, FS_Interval DEF Places
<1> QED
  BY <1>2, FS_Subset, FS_CardinalityType

\* An empty sequence has none.
LEMMA PlacesEmpty ==
  ASSUME NEW T
  PROVE  Cardinality(Places(<<>>, T)) = 0
<1>1. Places(<<>>, T) = {}
  BY DEF Places
<1> QED
  BY <1>1, FS_EmptySet

\* Append adds the last place.
LEMMA PlacesAppend ==
  ASSUME NEW S, NEW s \in Seq(S), NEW e \in S, NEW T
  PROVE  Cardinality(Places(Append(s, e), T))
           = Cardinality(Places(s, T)) + (IF e \in T THEN 1 ELSE 0)
<1>1. DOMAIN s = 1 .. Len(s) /\ Len(s) \in Nat
  BY LenProperties
<1>2. /\ DOMAIN Append(s, e) = 1 .. Len(s) + 1
      /\ \A i \in 1 .. Len(s) : Append(s, e)[i] = s[i]
      /\ Append(s, e)[Len(s) + 1] = e
  BY AppendProperties, LenProperties
<1>3. IsFiniteSet(Places(s, T)) /\ Cardinality(Places(s, T)) \in Nat /\ Len(s) + 1 \notin Places(s, T)
  <2>1. Len(s) + 1 \notin Places(s, T)
    BY <1>1 DEF Places
  <2> QED
    BY <2>1, PlacesFinite
<1>4. CASE e \in T
  <2>1. Places(Append(s, e), T) = Places(s, T) \cup {Len(s) + 1}
    BY <1>1, <1>2, <1>4 DEF Places
  <2> QED
    BY <1>3, <1>4, <2>1, FS_AddElement
<1>5. CASE e \notin T
  <2>1. Places(Append(s, e), T) = Places(s, T)
    BY <1>1, <1>2, <1>5 DEF Places
  <2> QED
    BY <1>5, <2>1, PlacesFinite
<1> QED
  BY <1>4, <1>5

\* Tail drops the first place.
LEMMA PlacesTail ==
  ASSUME NEW S, NEW s \in Seq(S), s # <<>>, NEW T
  PROVE  Cardinality(Places(Tail(s), T))
           = Cardinality(Places(s, T)) - (IF Head(s) \in T THEN 1 ELSE 0)
<1> DEFINE P == Places(s, T) \ {1}
           Q == Places(Tail(s), T)
           f == [i \in Q |-> i + 1]
<1>1. DOMAIN s = 1 .. Len(s) /\ Len(s) \in Nat \ {0} /\ Head(s) = s[1]
  BY LenProperties, EmptySeq
<1>2. /\ DOMAIN Tail(s) = 1 .. Len(s) - 1
      /\ \A i \in 1 .. Len(s) - 1 : Tail(s)[i] = s[i + 1]
  BY HeadTailProperties, LenProperties
<1>3. IsFiniteSet(Places(s, T)) /\ IsFiniteSet(Q)
  BY PlacesFinite, HeadTailProperties
<1>4. f \in Bijection(Q, P)
  <2>1. \A i \in Q : i \in Nat /\ i + 1 \in P
    BY <1>1, <1>2 DEF Places
  <2>2. \A j \in P : j - 1 \in Q /\ j = (j - 1) + 1
    BY <1>1, <1>2 DEF Places
  <2>3. f \in [Q -> P]
    BY <2>1
  <2>4. f \in Injection(Q, P)
    BY <2>1, <2>3 DEF Injection, IsInjective
  <2>5. f \in Surjection(Q, P)
    BY <2>2, <2>3 DEF Surjection
  <2> QED
    BY <2>4, <2>5 DEF Bijection
<1>5. Cardinality(P) = Cardinality(Q)
  BY <1>3, <1>4, FS_Bijection DEF ExistsBijection
<1>6. Cardinality(P) = IF 1 \in Places(s, T) THEN Cardinality(Places(s, T)) - 1
                       ELSE Cardinality(Places(s, T))
  BY <1>3, FS_RemoveElement
<1>7. 1 \in Places(s, T) <=> Head(s) \in T
  BY <1>1 DEF Places
<1> QED
  BY <1>5, <1>6, <1>7, PlacesFinite

\* r is p followed by q.
Joined(r, p, q) ==
  /\ Len(r) = Len(p) + Len(q)
  /\ \A i \in 1 .. Len(p) : r[i] = p[i]
  /\ \A i \in 1 .. Len(q) : r[Len(p) + i] = q[i]

\* A sequence counts what its two parts count.
LEMMA PlacesJoin ==
  ASSUME NEW S, NEW p \in Seq(S), NEW q \in Seq(S), NEW r \in Seq(S), NEW T,
         Joined(r, p, q)
  PROVE  Cardinality(Places(r, T)) = Cardinality(Places(p, T)) + Cardinality(Places(q, T))
<1> DEFINE A == Places(p, T)
           B == Places(q, T)
           n == Len(p)
           C == {i \in Places(r, T) : i > n}
           f == [i \in B |-> n + i]
<1>1. /\ DOMAIN p = 1 .. n /\ n \in Nat /\ DOMAIN q = 1 .. Len(q) /\ Len(q) \in Nat
      /\ DOMAIN r = 1 .. n + Len(q)
  BY LenProperties DEF Joined
<1>2. /\ IsFiniteSet(A) /\ IsFiniteSet(B) /\ IsFiniteSet(Places(r, T))
      /\ Cardinality(A) \in Nat /\ Cardinality(B) \in Nat
  BY PlacesFinite
<1>3. \A i \in B : n + i \in C
  BY <1>1 DEF Places, Joined
<1>4. \A j \in C : j - n \in B /\ j = n + (j - n)
  <2> SUFFICES ASSUME NEW j \in C PROVE j - n \in B /\ j = n + (j - n)
    OBVIOUS
  <2>1. j \in 1 .. n + Len(q) /\ j > n /\ r[j] \in T
    BY <1>1 DEF Places, Joined
  <2>2. j - n \in 1 .. Len(q) /\ j = n + (j - n)
    BY <1>1, <2>1
  <2>3. r[n + (j - n)] = q[j - n]
    BY <2>2 DEF Joined
  <2> QED
    BY <1>1, <2>1, <2>2, <2>3 DEF Places
<1>5. f \in Bijection(B, C)
  <2>1. f \in [B -> C]
    BY <1>3
  <2>2. \A i \in B : i \in Nat
    BY <1>1 DEF Places, Joined
  <2>3. f \in Injection(B, C)
    BY <1>1, <2>1, <2>2 DEF Injection, IsInjective
  <2>4. f \in Surjection(B, C)
    BY <1>4, <2>1 DEF Surjection
  <2> QED
    BY <2>3, <2>4 DEF Bijection
<1>6. IsFiniteSet(C) /\ Cardinality(C) = Cardinality(B)
  <2> HIDE DEF B, C, f
  <2> QED
    BY <1>2, <1>5, FS_Bijection DEF ExistsBijection
<1>7. Places(r, T) = A \cup C
  <2>1. \A i : i \in Places(r, T) => i \in A \cup C
    BY <1>1 DEF Places, Joined
  <2>2. \A i : i \in A => i \in Places(r, T)
    BY <1>1 DEF Places, Joined
  <2> QED
    BY <2>1, <2>2
<1>8. A \cap C = {}
  BY <1>1 DEF Places, Joined
<1> HIDE DEF A, B, C, n
<1>9. Cardinality(A \cup C) = Cardinality(A) + Cardinality(C) - Cardinality(A \cap C)
  BY <1>2, <1>6, FS_Union
<1>10. Cardinality(A \cap C) = 0
  BY <1>8, FS_EmptySet
<1>11. Cardinality(Places(r, T)) = Cardinality(A) + Cardinality(B)
  BY <1>2, <1>6, <1>7, <1>9, <1>10
<1> QED
  BY <1>11 DEF A, B

\* Concatenation adds the places of both.
LEMMA PlacesConcat ==
  ASSUME NEW S, NEW p \in Seq(S), NEW q \in Seq(S), NEW T
  PROVE  Cardinality(Places(p \o q, T)) = Cardinality(Places(p, T)) + Cardinality(Places(q, T))
<1> DEFINE r == p \o q
<1>1. Len(p) \in Nat /\ Len(q) \in Nat
  BY LenProperties
<1>2. /\ r \in Seq(S) /\ Len(r) = Len(p) + Len(q)
      /\ \A i \in 1 .. Len(p) + Len(q) : r[i] = IF i <= Len(p) THEN p[i] ELSE q[i - Len(p)]
  BY ConcatProperties
<1> HIDE DEF r
<1>3. \A i \in 1 .. Len(p) : r[i] = p[i]
  BY <1>1, <1>2
<1>4. ASSUME NEW i \in 1 .. Len(q) PROVE r[Len(p) + i] = q[i]
  <2>1. /\ Len(p) + i \in 1 .. Len(p) + Len(q) /\ ~(Len(p) + i <= Len(p))
        /\ (Len(p) + i) - Len(p) = i
    BY <1>1
  <2> QED
    BY <1>2, <2>1
<1>5. Joined(r, p, q)
  BY <1>2, <1>3, <1>4 DEF Joined
<1>6. Cardinality(Places(r, T)) = Cardinality(Places(p, T)) + Cardinality(Places(q, T))
  BY <1>2, <1>5, PlacesJoin
<1> QED
  BY <1>6 DEF r

\* The two parts of a sequence that is cut behind place n.
LEMMA PlacesCut ==
  ASSUME NEW S, NEW q \in Seq(S), NEW n \in 0 .. Len(q), NEW T
  PROVE  Cardinality(Places(q, T)) = Cardinality(Places(SubSeq(q, 1, n), T))
                                     + Cardinality(Places(SubSeq(q, n + 1, Len(q)), T))
<1> DEFINE a == SubSeq(q, 1, n)
           b == SubSeq(q, n + 1, Len(q))
<1>1. Len(q) \in Nat /\ \A k \in 1 .. Len(q) : q[k] \in S
  BY LenProperties, ElementOfSeq
<1>2. /\ a \in Seq(S) /\ Len(a) = n
      /\ \A k \in 1 .. n : a[k] = q[k]
  <2>1. \A k \in 1 .. n : q[k] \in S
    BY <1>1
  <2> QED
    BY <1>1, <2>1, SubSeqProperties
<1>3. /\ b \in Seq(S) /\ Len(b) = Len(q) - n
      /\ \A k \in 1 .. Len(q) - n : b[k] = q[n + k]
  <2>1. \A k \in n + 1 .. Len(q) : q[k] \in S
    BY <1>1
  <2> QED
    BY <1>1, <2>1, SubSeqProperties
<1> HIDE DEF a, b
<1>4. Joined(q, a, b)
  BY <1>1, <1>2, <1>3 DEF Joined
<1>5. Cardinality(Places(q, T)) = Cardinality(Places(a, T)) + Cardinality(Places(b, T))
  BY <1>2, <1>3, <1>4, PlacesJoin
<1> QED
  BY <1>5 DEF a, b

\* InsertAt adds the new place.
LEMMA PlacesInsert ==
  ASSUME NEW S, NEW q \in Seq(S), NEW i \in 1 .. Len(q) + 1, NEW e \in S, NEW T
  PROVE  Cardinality(Places(InsertAt(q, i, e), T))
           = Cardinality(Places(q, T)) + (IF e \in T THEN 1 ELSE 0)
<1> DEFINE a == SubSeq(q, 1, i - 1)
           b == SubSeq(q, i, Len(q))
           c == Append(a, e)
           r == InsertAt(q, i, e)
<1>0. /\ r \in Seq(S) /\ Len(r) = Len(q) + 1
      /\ \A k \in 1 .. Len(q) + 1 : r[k] = IF k < i THEN q[k] ELSE IF k = i THEN e ELSE q[k - 1]
  <2> HIDE DEF a, b, c
  <2>1. InsertAt(q, i, e) \in Seq(S)
    BY InsertAtFacts
  <2>2. Len(InsertAt(q, i, e)) = Len(q) + 1
    BY InsertAtFacts
  <2>3. ASSUME NEW k \in 1 .. Len(q) + 1
        PROVE InsertAt(q, i, e)[k] = IF k < i THEN q[k] ELSE IF k = i THEN e ELSE q[k - 1]
    BY InsertAtFacts
  <2> QED
    BY <2>1, <2>2, <2>3
<1>1. Len(q) \in Nat /\ \A k \in 1 .. Len(q) : q[k] \in S
  BY LenProperties, ElementOfSeq
<1>2. /\ a \in Seq(S) /\ Len(a) = i - 1
      /\ \A k \in 1 .. i - 1 : a[k] = q[k]
  <2>1. \A k \in 1 .. i - 1 : q[k] \in S
    BY <1>1
  <2>2. /\ a \in Seq(S) /\ Len(a) = IF 1 <= i - 1 THEN (i - 1) - 1 + 1 ELSE 0
        /\ \A k \in 1 .. (i - 1) - 1 + 1 : a[k] = q[1 + k - 1]
    BY <1>1, <2>1, SubSeqProperties
  <2> QED
    BY <1>1, <2>2
<1>3. /\ b \in Seq(S) /\ Len(b) = Len(q) - i + 1
      /\ \A k \in 1 .. Len(q) - i + 1 : b[k] = q[i + k - 1]
  <2>1. \A k \in i .. Len(q) : q[k] \in S
    BY <1>1
  <2> QED
    BY <1>1, <2>1, SubSeqProperties
<1>5. Cardinality(Places(q, T)) = Cardinality(Places(a, T)) + Cardinality(Places(b, T))
  <2>1. i - 1 \in 0 .. Len(q) /\ (i - 1) + 1 = i
    BY <1>1
  <2> DEFINE n == i - 1
  <2>2. n \in 0 .. Len(q) /\ n + 1 = i
    BY <2>1
  <2> HIDE DEF n
  <2>3. Cardinality(Places(q, T)) = Cardinality(Places(SubSeq(q, 1, n), T))
                                    + Cardinality(Places(SubSeq(q, n + 1, Len(q)), T))
    BY <2>2, PlacesCut
  <2> QED
    BY <2>2, <2>3 DEF n
<1> HIDE DEF a, b, r
<1>6. /\ c \in Seq(S) /\ Len(c) = i /\ c[i] = e
      /\ \A k \in 1 .. i - 1 : c[k] = q[k]
  <2>1. /\ c \in Seq(S) /\ Len(c) = Len(a) + 1 /\ \A k \in 1 .. Len(a) : c[k] = a[k]
        /\ c[Len(a) + 1] = e
    BY <1>2, AppendProperties
  <2> QED
    BY <1>2, <2>1
<1>7. Cardinality(Places(c, T)) = Cardinality(Places(a, T)) + (IF e \in T THEN 1 ELSE 0)
  BY <1>2, PlacesAppend
<1> HIDE DEF c
<1>8. Len(r) = Len(c) + Len(b) /\ \A k \in 1 .. Len(c) : r[k] = c[k]
  <2>1. Len(r) = Len(c) + Len(b)
    BY <1>0, <1>1, <1>3, <1>6
  <2>2. ASSUME NEW k \in 1 .. i PROVE r[k] = c[k]
    <3>1. k \in 1 .. Len(q) + 1
      BY <1>1
    <3>2. CASE k < i
      BY <1>0, <1>6, <3>1, <3>2
    <3>3. CASE k = i
      BY <1>0, <1>6, <3>1, <3>3
    <3> QED
      BY <1>1, <3>2, <3>3
  <2> QED
    BY <1>6, <2>1, <2>2
<1>9. ASSUME NEW k \in 1 .. Len(b) PROVE r[Len(c) + k] = b[k]
  <2>1. i + k \in 1 .. Len(q) + 1 /\ ~(i + k < i) /\ i + k # i /\ i + k - 1 = (i + k) - 1
    BY <1>1, <1>3
  <2>2. r[i + k] = q[(i + k) - 1]
    BY <1>0, <2>1
  <2>3. b[k] = q[i + k - 1]
    BY <1>3
  <2> QED
    BY <1>6, <2>2, <2>3
<1>10. Cardinality(Places(r, T)) = Cardinality(Places(c, T)) + Cardinality(Places(b, T))
  <2>1. Joined(r, c, b)
    BY <1>8, <1>9 DEF Joined
  <2> QED
    BY <1>0, <1>3, <1>6, <2>1, PlacesJoin
<1>11. Cardinality(Places(a, T)) \in Nat /\ Cardinality(Places(b, T)) \in Nat
  BY <1>2, <1>3, PlacesFinite
<1> QED
  BY <1>5, <1>7, <1>10, <1>11 DEF r

\* RemoveAt drops the removed place.
LEMMA PlacesRemove ==
  ASSUME NEW S, NEW q \in Seq(S), NEW i \in 1 .. Len(q), NEW T
  PROVE  Cardinality(Places(RemoveAt(q, i), T))
           = Cardinality(Places(q, T)) - (IF q[i] \in T THEN 1 ELSE 0)
<1> DEFINE r == RemoveAt(q, i)
           e == q[i]
<1>1. /\ r \in Seq(S) /\ Len(r) = Len(q) - 1
      /\ \A k \in 1 .. Len(q) - 1 : r[k] = IF k < i THEN q[k] ELSE q[k + 1]
  BY RemoveAtFacts
<1>2. Len(q) \in Nat /\ e \in S /\ \A k \in 1 .. Len(q) : q[k] \in S
  BY LenProperties, ElementOfSeq
<1> HIDE DEF r
<1>3. i \in 1 .. Len(r) + 1
  BY <1>1, <1>2
<1>4. InsertAt(r, i, e) = q
  <2> DEFINE s == InsertAt(r, i, e)
  <2>1. /\ s \in Seq(S) /\ Len(s) = Len(r) + 1
        /\ \A k \in 1 .. Len(r) + 1 : s[k] = IF k < i THEN r[k] ELSE IF k = i THEN e ELSE r[k - 1]
    <3> HIDE DEF e
    <3> QED
      BY <1>1, <1>2, <1>3, InsertAtFacts
  <2> HIDE DEF s
  <2>2. ASSUME NEW k \in 1 .. Len(s) PROVE s[k] = q[k]
    <3>1. k \in 1 .. Len(q) /\ k \in 1 .. Len(r) + 1
      BY <1>1, <1>2, <2>1
    <3>2. CASE k < i
      <4>1. k \in 1 .. Len(q) - 1
        BY <1>2, <3>2
      <4> QED
        BY <1>1, <2>1, <3>1, <3>2, <4>1
    <3>3. CASE k = i
      BY <2>1, <3>1, <3>3
    <3>4. CASE k > i
      <4>1. k - 1 \in 1 .. Len(q) - 1 /\ ~(k - 1 < i) /\ (k - 1) + 1 = k
        BY <1>2, <3>1, <3>4
      <4>2. r[k - 1] = q[k]
        BY <1>1, <4>1
      <4> QED
        BY <2>1, <3>1, <3>4, <4>2
    <3> QED
      BY <1>2, <3>1, <3>2, <3>3, <3>4
  <2>3. Len(s) = Len(q)
    BY <1>1, <1>2, <2>1
  <2>4. s = q
    BY <2>1, <2>2, <2>3, SeqEqual
  <2> QED
    BY <2>4 DEF s
<1>5. Cardinality(Places(InsertAt(r, i, e), T))
        = Cardinality(Places(r, T)) + (IF e \in T THEN 1 ELSE 0)
  <2> HIDE DEF e
  <2> QED
    BY <1>1, <1>2, <1>3, PlacesInsert
<1>6. Cardinality(Places(r, T)) \in Nat
  BY <1>1, PlacesFinite
<1> QED
  BY <1>4, <1>5, <1>6 DEF r

-----------------------------------------------------------------------------
(* Counting in a set.                                                      *)

\* The part of a finite set in another is finite.
LEMMA MeetFinite ==
  ASSUME NEW R, IsFiniteSet(R), NEW T
  PROVE  IsFiniteSet(R \cap T) /\ Cardinality(R \cap T) \in Nat
BY FS_Subset, FS_CardinalityType

\* A new element counts when it is in the other set.
LEMMA MeetAdd ==
  ASSUME NEW R, IsFiniteSet(R), NEW e, e \notin R, NEW T
  PROVE  Cardinality((R \cup {e}) \cap T)
           = Cardinality(R \cap T) + (IF e \in T THEN 1 ELSE 0)
<1> DEFINE P == (R \cup {e}) \cap T
           Q == R \cap T
<1>1. IsFiniteSet(Q) /\ Cardinality(Q) \in Nat /\ e \notin Q
  BY MeetFinite
<1>2. IF e \in T THEN P = Q \cup {e} ELSE P = Q
  OBVIOUS
<1> HIDE DEF P, Q
<1>3. Cardinality(P) = Cardinality(Q) + (IF e \in T THEN 1 ELSE 0)
  BY <1>1, <1>2, FS_AddElement
<1> QED
  BY <1>3 DEF P, Q

\* So does one that is removed.
LEMMA MeetRemove ==
  ASSUME NEW R, IsFiniteSet(R), NEW e \in R, NEW T
  PROVE  Cardinality((R \ {e}) \cap T)
           = Cardinality(R \cap T) - (IF e \in T THEN 1 ELSE 0)
<1> DEFINE P == (R \ {e}) \cap T
           Q == R \cap T
<1>1. IsFiniteSet(Q) /\ Cardinality(Q) \in Nat
  BY MeetFinite
<1>2. IF e \in T THEN P = Q \ {e} /\ e \in Q ELSE P = Q
  OBVIOUS
<1> HIDE DEF P, Q
<1>3. Cardinality(P) = Cardinality(Q) - (IF e \in T THEN 1 ELSE 0)
  BY <1>1, <1>2, FS_RemoveElement
<1> QED
  BY <1>3 DEF P, Q

-----------------------------------------------------------------------------
(* Lists that hold each member of a set once.                              *)

Lists(q, S) ==
  /\ q \in Seq(S)
  /\ \A i, j \in 1 .. Len(q) : q[i] = q[j] => i = j
  /\ \A x \in S : \E i \in 1 .. Len(q) : q[i] = x

\* The empty sequence lists the empty set.
LEMMA ListsEmpty == Lists(<<>>, {})
<1>1. <<>> \in Seq({}) /\ Len(<<>>) = 0
  BY EmptySeq
<1> QED
  BY <1>1 DEF Lists

\* Append lists one element more.
LEMMA ListsAppend ==
  ASSUME NEW S, NEW q, Lists(q, S), NEW x, x \notin S
  PROVE  Lists(Append(q, x), S \cup {x}) /\ Len(Append(q, x)) = Len(q) + 1
<1> DEFINE T == S \cup {x}
           r == Append(q, x)
<1>1. Len(q) \in Nat /\ \A i \in 1 .. Len(q) : q[i] \in S
  BY LenProperties, ElementOfSeq DEF Lists
<1>2. q \in Seq(T)
  <2>1. q \in Seq(S) /\ \A i \in 1 .. Len(q) : q[i] \in T
    BY <1>1 DEF Lists
  <2> HIDE DEF T
  <2> QED
    BY <2>1, SeqWithin
<1>3. x \in T /\ S \subseteq T /\ \A y \in T : y \in S \/ y = x
  OBVIOUS
<1> HIDE DEF T
<1>4. /\ r \in Seq(T) /\ Len(r) = Len(q) + 1 /\ r[Len(q) + 1] = x
      /\ \A i \in 1 .. Len(q) : r[i] = q[i]
  BY <1>2, <1>3, AppendProperties
<1> HIDE DEF r
<1>5. ASSUME NEW i \in 1 .. Len(r), NEW j \in 1 .. Len(r), r[i] = r[j] PROVE i = j
  <2>1. (i \in 1 .. Len(q) \/ i = Len(q) + 1) /\ (j \in 1 .. Len(q) \/ j = Len(q) + 1)
    BY <1>1, <1>4
  <2> QED
    BY <1>1, <1>4, <1>5, <2>1 DEF Lists
<1>6. ASSUME NEW y \in T PROVE \E i \in 1 .. Len(r) : r[i] = y
  <2>1. CASE y \in S
    <3>1. PICK i \in 1 .. Len(q) : q[i] = y
      BY <2>1 DEF Lists
    <3>2. i \in 1 .. Len(r)
      BY <1>1, <1>4
    <3> QED
      BY <1>4, <3>1, <3>2
  <2>2. CASE y = x
    <3>1. Len(q) + 1 \in 1 .. Len(r)
      BY <1>1, <1>4
    <3> QED
      BY <1>4, <2>2, <3>1
  <2> QED
    BY <1>3, <2>1, <2>2
<1>7. Lists(r, T) /\ Len(r) = Len(q) + 1
  BY <1>4, <1>5, <1>6 DEF Lists
<1> QED
  BY <1>7 DEF r, T

\* RemoveAt lists one element less.
LEMMA ListsRemove ==
  ASSUME NEW S, NEW q, Lists(q, S), NEW n \in 1 .. Len(q)
  PROVE  Lists(RemoveAt(q, n), S \ {q[n]}) /\ Len(RemoveAt(q, n)) = Len(q) - 1
<1> DEFINE T == S \ {q[n]}
           r == RemoveAt(q, n)
           At(k) == IF k < n THEN k ELSE k + 1
<1>1. /\ q \in Seq(S) /\ Len(q) \in Nat /\ n \in Nat /\ n >= 1 /\ n <= Len(q)
      /\ \A i \in 1 .. Len(q) : q[i] \in S
  <2>1. q \in Seq(S)
    BY DEF Lists
  <2>2. Len(q) \in Nat /\ \A i \in 1 .. Len(q) : q[i] \in S
    BY <2>1, LenProperties, ElementOfSeq
  <2> QED
    BY <2>1, <2>2
<1>2. /\ r \in Seq(S) /\ Len(r) = Len(q) - 1
      /\ \A k \in 1 .. Len(q) - 1 : r[k] = IF k < n THEN q[k] ELSE q[k + 1]
  BY <1>1, RemoveAtFacts
<1> HIDE DEF r
<1>3. ASSUME NEW k \in 1 .. Len(r)
      PROVE  /\ k \in Nat /\ At(k) \in 1 .. Len(q) /\ At(k) # n
             /\ r[k] = q[At(k)] /\ r[k] # q[n] /\ r[k] \in S
  <2>1. k \in Nat /\ At(k) \in 1 .. Len(q) /\ At(k) # n
    BY <1>1, <1>2
  <2>2. r[k] = q[At(k)]
    BY <1>2
  <2> HIDE DEF At
  <2> QED
    BY <1>1, <2>1, <2>2 DEF Lists
<1>4. \A k \in 1 .. Len(r) : r[k] \in T
  BY <1>3
<1>5. r \in Seq(T)
  <2> HIDE DEF T
  <2> QED
    BY <1>2, <1>4, SeqWithin
<1>6. ASSUME NEW i \in 1 .. Len(r), NEW j \in 1 .. Len(r), r[i] = r[j] PROVE i = j
  <2>1. At(i) = At(j)
    <3>1. At(i) \in 1 .. Len(q) /\ At(j) \in 1 .. Len(q) /\ q[At(i)] = q[At(j)]
      BY <1>3, <1>6
    <3> HIDE DEF At
    <3> QED
      BY <3>1 DEF Lists
  <2>2. i \in Nat /\ j \in Nat
    BY <1>3
  <2> QED
    BY <1>1, <2>1, <2>2
<1>7. ASSUME NEW y \in T PROVE \E i \in 1 .. Len(r) : r[i] = y
  <2>1. PICK m \in 1 .. Len(q) : q[m] = y
    BY DEF Lists
  <2>2. m # n
    BY <2>1
  <2>3. CASE m < n
    <3>1. m \in 1 .. Len(r) /\ m \in 1 .. Len(q) - 1
      BY <1>1, <1>2, <2>3
    <3>2. r[m] = q[m]
      BY <1>2, <2>3, <3>1
    <3> QED
      BY <2>1, <3>1, <3>2
  <2>4. CASE m > n
    <3>1. m - 1 \in 1 .. Len(r) /\ m - 1 \in 1 .. Len(q) - 1 /\ ~(m - 1 < n) /\ m - 1 + 1 = m
      BY <1>1, <1>2, <2>4
    <3>2. r[m - 1] = q[m]
      BY <1>2, <3>1
    <3> QED
      BY <2>1, <3>1, <3>2
  <2> QED
    BY <1>1, <2>2, <2>3, <2>4
<1>8. Lists(r, T) /\ Len(r) = Len(q) - 1
  BY <1>2, <1>5, <1>6, <1>7 DEF Lists
<1> QED
  BY <1>8 DEF r, T

\* Tail lists all but the head.
LEMMA ListsTail ==
  ASSUME NEW S, NEW q, Lists(q, S), q # <<>>
  PROVE  /\ Head(q) \in S /\ Lists(Tail(q), S \ {Head(q)})
         /\ Len(Tail(q)) = Len(q) - 1
<1> DEFINE T == S \ {Head(q)}
           r == Tail(q)
<1>1. q \in Seq(S)
  BY DEF Lists
<1>2. /\ Len(q) \in Nat \ {0} /\ DOMAIN q = 1 .. Len(q)
      /\ DOMAIN r = 1 .. Len(q) - 1
      /\ \A i \in DOMAIN r : r[i] = q[i + 1]
      /\ Head(q) = q[1] /\ Head(q) \in S /\ r \in Seq(S)
  BY <1>1, TailPlaces
<1> HIDE DEF r
<1>3. Len(r) = Len(q) - 1
  BY <1>1, HeadTailProperties DEF r
<1>4. ASSUME NEW k \in 1 .. Len(r)
      PROVE  /\ k \in Nat /\ k + 1 \in 1 .. Len(q) /\ r[k] = q[k + 1]
             /\ r[k] # q[1] /\ r[k] \in S
  <2>1. k \in Nat /\ k + 1 \in 1 .. Len(q) /\ 1 \in 1 .. Len(q) /\ k + 1 # 1
    BY <1>2, <1>3
  <2>2. r[k] = q[k + 1]
    BY <1>2, <1>3
  <2>3. q[k + 1] # q[1]
    BY <2>1 DEF Lists
  <2>4. q[k + 1] \in S
    BY <1>1, <2>1, ElementOfSeq
  <2> QED
    BY <2>1, <2>2, <2>3, <2>4
<1>5. \A k \in 1 .. Len(r) : r[k] \in T
  BY <1>2, <1>4
<1>6. r \in Seq(T)
  <2> HIDE DEF T
  <2> QED
    BY <1>2, <1>5, SeqWithin
<1>7. ASSUME NEW i \in 1 .. Len(r), NEW j \in 1 .. Len(r), r[i] = r[j] PROVE i = j
  <2>1. i + 1 = j + 1 /\ i \in Nat /\ j \in Nat
    BY <1>4, <1>7 DEF Lists
  <2> QED
    BY <2>1
<1>8. ASSUME NEW y \in T PROVE \E i \in 1 .. Len(r) : r[i] = y
  <2>1. PICK m \in 1 .. Len(q) : q[m] = y
    BY DEF Lists
  <2>2. m # 1
    BY <1>2, <2>1
  <2>3. m - 1 \in 1 .. Len(r) /\ m - 1 + 1 = m
    BY <1>2, <1>3, <2>2
  <2>4. r[m - 1] = q[m]
    BY <1>4, <2>3
  <2> QED
    BY <2>1, <2>3, <2>4
<1>9. Lists(r, T)
  BY <1>6, <1>7, <1>8 DEF Lists
<1> QED
  BY <1>2, <1>3, <1>9 DEF r, T

\* A list is as long as its set is large.
LEMMA ListsCount ==
  ASSUME NEW S, NEW q, Lists(q, S)
  PROVE  ToSet(q) = S /\ IsFiniteSet(S) /\ Cardinality(S) = Len(q) /\ Len(q) \in Nat
<1> DEFINE I == 1 .. Len(q)
<1>1. /\ q \in Seq(S) /\ Len(q) \in Nat /\ DOMAIN q = I
      /\ \A i \in I : q[i] \in S
  <2>1. q \in Seq(S)
    BY DEF Lists
  <2> QED
    BY <2>1, LenProperties, ElementOfSeq
<1>2. ToSet(q) = S
  BY <1>1 DEF ToSet, Lists
<1>3. q \in [I -> S]
  BY <1>1, LenProperties
<1>4. q \in Bijection(I, S)
  BY <1>1, <1>3 DEF Lists, Bijection, Injection, Surjection, IsInjective
<1>5. IsFiniteSet(I) /\ Cardinality(I) = Len(q)
  <2>1. 1 \in Int /\ Len(q) \in Int
    BY <1>1
  <2>2. IsFiniteSet(1 .. Len(q)) /\ Cardinality(1 .. Len(q)) = IF 1 > Len(q) THEN 0 ELSE Len(q) - 1 + 1
    BY <2>1, FS_Interval
  <2> QED
    BY <1>1, <2>2
<1>6. IsFiniteSet(S) /\ Cardinality(S) = Cardinality(I)
  <2>1. ExistsBijection(I, S)
    BY <1>4 DEF ExistsBijection
  <2> HIDE DEF I
  <2> QED
    BY <1>5, <2>1, FS_Bijection
<1> QED
  BY <1>1, <1>2, <1>5, <1>6

-----------------------------------------------------------------------------
(* Concatenation of many sequences.  FlattenSeq is a recursive function;   *)
(* the induction over its argument takes the least place at which the      *)
(* claim fails.                                                            *)

\* FlattenSeq is the only function that satisfies its recursion.
LEMMA FlattenUnique ==
  ASSUME NEW D, NEW q \in Seq(Seq(D)), q # <<>>, NEW f \in [1 .. Len(q) -> Seq(D)],
         f[1] = q[1], \A i \in 2 .. Len(q) : f[i] = f[i - 1] \o q[i]
  PROVE  FlattenSeq(q) = f[Len(q)]
<1> DEFINE n == Len(q)
           Step(h) == [i \in 1 .. n |-> IF i = 1 THEN q[i] ELSE h[i - 1] \o q[i]]
           g == CHOOSE h : h = Step(h)
<1>1. n \in Nat \ {0}
  BY EmptySeq
<1>2. FlattenSeq(q) = g[n]
  BY <1>1 DEF FlattenSeq
<1>3. f = Step(f)
  <2>1. ASSUME NEW i \in 1 .. n PROVE f[i] = IF i = 1 THEN q[i] ELSE f[i - 1] \o q[i]
    <3>1. CASE i = 1
      BY <3>1
    <3>2. CASE i # 1
      <4>1. i \in 2 .. n
        BY <1>1, <3>2
      <4> QED
        BY <3>2, <4>1
    <3> QED
      BY <3>1, <3>2
  <2> QED
    BY <2>1
<1>4. g = Step(g)
  BY Zenon, <1>3
<1> HIDE DEF g
<1>5. g[1] = q[1] /\ \A i \in 2 .. n : g[i] = g[i - 1] \o q[i]
  <2>1. 1 \in 1 .. n /\ \A i \in 2 .. n : i \in 1 .. n /\ i # 1
    BY <1>1
  <2>2. ASSUME NEW i \in 1 .. n PROVE g[i] = IF i = 1 THEN q[i] ELSE g[i - 1] \o q[i]
    BY <1>4
  <2> QED
    BY <2>1, <2>2
<1> DEFINE Bad == {i \in 1 .. n : g[i] # f[i]}
<1>6. Bad = {}
  <2> SUFFICES ASSUME Bad # {} PROVE FALSE
    OBVIOUS
  <2> DEFINE m == Min(Bad)
  <2>1. Bad \subseteq Nat
    BY <1>1
  <2>2. m \in Bad /\ \A j \in Bad : m <= j
    <3> HIDE DEF Bad
    <3> QED
      BY <2>1, MinNat
  <2>3. m \in 1 .. n /\ g[m] # f[m]
    BY <2>2
  <2> HIDE DEF m
  <2>4. m \in 2 .. n /\ m - 1 \in 1 .. n
    BY <1>1, <1>5, <2>3
  <2>5. m - 1 \notin Bad
    BY <2>2, <2>4
  <2>6. g[m - 1] = f[m - 1]
    BY <2>4, <2>5
  <2> QED
    BY <1>5, <2>3, <2>4, <2>6
<1>7. \A i \in 1 .. n : g[i] = f[i]
  BY <1>6
<1> HIDE DEF n, Bad
<1>8. n \in 1 .. n
  BY <1>1
<1>9. g[n] = f[n]
  BY <1>7, <1>8
<1> QED
  BY <1>2, <1>9 DEF n

\* Consecutive pieces of a put together.
LEMMA FlattenCut ==
  ASSUME NEW D, NEW a \in Seq(D), NEW q \in Seq(Seq(D)),
         NEW c \in [0 .. Len(q) -> 0 .. Len(a)],
         \A i \in 1 .. Len(q) :
           c[i - 1] <= c[i] /\ q[i] = SubSeq(a, c[i - 1] + 1, c[i])
  PROVE  FlattenSeq(q) = SubSeq(a, c[0] + 1, c[Len(q)])
<1>1. Len(q) \in Nat /\ Len(a) \in Nat /\ \A k \in 1 .. Len(a) : a[k] \in D
  BY LenProperties, ElementOfSeq
<1>2. CASE q = <<>>
  <2>1. Len(q) = 0 /\ 0 \in 0 .. Len(q)
    BY <1>2, EmptySeq
  <2>2. FlattenSeq(q) = <<>>
    BY <1>2, <2>1 DEF FlattenSeq
  <2>3. c[0] \in Nat
    BY <1>1, <2>1
  <2>4. SubSeq(a, c[0] + 1, c[0]) = <<>>
    BY <2>3, SubSeqEmpty
  <2> QED
    BY <2>1, <2>2, <2>4
<1>3. CASE q # <<>>
  <2> DEFINE f == [i \in 1 .. Len(q) |-> SubSeq(a, c[0] + 1, c[i])]
  <2>1. Len(q) \in Nat \ {0}
    BY <1>3, EmptySeq
  <2>2. \A i \in 0 .. Len(q) : c[i] \in Nat /\ c[i] <= Len(a)
    BY SMTT(40), <1>1
  <2>3. ASSUME NEW i \in 1 .. Len(q) PROVE SubSeq(a, c[0] + 1, c[i]) \in Seq(D)
    <3>1. c[0] \in Nat /\ c[i] \in Nat /\ c[i] <= Len(a)
      BY <2>1, <2>2
    <3>2. \A k \in c[0] + 1 .. c[i] : a[k] \in D
      BY <1>1, <3>1
    <3> QED
      BY <3>1, <3>2, SubSeqProperties
  <2>4. f \in [1 .. Len(q) -> Seq(D)]
    BY <2>3
  <2>5. f[1] = q[1]
    <3>1. 1 \in 1 .. Len(q) /\ 1 - 1 = 0
      BY <2>1
    <3>2. q[1] = SubSeq(a, c[1 - 1] + 1, c[1])
      BY <3>1
    <3>3. f[1] = SubSeq(a, c[0] + 1, c[1])
      BY <3>1
    <3> QED
      BY <3>1, <3>2, <3>3
  <2>6. ASSUME NEW i \in 1 .. Len(q) PROVE c[0] <= c[i]
    <3> DEFINE Bad == {j \in 1 .. Len(q) : ~(c[0] <= c[j])}
    <3> SUFFICES ASSUME Bad # {} PROVE FALSE
      OBVIOUS
    <3>1. Bad \subseteq Nat
      BY <2>1
    <3> DEFINE m == Min(Bad)
    <3>2. m \in Bad /\ \A j \in Bad : m <= j
      <4> HIDE DEF Bad
      <4> QED
        BY <3>1, MinNat
    <3> HIDE DEF m
    <3>3. m \in 1 .. Len(q) /\ ~(c[0] <= c[m]) /\ c[m - 1] <= c[m]
      BY <3>2
    <3>4. m - 1 \in 0 .. Len(q) /\ m \in 0 .. Len(q) /\ 0 \in 0 .. Len(q) /\ m \in Nat
      BY <2>1, <3>3
    <3>5. c[m - 1] \in Nat /\ c[m] \in Nat /\ c[0] \in Nat
      BY <2>2, <3>4
    <3>6. ~(c[0] <= c[m - 1])
      BY SMTT(40), <3>3, <3>5
    <3>7. m # 1
      BY SMTT(40), <3>5, <3>6
    <3>8. m - 1 \in Bad
      BY <3>3, <3>4, <3>6, <3>7
    <3> QED
      BY <3>2, <3>4, <3>8
  <2>7. ASSUME NEW i \in 2 .. Len(q) PROVE f[i] = f[i - 1] \o q[i]
    <3> DEFINE x == c[0]
               y == c[i - 1]
               z == c[i]
    <3>1. i \in 1 .. Len(q) /\ i - 1 \in 1 .. Len(q)
      BY <2>1
    <3>2. /\ x \in Nat /\ y \in Nat /\ z \in Nat /\ x <= y /\ y <= z /\ z <= Len(a)
          /\ q[i] = SubSeq(a, y + 1, z)
      <4>1. i - 1 \in 0 .. Len(q) /\ i \in 0 .. Len(q) /\ 0 \in 0 .. Len(q)
        BY <2>1, <3>1
      <4> QED
        BY <2>2, <2>6, <3>1, <4>1
    <3>3. f[i] = SubSeq(a, x + 1, z) /\ f[i - 1] = SubSeq(a, x + 1, y)
      BY <3>1
    <3> HIDE DEF x, y, z, f
    <3>4. x + 1 \in 1 .. Len(a) + 1 /\ y \in (x + 1) - 1 .. Len(a) /\ z \in y .. Len(a)
      BY <1>1, <3>2
    <3>5. SubSeq(a, x + 1, y) \o SubSeq(a, y + 1, z) = SubSeq(a, x + 1, z)
      BY <3>4, ConcatAdjacentSubSeq
    <3> QED
      BY <3>2, <3>3, <3>5
  <2>8. f[Len(q)] = SubSeq(a, c[0] + 1, c[Len(q)])
    <3>1. Len(q) \in 1 .. Len(q)
      BY <2>1
    <3> QED
      BY <3>1
  <2> HIDE DEF f
  <2> QED
    BY <1>3, <2>4, <2>5, <2>7, <2>8, FlattenUnique
<1> QED
  BY <1>2, <1>3

-----------------------------------------------------------------------------
(* What a fold over a sequence preserves.  The handlers of the model go    *)
(* over lists with FoldLeft; the provers cannot instantiate a theorem whose *)
(* parameter is an operator, so that the operator that is folded and the   *)
(* relation it preserves are constants here, and a proof takes an instance *)
(* of this module for each of them.  p is a parameter that all steps share.*)

CONSTANTS
  Op(_, _, _),      \* Op(p, x, e): one step of the fold, from x, at the element e
  Rel(_, _, _, _)   \* Rel(p, i, b, x): x is what the first i steps may make of b

\* The fold that is meant.
Fold(p, b, q) == FoldLeft(LAMBDA x, e : Op(p, x, e), b, q)

\* The recursive function of FoldLeft on the first n elements of q.
Iterates(p, g, q, b, n) ==
  g = [s \in SUBSET (1 .. n) |-> IF s = {} THEN b ELSE Op(p, g[s \ {Max(s)}], q[Max(s)])]

\* The greatest element of a set of positions.
LEMMA MaxOfPart ==
  ASSUME NEW n \in Nat, NEW s \in SUBSET (1 .. n), s # {}
  PROVE  Max(s) \in s /\ \A y \in s : y <= Max(s)
<1>1. IsFiniteSet(1 .. n)
  BY FS_Interval
<1>2. IsFiniteSet(s)
  BY <1>1, FS_Subset
<1>3. s \subseteq Nat
  OBVIOUS
<1> QED
  BY <1>2, <1>3, MaxNat

\* The function exists for every n: the sets that contain n take one step more.
LEMMA IterateExists ==
  ASSUME NEW p, NEW q, NEW b, NEW n \in Nat
  PROVE  \E g : Iterates(p, g, q, b, n)
<1> DEFINE Bad == {i \in Nat : ~\E g : Iterates(p, g, q, b, i)}
<1>1. SUFFICES ASSUME Bad # {} PROVE FALSE
  OBVIOUS
<1> DEFINE m == Min(Bad)
<1>2. m \in Bad /\ \A y \in Bad : m <= y
  BY <1>1, MinNat
<1>3. m \in Nat /\ ~\E g : Iterates(p, g, q, b, m)
  BY <1>2
<1> HIDE DEF m
<1>4. CASE m = 0
  <2> DEFINE g == [s \in SUBSET (1 .. 0) |-> b]
  <2>1. \A s \in SUBSET (1 .. 0) : s = {}
    OBVIOUS
  <2>2. Iterates(p, g, q, b, 0)
    BY <2>1 DEF Iterates
  <2> QED
    BY <1>3, <1>4, <2>2
<1>5. CASE m # 0
  <2>1. m - 1 \in Nat /\ m - 1 < m
    BY <1>3, <1>5
  <2>2. m - 1 \notin Bad
    BY <1>2, <1>3, <2>1
  <2>3. PICK f : Iterates(p, f, q, b, m - 1)
    BY <2>1, <2>2
  <2> DEFINE g == [s \in SUBSET (1 .. m) |->
                     IF m \in s THEN Op(p, f[s \ {m}], q[m]) ELSE f[s]]
             h == [s \in SUBSET (1 .. m) |->
                     IF s = {} THEN b ELSE Op(p, g[s \ {Max(s)}], q[Max(s)])]
  <2>4. ASSUME NEW s \in SUBSET (1 .. m) PROVE g[s] = h[s]
    <3>1. CASE m \in s
      <4>1. Max(s) = m /\ s # {}
        <5>1. Max(s) \in s /\ \A y \in s : y <= Max(s)
          BY <1>3, <3>1, MaxOfPart
        <5>2. Max(s) \in 1 .. m /\ m <= Max(s)
          BY <3>1, <5>1
        <5> QED
          BY <1>3, <3>1, <5>2
      <4>2. s \ {m} \in SUBSET (1 .. m) /\ m \notin s \ {m}
        OBVIOUS
      <4>3. g[s \ {m}] = f[s \ {m}]
        BY <4>2
      <4>4. g[s] = Op(p, f[s \ {m}], q[m])
        BY <3>1
      <4>5. h[s] = Op(p, g[s \ {m}], q[m])
        BY <4>1
      <4> QED
        BY <4>3, <4>4, <4>5
    <3>2. CASE m \notin s
      <4>1. s \in SUBSET (1 .. m - 1)
        BY <1>3, <3>2
      <4>2. f[s] = IF s = {} THEN b ELSE Op(p, f[s \ {Max(s)}], q[Max(s)])
        BY <2>3, <4>1 DEF Iterates
      <4>3. s \ {Max(s)} \in SUBSET (1 .. m) /\ m \notin s \ {Max(s)}
        BY <3>2
      <4>4. g[s \ {Max(s)}] = f[s \ {Max(s)}] /\ g[s] = f[s]
        BY <3>2, <4>3
      <4>5. h[s] = IF s = {} THEN b ELSE Op(p, g[s \ {Max(s)}], q[Max(s)])
        OBVIOUS
      <4> HIDE DEF g, h
      <4> QED
        BY <4>2, <4>4, <4>5
    <3> QED
      BY <3>1, <3>2
  <2>5. g = h
    <3>1. DOMAIN g = SUBSET (1 .. m) /\ DOMAIN h = SUBSET (1 .. m)
      OBVIOUS
    <3>2. g = [s \in SUBSET (1 .. m) |-> g[s]] /\ h = [s \in SUBSET (1 .. m) |-> h[s]]
      OBVIOUS
    <3> HIDE DEF g, h
    <3> QED
      BY <2>4, <3>2
  <2>6. Iterates(p, g, q, b, m)
    BY <2>5 DEF Iterates
  <2> QED
    BY <1>3, <2>6
<1> QED
  BY <1>4, <1>5

\* FoldLeft is the value of such a function.
LEMMA FoldIterates ==
  ASSUME NEW p, NEW S, NEW q \in Seq(S), NEW b
  PROVE  \E g : Iterates(p, g, q, b, Len(q)) /\ Fold(p, b, q) = g[1 .. Len(q)]
<1> DEFINE g == CHOOSE g : Iterates(p, g, q, b, Len(q))
<1>1. Len(q) \in Nat /\ DOMAIN q = 1 .. Len(q)
  BY LenProperties
<1>2. Iterates(p, g, q, b, Len(q))
  BY <1>1, IterateExists
<1>3. Fold(p, b, q) = g[1 .. Len(q)]
  BY <1>1, Zenon DEF Fold, FoldLeft, MapThenFoldSet, Iterates
<1> QED
  BY <1>2, <1>3

\* A relation that holds before the first step and is kept by every step holds
\* of the result.
THEOREM FoldKeeps ==
  ASSUME NEW p, NEW S, NEW q \in Seq(S), NEW b, Rel(p, 0, b, b),
         \A i \in 1 .. Len(q) : \A x : Rel(p, i - 1, b, x) => Rel(p, i, b, Op(p, x, q[i]))
  PROVE  Rel(p, Len(q), b, Fold(p, b, q))
<1>1. Len(q) \in Nat
  BY LenProperties
<1>2. PICK g : Iterates(p, g, q, b, Len(q)) /\ Fold(p, b, q) = g[1 .. Len(q)]
  BY FoldIterates
<1> DEFINE Bad == {i \in 0 .. Len(q) : ~Rel(p, i, b, g[1 .. i])}
           m == Min(Bad)
<1>3. Bad = {}
  <2>1. SUFFICES ASSUME Bad # {} PROVE FALSE
    OBVIOUS
  <2>2. Bad \subseteq Nat
    OBVIOUS
  <2>3. m \in Bad /\ \A y \in Bad : m <= y
    BY <2>1, <2>2, MinNat
  <2>4. m \in 0 .. Len(q) /\ ~Rel(p, m, b, g[1 .. m])
    BY <2>3
  <2> HIDE DEF m
  <2>5. CASE m = 0
    <3>1. 1 .. 0 = {} /\ {} \in SUBSET (1 .. Len(q))
      OBVIOUS
    <3>2. g[{}] = b
      BY <1>2, <3>1 DEF Iterates
    <3> QED
      BY <2>4, <2>5, <3>1, <3>2
  <2>6. CASE m # 0
    <3>1. m \in Nat /\ m \in 1 .. Len(q) /\ m - 1 \in 0 .. Len(q) /\ m - 1 < m
      BY <1>1, <2>4, <2>6
    <3>2. Rel(p, m - 1, b, g[1 .. m - 1])
      <4>1. m - 1 \notin Bad
        BY <2>3, <3>1
      <4> QED
        BY <3>1, <4>1
    <3>3. 1 .. m \in SUBSET (1 .. Len(q)) /\ 1 .. m # {}
      <4>1. 1 \in 1 .. m /\ \A y \in 1 .. m : y \in 1 .. Len(q)
        BY <1>1, <3>1
      <4> QED
        BY <4>1
    <3>4. Max(1 .. m) = m
      <4>1. Max(1 .. m) \in 1 .. m /\ \A y \in 1 .. m : y <= Max(1 .. m)
        BY <1>1, <3>3, MaxOfPart
      <4>2. m \in 1 .. m
        BY <3>1
      <4>3. Max(1 .. m) \in Nat /\ Max(1 .. m) <= m /\ m <= Max(1 .. m)
        BY <3>1, <4>1, <4>2
      <4> QED
        BY <3>1, <4>3
    <3>5. (1 .. m) \ {m} = 1 .. m - 1
      BY <3>1
    <3>6. g[1 .. m] = Op(p, g[1 .. m - 1], q[m])
      <4>1. g[1 .. m] = Op(p, g[(1 .. m) \ {Max(1 .. m)}], q[Max(1 .. m)])
        BY <1>2, <3>3 DEF Iterates
      <4> QED
        BY <3>4, <3>5, <4>1
    <3> QED
      BY <2>4, <3>1, <3>2, <3>6
  <2> QED
    BY <2>5, <2>6
<1>4. Rel(p, Len(q), b, g[1 .. Len(q)])
  BY <1>1, <1>3
<1> QED
  BY <1>2, <1>4
=============================================================================
