------------------------------- MODULE LruProofs -------------------------------
(***************************************************************************)
(* What every operation of the LRU queue of Lru does to a queue that holds *)
(* each key once and counts its bytes right: it leaves such a queue, and a *)
(* request ends with its object in front of as many of the others as fit.  *)
(***************************************************************************)
EXTENDS Lru, QueueTheorems

(* No key is in the queue twice. *)
Distinct(q) == \A i, j \in DOMAIN q : q[i].kid = q[j].kid => i = j

-------------------------------------------------------------------------------
(* The operators on lists of requests.                                     *)

LEMMA RequestType ==
  ASSUME SizesAssumption
  PROVE  \A r \in Requests : r.kid \in Keys /\ r.size \in Nat /\ r.size > 0
<1>1. \A n \in Sizes : n \in Nat /\ n > 0
  BY DEF SizesAssumption
<1> QED BY <1>1 DEF Requests

LEMMA RequestAt ==
  ASSUME SizesAssumption, NEW q \in Seq(Requests)
  PROVE  /\ DOMAIN q = 1 .. Len(q) /\ Len(q) \in Nat
         /\ \A i \in DOMAIN q : q[i] \in Requests /\ q[i].kid \in Keys
                                  /\ q[i].size \in Nat /\ q[i].size > 0
<1>1. DOMAIN q = 1 .. Len(q) /\ Len(q) \in Nat /\ \A i \in DOMAIN q : q[i] \in Requests
  OBVIOUS
<1> QED BY <1>1, RequestType

(* A queue is as long as it has keys when it has none of them twice. *)
LEMMA DistinctKeys ==
  ASSUME SizesAssumption, NEW q \in Seq(Requests)
  PROVE  /\ IsFiniteSet(KeysOf(q)) /\ KeysOf(q) \subseteq Keys
         /\ Distinct(q) <=> Len(q) = Cardinality(KeysOf(q))
<1> DEFINE kids == [i \in 1 .. Len(q) |-> q[i].kid]
<1>1. /\ DOMAIN q = 1 .. Len(q) /\ Len(q) \in Nat
      /\ \A i \in 1 .. Len(q) : q[i].kid \in Keys
  BY RequestAt
<1>2. kids \in Seq(Keys) /\ Len(kids) = Len(q) /\ DOMAIN kids = 1 .. Len(q)
  BY <1>1
<1>3. KeysOf(q) = ToSet(kids)
  BY <1>1 DEF KeysOf, KeysAt, ToSet
<1>4. Distinct(q) <=> IsInjective(kids)
  BY <1>1 DEF Distinct, IsInjective
<1>5. KeysOf(q) \subseteq Keys
  BY <1>1 DEF KeysOf, KeysAt
<1> HIDE DEF kids
<1>6. IsFiniteSet(ToSet(kids)) /\ (IsInjective(kids) <=> Len(kids) = Cardinality(ToSet(kids)))
  BY <1>2, DistinctLength
<1> QED BY <1>2, <1>3, <1>4, <1>5, <1>6

(* Bytes at some places of a queue. *)
LEMMA BytesAtPlaces ==
  ASSUME SizesAssumption, NEW q \in Seq(Requests)
  PROVE  /\ \A I \in SUBSET (DOMAIN q) : IsFiniteSet(I) /\ BytesAt(q, I) \in Nat
         /\ \A I, J \in SUBSET (DOMAIN q) : I \intersect J = {} =>
              BytesAt(q, I \union J) = BytesAt(q, I) + BytesAt(q, J)
         /\ \A i \in DOMAIN q : BytesAt(q, {i}) = q[i].size
         /\ BytesAt(q, {}) = 0
<1> DEFINE f == [i \in DOMAIN q |-> q[i].size]
<1>1. \A i \in DOMAIN q : f[i] \in Nat /\ f[i] = q[i].size
  BY RequestAt
<1>2. DOMAIN q = 1 .. Len(q) /\ Len(q) \in Nat
  BY RequestAt
<1>3. IsFiniteSet(DOMAIN q)
  BY <1>2, FS_Interval
<1>4. \A I : BytesAt(q, I) = SumFunctionOnSet(f, I)
  BY DEF BytesAt
<1> HIDE DEF f
<1>5. ASSUME NEW I \in SUBSET (DOMAIN q)
      PROVE  IsFiniteSet(I) /\ SumFunctionOnSet(f, I) \in Nat
  <2>1. IsFiniteSet(I) /\ \A i \in I : f[i] \in Nat
    BY <1>1, <1>3, FS_Subset
  <2> QED BY <2>1, SumNat
<1>6. ASSUME NEW I \in SUBSET (DOMAIN q), NEW J \in SUBSET (DOMAIN q), I \intersect J = {}
      PROVE  SumFunctionOnSet(f, I \union J) = SumFunctionOnSet(f, I) + SumFunctionOnSet(f, J)
  <2>1. Ints(f, I \union J)
    BY <1>1 DEF Ints
  <2> QED BY <1>5, <1>6, <2>1, SumUnion
<1>7. ASSUME NEW i \in DOMAIN q PROVE SumFunctionOnSet(f, {i}) = q[i].size
  <2>1. Ints(f, {} \union {i}) /\ IsFiniteSet({}) /\ i \notin {} /\ {} \union {i} = {i}
    BY <1>1, FS_EmptySet DEF Ints
  <2>2. SumFunctionOnSet(f, {} \union {i}) = SumFunctionOnSet(f, {}) + f[i]
    BY ONLY <2>1, SumAdd
  <2> QED BY <1>1, <2>1, <2>2, SumEmpty
<1> QED BY <1>4, <1>5, <1>6, <1>7, SumEmpty

(* Bytes that are moved to other places are as many. *)
Moves(h, q, I, p, J) ==
  /\ I \subseteq DOMAIN q /\ J \subseteq DOMAIN p
  /\ \A i \in I : h[i] \in J /\ p[h[i]].size = q[i].size
  /\ \A i, j \in I : h[i] = h[j] => i = j
  /\ \A j \in J : \E i \in I : j = h[i]

LEMMA BytesMoved ==
  ASSUME SizesAssumption, NEW q \in Seq(Requests), NEW p \in Seq(Requests),
         NEW I, NEW J, NEW h, Moves(h, q, I, p, J)
  PROVE  BytesAt(q, I) = BytesAt(p, J)
<1> DEFINE f == [i \in DOMAIN q |-> q[i].size]
           w == [i \in DOMAIN p |-> p[i].size]
<1>0. /\ I \subseteq DOMAIN q /\ J \subseteq DOMAIN p
      /\ \A i \in I : h[i] \in J /\ p[h[i]].size = q[i].size
      /\ \A i, j \in I : h[i] = h[j] => i = j
      /\ \A j \in J : \E i \in I : j = h[i]
  BY DEF Moves
<1>1. IsFiniteSet(I)
  BY <1>0, BytesAtPlaces
<1>2. Ints(f, I)
  BY <1>0, RequestAt DEF Ints
<1>3. \A i \in I : f[i] = w[h[i]]
  BY <1>0
<1>4. /\ BytesAt(q, I) = SumFunctionOnSet(f, I)
      /\ BytesAt(p, J) = SumFunctionOnSet(w, J) /\ J = {h[i] : i \in I}
  BY <1>0 DEF BytesAt
<1> HIDE DEF f, w
<1>5. SumFunctionOnSet(f, I) = SumFunctionOnSet(w, {h[i] : i \in I})
  BY <1>0, <1>1, <1>2, <1>3, SumImage
<1> QED BY <1>4, <1>5

(* The newest n of a queue. *)
LEMMA NewestOf ==
  ASSUME SizesAssumption, NEW q \in Seq(Requests), NEW n \in 0 .. Len(q)
  PROVE  /\ SubSeq(q, 1, n) \in Seq(Requests) /\ Len(SubSeq(q, 1, n)) = n
         /\ \A i \in 1 .. n : SubSeq(q, 1, n)[i] = q[i]
         /\ SizeOf(SubSeq(q, 1, n)) = BytesAt(q, 1 .. n)
         /\ SizeOf(q) = BytesAt(q, 1 .. n) + BytesAt(q, n + 1 .. Len(q))
         /\ BytesAt(q, 1 .. n) \in Nat /\ BytesAt(q, n + 1 .. Len(q)) \in Nat
<1> DEFINE p == SubSeq(q, 1, n)
<1>1. DOMAIN q = 1 .. Len(q) /\ Len(q) \in Nat /\ n \in Nat /\ n =< Len(q)
      /\ \A i \in 1 .. n : i \in DOMAIN q /\ q[i] \in Requests
  BY RequestAt
<1>2. p \in Seq(Requests) /\ Len(p) = n /\ \A i \in 1 .. n : p[i] = q[i]
  <2>1. 1 \in Int /\ n \in Int /\ n - 1 + 1 = n /\ (1 =< n \/ n = 0)
    BY <1>1
  <2>2. /\ p \in Seq(Requests) /\ Len(p) = (IF 1 =< n THEN n - 1 + 1 ELSE 0)
        /\ \A i \in 1 .. n - 1 + 1 : p[i] = q[1 + i - 1]
    BY <1>1, <2>1, SubSeqProperties
  <2>3. \A i \in 1 .. n : 1 + i - 1 = i
    BY <1>1
  <2> HIDE DEF p
  <2> QED BY <1>1, <2>1, <2>2, <2>3
<1> HIDE DEF p
<1>3. DOMAIN p = 1 .. n
  BY <1>2, RequestAt
<1>4. SizeOf(p) = BytesAt(q, 1 .. n)
  <2> DEFINE h == [i \in 1 .. n |-> i]
  <2>1. /\ \A i \in 1 .. n : h[i] \in 1 .. n /\ q[h[i]] = p[i]
        /\ \A i, j \in 1 .. n : h[i] = h[j] => i = j
        /\ \A j \in 1 .. n : \E i \in 1 .. n : j = h[i]
    BY <1>1, <1>2
  <2>2. Moves(h, p, 1 .. n, q, 1 .. n)
    BY <1>1, <1>3, <2>1 DEF Moves
  <2> HIDE DEF h
  <2>3. BytesAt(p, 1 .. n) = BytesAt(q, 1 .. n)
    BY <1>2, <2>2, BytesMoved
  <2> QED BY <1>3, <2>3 DEF SizeOf
<1> DEFINE I == 1 .. n
           J == n + 1 .. Len(q)
<1>5. DOMAIN q = I \union J /\ I \intersect J = {}
  BY <1>1
<1> HIDE DEF I, J
<1>6. BytesAt(q, I) \in Nat /\ BytesAt(q, J) \in Nat /\ SizeOf(q) = BytesAt(q, I) + BytesAt(q, J)
  BY <1>5, BytesAtPlaces, SMTT(30) DEF SizeOf
<1> QED BY <1>2, <1>4, <1>6 DEF p, I, J

LEMMA NewestAreDistinct ==
  ASSUME SizesAssumption, NEW q \in Seq(Requests), Distinct(q), NEW n \in 0 .. Len(q)
  PROVE  /\ Distinct(SubSeq(q, 1, n))
         /\ KeysOf(SubSeq(q, 1, n)) = KeysOf(q) \ KeysAt(q, n + 1 .. Len(q))
<1> DEFINE p == SubSeq(q, 1, n)
<1>1. /\ DOMAIN p = 1 .. n /\ DOMAIN q = 1 .. Len(q) /\ n \in Nat /\ Len(q) \in Nat /\ n =< Len(q)
      /\ \A i \in 1 .. n : p[i] = q[i]
  <2>1. p \in Seq(Requests) /\ Len(p) = n /\ \A i \in 1 .. n : p[i] = q[i]
    BY NewestOf
  <2> HIDE DEF p
  <2> QED BY <2>1, RequestAt
<1> HIDE DEF p
<1>2. /\ \A i \in 1 .. n : i \in DOMAIN q /\ i \notin n + 1 .. Len(q)
      /\ \A i \in DOMAIN q : i \in 1 .. n \/ i \in n + 1 .. Len(q)
      /\ \A i \in n + 1 .. Len(q) : i \in DOMAIN q
  BY <1>1
<1>3. Distinct(p)
  BY <1>1, <1>2 DEF Distinct
<1>4. KeysOf(p) = {q[i].kid : i \in 1 .. n}
  BY <1>1 DEF KeysOf, KeysAt
<1>5. {q[i].kid : i \in 1 .. n} = KeysOf(q) \ KeysAt(q, n + 1 .. Len(q))
  BY <1>2 DEF KeysOf, KeysAt, Distinct
<1> QED BY <1>3, <1>4, <1>5 DEF p

(* A request comes to the front. *)
LEMMA InFront ==
  ASSUME SizesAssumption, NEW q \in Seq(Requests), NEW r \in Requests
  PROVE  /\ <<r>> \o q \in Seq(Requests) /\ Len(<<r>> \o q) = Len(q) + 1
         /\ (<<r>> \o q)[1] = r /\ \A i \in 1 .. Len(q) : (<<r>> \o q)[i + 1] = q[i]
         /\ KeysOf(<<r>> \o q) = KeysOf(q) \union {r.kid}
         /\ SizeOf(<<r>> \o q) = r.size + SizeOf(q) /\ r.size \in Nat \ {0}
         /\ Distinct(q) /\ r.kid \notin KeysOf(q) => Distinct(<<r>> \o q)
<1> DEFINE p == <<r>> \o q
           n == Len(q)
<1>1. n \in Nat /\ DOMAIN q = 1 .. n
  BY RequestAt
<1>2. p \in Seq(Requests) /\ Len(p) = n + 1 /\ p[1] = r /\ \A i \in 1 .. n : p[i + 1] = q[i]
  OBVIOUS
<1> HIDE DEF p, n
<1>3. /\ DOMAIN p = 1 .. n + 1 /\ 1 \in DOMAIN p
      /\ \A i \in 1 .. n : i + 1 \in DOMAIN p /\ i + 1 # 1
      /\ \A i \in DOMAIN p : i = 1 \/ \E j \in 1 .. n : i = j + 1
  <2>1. DOMAIN p = 1 .. n + 1
    BY <1>2, RequestAt
  <2>2. ASSUME NEW i \in 1 .. n + 1, i # 1 PROVE \E j \in 1 .. n : i = j + 1
    <3>1. i - 1 \in 1 .. n /\ i = (i - 1) + 1
      BY <1>1, <2>2
    <3> QED BY <3>1
  <2>3. 1 \in 1 .. n + 1 /\ \A i \in 1 .. n : i + 1 \in 1 .. n + 1 /\ i + 1 # 1
    BY <1>1
  <2> QED BY <2>1, <2>2, <2>3
<1>4. KeysOf(p) = KeysOf(q) \union {r.kid}
  <2>1. KeysOf(p) \subseteq KeysOf(q) \union {r.kid}
    <3>1. ASSUME NEW i \in DOMAIN p PROVE p[i].kid = r.kid \/ \E j \in DOMAIN q : p[i].kid = q[j].kid
      <4>1. CASE i = 1
        BY <1>2, <4>1
      <4>2. CASE i # 1
        <5>1. PICK j \in 1 .. n : i = j + 1
          BY <1>3, <4>2
        <5> QED BY <1>1, <1>2, <5>1
      <4> QED BY <4>1, <4>2
    <3> QED BY <3>1 DEF KeysOf, KeysAt
  <2>2. \A i \in 1 .. n : p[i + 1].kid = q[i].kid /\ i + 1 \in DOMAIN p
    BY <1>2, <1>3
  <2>3. KeysOf(q) \subseteq KeysOf(p)
    BY <1>1, <2>2 DEF KeysOf, KeysAt
  <2>4. r.kid \in KeysOf(p)
    BY <1>2, <1>3 DEF KeysOf, KeysAt
  <2> QED BY <2>1, <2>3, <2>4
<1>5. SizeOf(p) = r.size + SizeOf(q) /\ r.size \in Nat \ {0}
  <2> DEFINE h == [i \in 1 .. n |-> i + 1]
             moved == {i + 1 : i \in 1 .. n}
  <2>1. /\ \A i \in 1 .. n : h[i] \in moved /\ p[h[i]] = q[i]
        /\ \A i, j \in 1 .. n : h[i] = h[j] => i = j
        /\ \A j \in moved : \E i \in 1 .. n : j = h[i]
    BY <1>1, <1>2
  <2>2. DOMAIN p = {1} \union moved /\ {1} \intersect moved = {} /\ moved \in SUBSET (DOMAIN p)
    BY <1>3
  <2> HIDE DEF h, moved
  <2>3. BytesAt(q, 1 .. n) = BytesAt(p, moved)
    <3>1. Moves(h, q, 1 .. n, p, moved)
      BY <1>1, <2>1, <2>2 DEF Moves
    <3> QED BY <1>2, <3>1, BytesMoved
  <2>4. BytesAt(p, {1} \union moved) = BytesAt(p, {1}) + BytesAt(p, moved)
    <3>1. {1} \in SUBSET (DOMAIN p)
      BY <1>3
    <3> QED BY <1>2, <2>2, <3>1, BytesAtPlaces
  <2>5. BytesAt(p, {1}) = r.size
    BY <1>2, <1>3, BytesAtPlaces
  <2>6. r.size \in Nat \ {0}
    BY <1>2, <1>3, RequestAt
  <2> QED BY <1>1, <2>2, <2>3, <2>4, <2>5, <2>6 DEF SizeOf
<1>6. ASSUME Distinct(q), r.kid \notin KeysOf(q) PROVE Distinct(p)
  <2> SUFFICES ASSUME NEW i \in DOMAIN p, NEW j \in DOMAIN p, p[i].kid = p[j].kid
               PROVE  i = j
    BY DEF Distinct
  <2>1. \A l \in 1 .. n : p[l + 1].kid = q[l].kid /\ q[l].kid # r.kid
    BY <1>1, <1>2, <1>6 DEF KeysOf, KeysAt
  <2>2. p[1].kid = r.kid
    BY <1>2
  <2>3. CASE i = 1 \/ j = 1
    BY <1>3, <2>1, <2>2, <2>3
  <2>4. CASE i # 1 /\ j # 1
    <3>1. PICK l \in 1 .. n, m \in 1 .. n : i = l + 1 /\ j = m + 1
      BY <1>3, <2>4
    <3>2. q[l].kid = q[m].kid
      BY <2>1, <3>1
    <3> QED BY <1>1, <1>6, <3>1, <3>2 DEF Distinct
  <2> QED BY <2>3, <2>4
<1> QED BY <1>2, <1>4, <1>5, <1>6 DEF p, n

(* The depth of a place: the bytes up to it. *)
LEMMA SameDepth ==
  ASSUME SizesAssumption, NEW q \in Seq(Requests), NEW s \in Seq(Requests),
         NEW n \in Nat, n =< Len(q), n =< Len(s), \A i \in 1 .. n : q[i].size = s[i].size
  PROVE  BytesAt(q, 1 .. n) = BytesAt(s, 1 .. n)
<1> DEFINE h == [i \in 1 .. n |-> i]
<1>1. DOMAIN q = 1 .. Len(q) /\ DOMAIN s = 1 .. Len(s) /\ Len(q) \in Nat /\ Len(s) \in Nat
  BY RequestAt
<1>2. /\ \A i \in 1 .. n : h[i] \in 1 .. n /\ s[h[i]].size = q[i].size
      /\ \A i, j \in 1 .. n : h[i] = h[j] => i = j
      /\ \A j \in 1 .. n : \E i \in 1 .. n : j = h[i]
      /\ 1 .. n \subseteq 1 .. Len(q) /\ 1 .. n \subseteq 1 .. Len(s)
  BY <1>1
<1> HIDE DEF h
<1>3. Moves(h, q, 1 .. n, s, 1 .. n)
  BY <1>1, <1>2 DEF Moves
<1> QED BY <1>3, BytesMoved

LEMMA DepthGrows ==
  ASSUME SizesAssumption, NEW q \in Seq(Requests), NEW n \in 1 .. Len(q)
  PROVE  /\ BytesAt(q, 1 .. n) = BytesAt(q, 1 .. n - 1) + q[n].size
         /\ \A m \in n .. Len(q) : BytesAt(q, 1 .. n) =< BytesAt(q, 1 .. m)
         /\ BytesAt(q, 1 .. n - 1) \in Nat /\ q[n].size \in Nat /\ q[n].size > 0
<1>1. DOMAIN q = 1 .. Len(q) /\ Len(q) \in Nat /\ q[n].size \in Nat /\ q[n].size > 0
  BY RequestAt
<1>2. BytesAt(q, 1 .. n) = BytesAt(q, 1 .. n - 1) + q[n].size
  <2> DEFINE I == 1 .. n - 1
             J == {n}
  <2>1. 1 .. n = I \union J /\ I \intersect J = {} /\ I \subseteq DOMAIN q /\ J \subseteq DOMAIN q
    BY <1>1
  <2> HIDE DEF I
  <2>2. BytesAt(q, I \union J) = BytesAt(q, I) + BytesAt(q, J)
    BY <2>1, BytesAtPlaces
  <2>3. BytesAt(q, J) = q[n].size
    BY <1>1, BytesAtPlaces
  <2> QED BY <2>1, <2>2, <2>3 DEF I
<1>3. ASSUME NEW m \in n .. Len(q) PROVE BytesAt(q, 1 .. n) =< BytesAt(q, 1 .. m)
  <2> DEFINE I == 1 .. n
             J == n + 1 .. m
  <2>1. 1 .. m = I \union J /\ I \intersect J = {} /\ I \subseteq DOMAIN q /\ J \subseteq DOMAIN q
    BY <1>1
  <2> HIDE DEF I, J
  <2>2. /\ BytesAt(q, I \union J) = BytesAt(q, I) + BytesAt(q, J)
        /\ BytesAt(q, I) \in Nat /\ BytesAt(q, J) \in Nat
    BY <2>1, BytesAtPlaces
  <2>3. BytesAt(q, I) =< BytesAt(q, I \union J)
    BY <2>2
  <2> QED BY <2>1, <2>3 DEF I
<1>4. BytesAt(q, 1 .. n - 1) \in Nat
  <2>1. 1 .. n - 1 \subseteq DOMAIN q
    BY <1>1
  <2> QED BY <2>1, BytesAtPlaces
<1> QED BY <1>1, <1>2, <1>3, <1>4

(* No place is deeper than all keys together can be. *)
LEMMA DepthIsBounded ==
  ASSUME SizesAssumption, IsFiniteSet(Keys), NEW most \in Nat, \A n \in Sizes : n =< most,
         NEW q \in Seq(Requests), Distinct(q), NEW n \in 0 .. Len(q)
  PROVE  BytesAt(q, 1 .. n) =< Cardinality(Keys) * most /\ BytesAt(q, 1 .. n) \in Nat
<1> DEFINE f == [i \in DOMAIN q |-> q[i].size]
           I == 1 .. n
           c == Cardinality(Keys)
<1>1. DOMAIN q = 1 .. Len(q) /\ Len(q) \in Nat /\ n \in Nat /\ n =< Len(q)
  BY RequestAt
<1>2. Len(q) =< c /\ c \in Nat
  BY DistinctKeys, FS_Subset, FS_CardinalityType
<1>3. IsFiniteSet(I) /\ Cardinality(I) = n
  BY <1>1, FS_Interval
<1>4. \A i \in I : f[i] \in Nat /\ f[i] =< most
  <2>1. \A r \in Requests : r.size \in Sizes
    BY DEF Requests
  <2>2. \A i \in DOMAIN q : q[i] \in Requests /\ q[i].size \in Nat
    BY RequestAt
  <2>3. \A i \in I : i \in DOMAIN q
    BY <1>1
  <2> QED BY <2>1, <2>2, <2>3
<1>5. BytesAt(q, I) = SumFunctionOnSet(f, I)
  BY DEF BytesAt
<1> HIDE DEF f, I, c
<1>6. SumFunctionOnSet(f, I) =< n * most /\ SumFunctionOnSet(f, I) \in Nat
  BY <1>3, <1>4, SumMost
<1>7. n * most =< c * most /\ n * most \in Nat /\ c * most \in Nat
  <2>1. c - n \in Nat
    BY <1>1, <1>2
  <2>2. (c - n) * most \in Nat
    BY <2>1
  <2>3. (c - n) * most = c * most - n * most /\ c * most \in Nat /\ n * most \in Nat
    BY <1>1, <1>2
  <2> QED BY <2>2, <2>3
<1> QED BY <1>5, <1>6, <1>7 DEF I, c

(* The request for a key is taken out of a queue: place is where it was,   *)
(* or the first place behind the queue.                                    *)
IsPlaceOf(j, q, k) ==
  j \in 1 .. Len(q) + 1 /\ \A i \in 1 .. Len(q) : q[i].kid = k <=> i = j

LEMMA PlaceExists ==
  ASSUME SizesAssumption, NEW q \in Seq(Requests), Distinct(q), NEW k
  PROVE  \E j : IsPlaceOf(j, q, k)
<1>1. DOMAIN q = 1 .. Len(q) /\ Len(q) \in Nat
  BY RequestAt
<1>2. CASE k \in KeysOf(q)
  <2>1. PICK j \in 1 .. Len(q) : q[j].kid = k
    BY <1>1, <1>2 DEF KeysOf, KeysAt
  <2>2. IsPlaceOf(j, q, k)
    BY <1>1, <2>1 DEF IsPlaceOf, Distinct
  <2> QED BY <2>2
<1>3. CASE k \notin KeysOf(q)
  <2>1. \A i \in 1 .. Len(q) : q[i].kid # k /\ i # Len(q) + 1
    BY <1>1, <1>3 DEF KeysOf, KeysAt
  <2>2. IsPlaceOf(Len(q) + 1, q, k)
    BY <1>1, <2>1 DEF IsPlaceOf
  <2> QED BY <2>2
<1> QED BY <1>2, <1>3

LEMMA DropCuts ==
  ASSUME SizesAssumption, NEW q \in Seq(Requests), NEW k, NEW j, IsPlaceOf(j, q, k)
  PROVE  Drop(q, k) = Cut(q, j, Len(q))
<1> DEFINE E == {r \in ToSet(q) : r.kid = k}
<1>1. \A i \in 1 .. Len(q) : q[i] \in E <=> i = j
  <2>1. DOMAIN q = 1 .. Len(q)
    BY RequestAt
  <2> QED BY <2>1 DEF IsPlaceOf, ToSet
<1>2. Drop(q, k) = Erase(q, E)
  BY DEF Drop
<1>3. j \in 1 .. Len(q) + 1
  BY DEF IsPlaceOf
<1> HIDE DEF E
<1> QED BY <1>1, <1>2, <1>3, EraseAt

(* Where the places of a queue are after the cut. *)
LEMMA CutPlaces ==
  ASSUME SizesAssumption, NEW q \in Seq(Requests), NEW k, NEW j, IsPlaceOf(j, q, k),
         NEW p, p = Cut(q, j, Len(q))
  PROVE  /\ p \in Seq(Requests) /\ j \in Nat
         /\ Len(p) = IF j =< Len(q) THEN Len(q) - 1 ELSE Len(q)
         /\ \A i \in 1 .. Len(p) : p[i] = q[IF i < j THEN i ELSE i + 1]
         /\ \A i \in 1 .. Len(p) : (IF i < j THEN i ELSE i + 1) \in 1 .. Len(q) /\ (IF i < j THEN i ELSE i + 1) # j
         /\ \A i \in 1 .. Len(q) : i # j => (IF i < j THEN i ELSE i - 1) \in 1 .. Len(p)
<1> DEFINE n == Len(q)
           m == IF j =< n THEN n - 1 ELSE n
<1>1. n \in Nat /\ DOMAIN q = 1 .. n /\ j \in 1 .. n + 1 /\ j \in Nat
  <2>1. n \in Nat /\ DOMAIN q = 1 .. n /\ j \in 1 .. n + 1
    BY RequestAt DEF IsPlaceOf
  <2> QED BY <2>1
<1>2. \A i \in 1 .. n : q[i] \in Requests
  BY <1>1
<1>3. p = [i \in 1 .. m |-> IF i < j THEN q[i] ELSE q[i + 1]]
  BY DEF Cut
<1> HIDE DEF n
<1>4. m \in Nat /\ \A i \in 1 .. m : IF i < j THEN i \in 1 .. n /\ i # j ELSE i + 1 \in 1 .. n /\ i + 1 # j
  BY <1>1
<1>5. \A i \in 1 .. n : i # j => IF i < j THEN i \in 1 .. m ELSE i - 1 \in 1 .. m
  BY <1>1
<1> HIDE DEF m
<1>6. p \in Seq(Requests) /\ Len(p) = m
  BY <1>2, <1>3, <1>4
<1>7. m = IF j =< n THEN n - 1 ELSE n
  BY DEF m
<1>8. \A i \in 1 .. m : p[i] = q[IF i < j THEN i ELSE i + 1]
  BY <1>3
<1> QED BY <1>1, <1>4, <1>5, <1>6, <1>7, <1>8 DEF n

(* The objects of a queue have sizes of M, also with a request in front    *)
(* and without the one it takes the place of.                              *)
Sized(q, M) == \A i \in 1 .. Len(q) : q[i].size \in M

LEMMA RenewedSized ==
  ASSUME SizesAssumption, NEW q \in Seq(Requests), Distinct(q), NEW M, Sized(q, M),
         NEW r \in Requests, r.size \in M
  PROVE  Sized(<<r>> \o Drop(q, r.kid), M)
<1> DEFINE k == r.kid
           p == Drop(q, k)
           t == <<r>> \o p
<1>1. PICK j : IsPlaceOf(j, q, k)
  BY PlaceExists
<1>2. p = Cut(q, j, Len(q))
  BY <1>1, DropCuts
<1> HIDE DEF p, k
<1>3. /\ p \in Seq(Requests)
      /\ \A i \in 1 .. Len(p) : p[i] = q[IF i < j THEN i ELSE i + 1]
      /\ \A i \in 1 .. Len(p) : (IF i < j THEN i ELSE i + 1) \in 1 .. Len(q)
  BY <1>1, <1>2, CutPlaces
<1>4. \A i \in 1 .. Len(p) : p[i].size \in M
  BY <1>3 DEF Sized
<1>5. /\ Len(t) = Len(p) + 1 /\ Len(p) \in Nat
      /\ t[1] = r /\ \A i \in 1 .. Len(p) : t[i + 1] = p[i]
  BY <1>3, InFront, RequestAt
<1> HIDE DEF t
<1>6. ASSUME NEW i \in 1 .. Len(t), i # 1 PROVE t[i].size \in M
  <2> DEFINE h == i - 1
  <2>1. h \in 1 .. Len(p) /\ h + 1 = i
    BY <1>5, <1>6
  <2> HIDE DEF h
  <2>2. t[h + 1].size \in M
    BY <1>4, <1>5, <2>1
  <2> QED BY <2>1, <2>2
<1> QED BY <1>5, <1>6 DEF Sized, t, p, k

LEMMA Dropped ==
  ASSUME SizesAssumption, NEW q \in Seq(Requests), Distinct(q), NEW k
  PROVE  /\ Drop(q, k) \in Seq(Requests) /\ Distinct(Drop(q, k))
         /\ KeysOf(Drop(q, k)) = KeysOf(q) \ {k}
         /\ k \notin KeysOf(q) => Drop(q, k) = q
         /\ \A i \in DOMAIN q : q[i].kid = k => SizeOf(q) = SizeOf(Drop(q, k)) + q[i].size
<1> DEFINE n == Len(q)
           p == Drop(q, k)
           m == Len(p)
<1>1. PICK j : IsPlaceOf(j, q, k)
  BY PlaceExists
<1> DEFINE from(i) == IF i < j THEN i ELSE i + 1
           to(i) == IF i < j THEN i ELSE i - 1
<1>2. /\ p \in Seq(Requests) /\ j \in Nat /\ m = IF j =< n THEN n - 1 ELSE n
      /\ \A i \in 1 .. m : p[i] = q[from(i)] /\ from(i) \in 1 .. n /\ from(i) # j
      /\ \A i \in 1 .. n : i # j => to(i) \in 1 .. m
  BY <1>1, DropCuts, CutPlaces
<1>3. n \in Nat /\ DOMAIN q = 1 .. n /\ m \in Nat /\ DOMAIN p = 1 .. m
  BY <1>2, RequestAt
<1>4. j \in 1 .. n + 1 /\ \A i \in 1 .. n : q[i].kid = k <=> i = j
  BY <1>1 DEF IsPlaceOf
<1> HIDE DEF n, p, m
<1>5. /\ \A i \in 1 .. n : i # j => from(to(i)) = i
      /\ \A i, l \in 1 .. m : from(i) = from(l) => i = l
  BY <1>2, <1>3, <1>4
<1> HIDE DEF from, to
<1>6. Distinct(p)
  <2> SUFFICES ASSUME NEW i \in 1 .. m, NEW l \in 1 .. m, p[i].kid = p[l].kid PROVE i = l
    BY <1>3 DEF Distinct
  <2>1. p[i] = q[from(i)] /\ p[l] = q[from(l)] /\ from(i) \in DOMAIN q /\ from(l) \in DOMAIN q
    BY <1>2, <1>3
  <2>2. from(i) = from(l)
    BY <2>1 DEF Distinct
  <2> QED BY <1>5, <2>2
<1>7. KeysOf(p) = KeysOf(q) \ {k}
  <2>1. ASSUME NEW i \in 1 .. m PROVE p[i].kid \in KeysOf(q) \ {k}
    BY <1>2, <1>3, <1>4 DEF KeysOf, KeysAt
  <2>2. ASSUME NEW i \in 1 .. n, i # j PROVE q[i].kid \in KeysOf(p)
    <3>1. to(i) \in 1 .. m /\ p[to(i)] = q[i]
      BY <1>2, <1>5, <2>2
    <3> QED BY <1>3, <3>1 DEF KeysOf, KeysAt
  <2>3. KeysOf(p) \subseteq KeysOf(q) \ {k}
    BY <1>3, <2>1 DEF KeysOf, KeysAt
  <2>4. \A i \in 1 .. n : q[i].kid # k => q[i].kid \in KeysOf(p)
    BY <1>4, <2>2
  <2>5. KeysOf(q) \ {k} \subseteq KeysOf(p)
    BY <1>3, <2>4 DEF KeysOf, KeysAt
  <2> QED BY <2>3, <2>5
<1>8. ASSUME k \notin KeysOf(q) PROVE p = q
  <2>1. ~ (j \in 1 .. n)
    BY <1>3, <1>4, <1>8 DEF KeysOf, KeysAt
  <2>2. j = n + 1
    BY <1>3, <1>4, <2>1
  <2>3. m = n /\ \A i \in 1 .. n : from(i) = i
    BY <1>2, <1>3, <2>2 DEF from
  <2>4. Len(p) = Len(q) /\ \A i \in 1 .. Len(p) : p[i] = q[i]
    BY <1>2, <2>3 DEF m, n
  <2> QED BY <1>2, <2>4, SeqEqual
<1>9. ASSUME NEW i \in DOMAIN q, q[i].kid = k PROVE SizeOf(q) = SizeOf(p) + q[i].size
  <2> DEFINE h == [l \in 1 .. m |-> from(l)]
             R == (1 .. n) \ {j}
  <2>1. i = j /\ j \in 1 .. n
    BY <1>3, <1>4, <1>9
  <2>2. Moves(h, p, 1 .. m, q, R)
    <3>1. R \subseteq DOMAIN q /\ 1 .. m \subseteq DOMAIN p
      BY <1>3
    <3>2. \A l \in 1 .. m : h[l] = from(l) /\ h[l] \in R /\ q[h[l]] = p[l]
      BY <1>2
    <3>3. \A l, x \in 1 .. m : h[l] = h[x] => l = x
      BY <1>5
    <3>4. ASSUME NEW x \in R PROVE \E l \in 1 .. m : x = h[l]
      <4>1. to(x) \in 1 .. m /\ h[to(x)] = x
        BY <1>2, <1>5
      <4> QED BY <4>1
    <3> HIDE DEF h, R
    <3> QED BY <3>1, <3>2, <3>3, <3>4 DEF Moves
  <2> HIDE DEF h
  <2>3. SizeOf(p) = BytesAt(q, R)
    BY <1>2, <1>3, <2>2, BytesMoved DEF SizeOf
  <2>4. DOMAIN q = R \union {j} /\ R \intersect {j} = {} /\ R \subseteq DOMAIN q /\ {j} \subseteq DOMAIN q
    BY <1>3, <2>1
  <2> HIDE DEF R
  <2>5. BytesAt(q, R \union {j}) = BytesAt(q, R) + BytesAt(q, {j}) /\ BytesAt(q, {j}) = q[j].size
    BY <2>4, BytesAtPlaces
  <2> QED BY <2>1, <2>3, <2>4, <2>5 DEF SizeOf
<1> QED BY <1>2, <1>6, <1>7, <1>8, <1>9 DEF p

-------------------------------------------------------------------------------
(* add: r comes in front of as many of the newest requests as leave room   *)
(* for it, unless it needs more than there is: then nothing stays.         *)
Fits(q, n, r, mem) == BytesAt(q, 1 .. n) + r.size =< mem

IsFilled(p, q, r, mem) ==
  IF r.size > mem THEN p = <<>>
  ELSE \E n \in 0 .. Len(q) :
         /\ p = <<r>> \o SubSeq(q, 1, n)
         /\ Fits(q, n, r, mem)
         /\ \A m \in n + 1 .. Len(q) : ~ Fits(q, m, r, mem)

LEMMA StayingFits ==
  ASSUME SizesAssumption, global_mem \in Nat, NEW q \in Seq(Requests), NEW r \in Requests,
         NEW n, n = Staying(q, SizeOf(q), r.size)
  PROVE  /\ n \in 0 .. Len(q)
         /\ Fits(q, n, r, global_mem) \/ n = 0
         /\ \A m \in n + 1 .. Len(q) : ~ Fits(q, m, r, global_mem)
<1> DEFINE S == {m \in 0 .. Len(q) :
                   SizeOf(q) - BytesAt(q, m + 1 .. Len(q)) + r.size =< global_mem}
<1>1. Len(q) \in Nat
  BY RequestAt
<1>2. \A m \in 0 .. Len(q) : m \in S <=> Fits(q, m, r, global_mem)
  <2> TAKE m \in 0 .. Len(q)
  <2> DEFINE a == BytesAt(q, 1 .. m)
             b == BytesAt(q, m + 1 .. Len(q))
             c == SizeOf(q)
  <2>1. c = a + b /\ a \in Nat /\ b \in Nat
    BY NewestOf
  <2>2. m \in S <=> c - b + r.size =< global_mem
    OBVIOUS
  <2>3. Fits(q, m, r, global_mem) <=> a + r.size =< global_mem
    BY DEF Fits
  <2> HIDE DEF a, b, c, S
  <2>4. c - b = a
    BY <2>1
  <2> QED BY <2>2, <2>3, <2>4
<1> DEFINE T == {0} \union S
<1>3. n = Max(T)
  BY DEF Staying
<1>4. T \in SUBSET (0 .. Len(q)) /\ T # {}
  BY <1>1
<1>5. S \subseteq 0 .. Len(q)
  OBVIOUS
<1> HIDE DEF S
<1>6. n \in T /\ \A m \in T : m =< n
  <2> HIDE DEF T
  <2> QED BY <1>1, <1>3, <1>4, GreatestElement
<1>7. n \in 0 .. Len(q)
  BY <1>4, <1>6
<1>8. n = 0 \/ n \in S
  BY <1>6
<1>9. \A m \in n + 1 .. Len(q) : m \in 0 .. Len(q) /\ ~ (m =< n)
  BY <1>1, <1>7
<1>10. \A m \in n + 1 .. Len(q) : m \notin S
  BY <1>6, <1>9
<1> QED BY <1>2, <1>7, <1>8, <1>9, <1>10

(* A queue as it should be. *)
IsRight(q, m, bytes, mem) ==
  /\ q \in Seq(Requests) /\ Distinct(q)
  /\ m = KeysOf(q) /\ bytes = SizeOf(q) /\ bytes =< mem

LEMMA AddFills ==
  ASSUME SizesAssumption, global_mem \in Nat, NEW q \in Seq(Requests), Distinct(q),
         NEW r \in Requests, r.kid \notin KeysOf(q), AddTo(q, KeysOf(q), SizeOf(q), r)
  PROVE  /\ IsRight(queue', map', bytes_cached', global_mem)
         /\ IsFilled(queue', q, r, global_mem)
         /\ outcome'.kid = r.kid /\ outcome'.result # "hit"
<1> DEFINE n == Staying(q, SizeOf(q), r.size)
           stay == SubSeq(q, 1, n)
           victims == n + 1 .. Len(q)
           left == BytesAt(q, 1 .. n)
<1>1. /\ n \in 0 .. Len(q) /\ (Fits(q, n, r, global_mem) \/ n = 0)
      /\ \A m \in n + 1 .. Len(q) : ~ Fits(q, m, r, global_mem)
  BY StayingFits
<1> HIDE DEF n
<1>2. /\ stay \in Seq(Requests) /\ Len(stay) = n /\ Distinct(stay)
      /\ SizeOf(stay) = left /\ left \in Nat
      /\ SizeOf(q) - BytesAt(q, victims) = left
      /\ KeysOf(stay) = KeysOf(q) \ KeysAt(q, victims)
  <2>1. /\ SizeOf(stay) = left /\ left \in Nat /\ BytesAt(q, victims) \in Nat
        /\ SizeOf(q) = left + BytesAt(q, victims) /\ stay \in Seq(Requests) /\ Len(stay) = n
    BY <1>1, NewestOf
  <2>2. Distinct(stay) /\ KeysOf(stay) = KeysOf(q) \ KeysAt(q, victims)
    BY <1>1, NewestAreDistinct
  <2> DEFINE a == SizeOf(q)
             b == BytesAt(q, victims)
  <2> HIDE DEF a, b, left
  <2>3. a - b = left
    BY <2>1 DEF a, b
  <2> QED BY <2>1, <2>2, <2>3 DEF a, b
<1>3. \/ /\ left + r.size =< global_mem /\ queue' = <<r>> \o stay
         /\ map' = (KeysOf(q) \ KeysAt(q, victims)) \union {r.kid}
         /\ bytes_cached' = left + r.size /\ outcome' = Outcome(r, "miss")
      \/ /\ left + r.size > global_mem /\ queue' = stay
         /\ map' = KeysOf(q) \ KeysAt(q, victims)
         /\ bytes_cached' = left /\ outcome' = Outcome(r, "rejected")
  <2>1. Len(SubSeq(q, 1, n)) = n
    BY <1>2
  <2>2. SizeOf(q) - BytesAt(q, n + 1 .. Len(q)) = left
    BY <1>2
  <2> HIDE DEF left
  <2> QED BY <2>1, <2>2 DEF AddTo, n
<1>4. Fits(q, n, r, global_mem) <=> left + r.size =< global_mem
  BY DEF Fits
<1>5. r.size \in Nat /\ r.size > 0
  BY RequestType
<1>6. outcome'.kid = r.kid /\ outcome'.result # "hit"
  BY <1>3 DEF Outcome
<1>7. CASE left + r.size =< global_mem
  <2> HIDE DEF stay, left
  <2>1. queue' = <<r>> \o stay /\ map' = KeysOf(stay) \union {r.kid} /\ bytes_cached' = left + r.size
    BY <1>2, <1>3, <1>5, <1>7
  <2>2. r.kid \notin KeysOf(stay)
    BY <1>2
  <2>3. /\ queue' \in Seq(Requests) /\ Distinct(queue') /\ map' = KeysOf(queue')
        /\ SizeOf(queue') = r.size + SizeOf(stay)
    BY <1>2, <2>1, <2>2, InFront
  <2>4. IsRight(queue', map', bytes_cached', global_mem)
    BY <1>2, <1>5, <1>7, <2>1, <2>3 DEF IsRight
  <2>5. ~ (r.size > global_mem)
    BY <1>2, <1>5, <1>7
  <2>6. IsFilled(queue', q, r, global_mem)
    BY <1>1, <1>4, <1>7, <2>1, <2>5 DEF IsFilled, stay
  <2> QED BY <1>6, <2>4, <2>6
<1>8. CASE ~ (left + r.size =< global_mem)
  <2>1. n = 0
    BY <1>1, <1>4, <1>8
  <2> HIDE DEF stay
  <2>2. stay = <<>> /\ SizeOf(stay) = 0 /\ left = 0
    <3>1. stay = <<>>
      BY <1>2, <2>1, EmptySeq
    <3>2. SizeOf(stay) = BytesAt(stay, {})
      BY <3>1 DEF SizeOf
    <3>3. BytesAt(stay, {}) = 0
      BY <1>2, BytesAtPlaces
    <3> QED BY <1>2, <3>1, <3>2, <3>3
  <2> HIDE DEF left
  <2>3. /\ queue' = stay /\ map' = KeysOf(stay) /\ bytes_cached' = SizeOf(stay)
    BY <1>2, <1>3, <1>8
  <2>4. IsRight(queue', map', bytes_cached', global_mem)
    BY <1>2, <2>2, <2>3 DEF IsRight
  <2>5. r.size > global_mem
    BY <1>5, <1>8, <2>2
  <2>6. IsFilled(queue', q, r, global_mem)
    BY <2>2, <2>3, <2>5 DEF IsFilled
  <2> QED BY <1>6, <2>4, <2>6
<1> QED BY <1>7, <1>8

-------------------------------------------------------------------------------
(* proc.                                                                   *)
QueueInv == global_mem \in Nat /\ IsRight(queue, map, bytes_cached, global_mem)

LEMMA EntryIsIt ==
  ASSUME SizesAssumption, QueueInv, NEW k \in map
  PROVE  \E i \in DOMAIN queue : queue[i] = EntryOf(k) /\ queue[i].kid = k
<1>1. queue \in Seq(Requests) /\ map = KeysOf(queue)
  BY DEF QueueInv, IsRight
<1>2. PICK i \in DOMAIN queue : queue[i].kid = k
  BY <1>1 DEF KeysOf, KeysAt
<1>3. \E r \in ToSet(queue) : r.kid = k
  BY <1>2 DEF ToSet
<1>4. EntryOf(k) \in ToSet(queue) /\ EntryOf(k).kid = k
  BY <1>3 DEF EntryOf
<1> QED BY <1>4 DEF ToSet

(* However a request ends, the queue is right, and its object is in front  *)
(* of what fits of the others; it was a hit if the object was there, in    *)
(* its size.                                                               *)
LEMMA ProcFills ==
  ASSUME SizesAssumption, QueueInv, NEW r \in Requests, Proc(r)
  PROVE  /\ QueueInv' /\ global_mem' = global_mem
         /\ IsFilled(queue', Drop(queue, r.kid), r, global_mem)
         /\ outcome'.kid = r.kid
         /\ outcome'.result = "hit" <=> \E i \in DOMAIN queue : queue[i] = r
<1> DEFINE rest == Drop(queue, r.kid)
<1>1. /\ global_mem \in Nat /\ queue \in Seq(Requests) /\ Distinct(queue)
      /\ map = KeysOf(queue) /\ bytes_cached = SizeOf(queue) /\ bytes_cached =< global_mem
  BY DEF QueueInv, IsRight
<1>2. /\ rest \in Seq(Requests) /\ Distinct(rest) /\ KeysOf(rest) = KeysOf(queue) \ {r.kid}
      /\ r.kid \notin KeysOf(queue) => rest = queue
      /\ \A i \in DOMAIN queue : queue[i].kid = r.kid => SizeOf(queue) = SizeOf(rest) + queue[i].size
  BY <1>1, Dropped
<1>3. r.size \in Nat /\ r.size > 0
  BY RequestType
<1>4. \A i \in DOMAIN queue : queue[i].size \in Nat
  BY <1>1, RequestAt
<1>5. SizeOf(rest) \in Nat
  BY <1>2, BytesAtPlaces DEF SizeOf
<1>6. global_mem' = global_mem
  BY DEF Proc
<1> HIDE DEF rest
<1>7. CASE Promote(r)
  <2>1. r.kid \in map /\ EntryOf(r.kid).size = r.size /\ queue' = <<r>> \o rest
        /\ outcome' = Outcome(r, "hit") /\ map' = map /\ bytes_cached' = bytes_cached
    BY <1>7 DEF Promote, rest
  <2>2. PICK i \in DOMAIN queue : queue[i] = EntryOf(r.kid) /\ queue[i].kid = r.kid
    BY <2>1, EntryIsIt
  <2>3. queue[i] = r
    <3>1. queue[i] \in Requests
      BY <1>1
    <3> QED BY <2>1, <2>2, <3>1 DEF Requests
  <2>4. SizeOf(queue) = SizeOf(rest) + r.size
    BY <1>2, <2>3
  <2>5. /\ queue' \in Seq(Requests) /\ Distinct(queue') /\ SizeOf(queue') = r.size + SizeOf(rest)
        /\ KeysOf(queue') = KeysOf(rest) \union {r.kid}
    BY <1>2, <2>1, InFront
  <2>6. QueueInv'
    <3> DEFINE a == SizeOf(rest)
               b == SizeOf(queue)
               c == SizeOf(queue')
    <3>1. map' = KeysOf(queue')
      BY <1>1, <1>2, <2>1, <2>5
    <3> HIDE DEF a, b, c
    <3>2. a \in Nat /\ b = a + r.size /\ c = r.size + a /\ bytes_cached' = b
      BY <1>1, <1>5, <2>1, <2>4, <2>5 DEF a, b, c
    <3>3. bytes_cached' = c
      BY <1>3, <3>2
    <3>4. bytes_cached' = SizeOf(queue')
      BY <3>3 DEF c
    <3> QED BY <1>1, <1>6, <2>1, <2>5, <3>1, <3>4 DEF QueueInv, IsRight
  <2>7. IsFilled(queue', rest, r, global_mem)
    <3> DEFINE n == Len(rest)
    <3>1. n \in Nat /\ DOMAIN rest = 1 .. n
      BY <1>2, RequestAt
    <3>2. SubSeq(rest, 1, n) = rest
      BY <1>2, SubSeqFull
    <3>3. BytesAt(rest, 1 .. n) = SizeOf(rest)
      BY <3>1 DEF SizeOf
    <3> HIDE DEF n
    <3>4. Fits(rest, n, r, global_mem)
      BY <1>1, <2>4, <3>3 DEF Fits
    <3>5. ~ (r.size > global_mem)
      BY <1>1, <1>3, <1>5, <2>4
    <3>6. n \in 0 .. n /\ \A m \in n + 1 .. n : ~ Fits(rest, m, r, global_mem)
      BY <3>1
    <3> QED BY <2>1, <3>2, <3>4, <3>5, <3>6 DEF IsFilled, n
  <2>8. outcome'.kid = r.kid /\ outcome'.result = "hit"
    BY <2>1 DEF Outcome
  <2> QED BY <1>6, <2>3, <2>6, <2>7, <2>8 DEF rest
<1>8. CASE Resize(r)
  <2>1. /\ r.kid \in map /\ EntryOf(r.kid).size # r.size
        /\ AddTo(rest, map \ {r.kid}, bytes_cached - EntryOf(r.kid).size, r)
    BY <1>8 DEF Resize, rest
  <2>2. PICK i \in DOMAIN queue : queue[i] = EntryOf(r.kid) /\ queue[i].kid = r.kid
    BY <2>1, EntryIsIt
  <2>3. map \ {r.kid} = KeysOf(rest) /\ bytes_cached - EntryOf(r.kid).size = SizeOf(rest)
    BY <1>1, <1>2, <1>4, <1>5, <2>2
  <2>4. AddTo(rest, KeysOf(rest), SizeOf(rest), r)
    BY <2>1, <2>3
  <2>5. r.kid \notin KeysOf(rest)
    BY <1>2
  <2>6. /\ IsRight(queue', map', bytes_cached', global_mem)
        /\ IsFilled(queue', rest, r, global_mem)
        /\ outcome'.kid = r.kid /\ outcome'.result # "hit"
    BY <1>1, <1>2, <2>4, <2>5, AddFills
  <2>7. \A j \in DOMAIN queue : queue[j] # r
    BY <1>1, <2>1, <2>2 DEF Distinct
  <2> QED BY <1>1, <1>6, <2>6, <2>7 DEF rest, QueueInv
<1>9. CASE Add(r)
  <2>1. r.kid \notin map /\ AddTo(queue, map, bytes_cached, r)
    BY <1>9 DEF Add
  <2>2. r.kid \notin KeysOf(queue) /\ AddTo(queue, KeysOf(queue), SizeOf(queue), r)
    BY <1>1, <2>1
  <2>3. /\ IsRight(queue', map', bytes_cached', global_mem)
        /\ IsFilled(queue', queue, r, global_mem)
        /\ outcome'.kid = r.kid /\ outcome'.result # "hit"
    BY <1>1, <2>2, AddFills
  <2>4. \A j \in DOMAIN queue : queue[j] # r
    BY <2>2 DEF KeysOf, KeysAt
  <2>5. rest = queue
    BY <1>2, <2>2
  <2> QED BY <1>1, <1>6, <2>3, <2>4, <2>5 DEF rest, QueueInv
<1> QED BY <1>7, <1>8, <1>9 DEF Proc

-------------------------------------------------------------------------------
(* The other operations.                                                   *)
LEMMA AddTailKeeps ==
  ASSUME SizesAssumption, QueueInv, NEW r \in Requests, TryAddTail(r)
  PROVE  QueueInv'
<1>1. /\ global_mem \in Nat /\ queue \in Seq(Requests) /\ Distinct(queue)
      /\ map = KeysOf(queue) /\ bytes_cached = SizeOf(queue) /\ bytes_cached =< global_mem
  BY DEF QueueInv, IsRight
<1>2. global_mem' = global_mem /\ r.kid \notin map
  BY DEF TryAddTail
<1>3. CASE /\ queue' = Append(queue, r) /\ map' = map \union {r.kid}
           /\ bytes_cached' = bytes_cached + r.size /\ bytes_cached' =< global_mem
  <2> DEFINE n == Len(queue)
             p == Append(queue, r)
  <2>1. p \in Seq(Requests) /\ Len(p) = n + 1 /\ p[n + 1] = r /\ \A i \in 1 .. n : p[i] = queue[i]
    BY <1>1, AppendProperties
  <2>2. n \in Nat /\ DOMAIN queue = 1 .. n
    BY <1>1, RequestAt
  <2> HIDE DEF n, p
  <2>3. DOMAIN p = 1 .. n + 1
    BY <2>1, RequestAt
  <2>4. /\ \A i \in 1 .. n : i \in 1 .. n + 1 /\ i # n + 1
        /\ n + 1 \in 1 .. n + 1 /\ \A i \in 1 .. n + 1 : i = n + 1 \/ i \in 1 .. n
    BY <2>2
  <2>5. \A i \in 1 .. n : queue[i].kid # r.kid
    BY <1>1, <1>2, <2>2 DEF KeysOf, KeysAt
  <2>6. Distinct(p)
    BY <1>1, <2>1, <2>2, <2>3, <2>4, <2>5 DEF Distinct
  <2>7. KeysOf(p) = KeysOf(queue) \union {r.kid}
    <3>1. \A i \in 1 .. n + 1 : p[i].kid = r.kid \/ \E j \in 1 .. n : p[i].kid = queue[j].kid
      BY <2>1, <2>4
    <3>2. KeysOf(p) \subseteq KeysOf(queue) \union {r.kid}
      BY <2>2, <2>3, <3>1 DEF KeysOf, KeysAt
    <3>3. \A i \in 1 .. n : p[i].kid = queue[i].kid /\ i \in 1 .. n + 1
      BY <2>1, <2>4
    <3>4. KeysOf(queue) \subseteq KeysOf(p)
      BY <2>2, <2>3, <3>3 DEF KeysOf, KeysAt
    <3>5. r.kid \in KeysOf(p)
      BY <2>1, <2>3, <2>4 DEF KeysOf, KeysAt
    <3> QED BY <3>2, <3>4, <3>5
  <2>8. SizeOf(p) = SizeOf(queue) + r.size
    <3> DEFINE h == [i \in 1 .. n |-> i]
    <3>1. /\ \A i \in 1 .. n : h[i] \in 1 .. n /\ p[h[i]] = queue[i]
          /\ \A i, j \in 1 .. n : h[i] = h[j] => i = j
          /\ \A j \in 1 .. n : \E i \in 1 .. n : j = h[i]
      BY <2>1
    <3> HIDE DEF h
    <3>2. Moves(h, queue, 1 .. n, p, 1 .. n)
      BY <2>2, <2>3, <2>4, <3>1 DEF Moves
    <3>3. SizeOf(queue) = BytesAt(p, 1 .. n)
      BY <1>1, <2>1, <2>2, <3>2, BytesMoved DEF SizeOf
    <3> DEFINE I == 1 .. n
               J == {n + 1}
    <3>4. I \subseteq DOMAIN p /\ J \subseteq DOMAIN p /\ I \intersect J = {} /\ DOMAIN p = I \union J
      BY <2>3, <2>4
    <3> HIDE DEF I, J
    <3>5. BytesAt(p, I \union J) = BytesAt(p, I) + BytesAt(p, J)
      BY <2>1, <3>4, BytesAtPlaces
    <3>6. BytesAt(p, {n + 1}) = r.size
      <4>1. n + 1 \in DOMAIN p
        BY <2>3, <2>4
      <4> QED BY <2>1, <4>1, BytesAtPlaces
    <3> QED BY <3>3, <3>4, <3>5, <3>6 DEF SizeOf, I, J
  <2> QED BY <1>1, <1>2, <1>3, <2>1, <2>6, <2>7, <2>8 DEF QueueInv, IsRight, p
<1>4. CASE UNCHANGED <<queue, map, bytes_cached>>
  BY <1>1, <1>2, <1>4 DEF QueueInv, IsRight
<1> QED BY <1>2, <1>3, <1>4 DEF TryAddTail

LEMMA RemoveKeeps ==
  ASSUME SizesAssumption, QueueInv, NEW k \in Keys, RemoveKey(k)
  PROVE  QueueInv'
<1>1. /\ global_mem \in Nat /\ queue \in Seq(Requests) /\ Distinct(queue)
      /\ map = KeysOf(queue) /\ bytes_cached = SizeOf(queue) /\ bytes_cached =< global_mem
  BY DEF QueueInv, IsRight
<1>2. global_mem' = global_mem
  BY DEF RemoveKey
<1>3. CASE k \in map
  <2>1. /\ bytes_cached' = bytes_cached - EntryOf(k).size
        /\ queue' = Drop(queue, k) /\ map' = map \ {k}
    BY <1>3 DEF RemoveKey
  <2>2. PICK i \in DOMAIN queue : queue[i] = EntryOf(k) /\ queue[i].kid = k
    BY <1>3, EntryIsIt
  <2> DEFINE rest == Drop(queue, k)
             a == SizeOf(rest)
             b == SizeOf(queue)
  <2>3. rest \in Seq(Requests) /\ Distinct(rest) /\ KeysOf(rest) = KeysOf(queue) \ {k}
    BY <1>1, Dropped
  <2>4. b = a + queue[i].size
    BY <1>1, <2>2, Dropped
  <2>5. queue[i].size \in Nat
    BY <1>1, RequestAt
  <2>6. a \in Nat
    <3> HIDE DEF rest
    <3> QED BY <2>3, BytesAtPlaces DEF SizeOf
  <2> HIDE DEF a, b, rest
  <2>7. bytes_cached' = a /\ a =< global_mem
    BY <1>1, <2>1, <2>2, <2>4, <2>5, <2>6 DEF b
  <2> QED BY <1>1, <1>2, <2>1, <2>3, <2>7 DEF QueueInv, IsRight, a, rest
<1>4. CASE k \notin map
  BY <1>1, <1>2, <1>4 DEF QueueInv, IsRight, RemoveKey
<1> QED BY <1>3, <1>4

LEMMA ExpandKeeps == SizesAssumption /\ QueueInv /\ Expand => QueueInv'
<1> SUFFICES ASSUME SizesAssumption, QueueInv, Expand PROVE QueueInv'
  OBVIOUS
<1>1. PICK mem \in MemSizes : mem > global_mem /\ global_mem' = mem
  BY DEF Expand
<1>2. mem \in Nat
  BY DEF SizesAssumption
<1>3. bytes_cached \in Nat
  BY BytesAtPlaces DEF QueueInv, IsRight, SizeOf
<1>4. bytes_cached =< mem
  BY <1>1, <1>2, <1>3 DEF QueueInv, IsRight
<1> QED BY <1>1, <1>2, <1>4 DEF QueueInv, IsRight, Expand

LEMMA EmptyIsRight == SizesAssumption /\ Init => QueueInv
<1> SUFFICES ASSUME SizesAssumption, Init PROVE QueueInv
  OBVIOUS
<1>1. queue = <<>> /\ map = {} /\ bytes_cached = 0 /\ global_mem \in Nat
  BY DEF Init, SizesAssumption
<1>2. queue \in Seq(Requests) /\ Distinct(queue)
  BY <1>1 DEF Distinct
<1>3. DOMAIN queue = {}
  BY <1>1
<1>4. KeysOf(queue) = {} /\ SizeOf(queue) = BytesAt(queue, {})
  BY <1>3 DEF KeysOf, KeysAt, SizeOf
<1>5. BytesAt(queue, {}) = 0
  BY <1>2, BytesAtPlaces
<1> QED BY <1>1, <1>2, <1>4, <1>5 DEF QueueInv, IsRight

LEMMA StepKeeps == SizesAssumption /\ QueueInv /\ [Next]_vars => QueueInv'
<1> SUFFICES ASSUME SizesAssumption, QueueInv, [Next]_vars PROVE QueueInv'
  OBVIOUS
<1>1. CASE UNCHANGED vars
  BY <1>1 DEF vars, QueueInv, IsRight
<1> QED BY <1>1, ProcFills, AddTailKeeps, RemoveKeeps, ExpandKeeps DEF Next

LEMMA RightIsConsistent ==
  ASSUME SizesAssumption, QueueInv
  PROVE  /\ Consistent
         /\ queue \in Seq(Requests) /\ map \subseteq Keys /\ bytes_cached \in Nat
<1>1. /\ queue \in Seq(Requests) /\ Distinct(queue) /\ map = KeysOf(queue)
      /\ bytes_cached = SizeOf(queue) /\ bytes_cached =< global_mem
  BY DEF QueueInv, IsRight
<1>2. bytes_cached \in Nat
  BY <1>1, BytesAtPlaces DEF SizeOf
<1> QED BY <1>1, <1>2, DistinctKeys DEF Consistent

(* Whatever calls of proc, remove, try_add_tail and expand a slab          *)
(* allocator makes, list, hash table and bytes_cached agree, and the queue *)
(* holds no more than it may.                                              *)
THEOREM QueueIsConsistent == SizesAssumption => (Spec => []Consistent)
<1> SUFFICES ASSUME SizesAssumption PROVE Spec => []Consistent
  OBVIOUS
<1>1. Init => QueueInv
  BY EmptyIsRight
<1>2. QueueInv /\ [Next]_vars => QueueInv'
  BY StepKeeps
<1>3. QueueInv => Consistent
  BY RightIsConsistent
<1> QED BY <1>1, <1>2, <1>3, PTL DEF Spec

-------------------------------------------------------------------------------
(* What a request finds and leaves.                                        *)
Finds(r) ==
  \/ outcome' = Outcome(r, "hit") /\ r \in ToSet(queue) /\ ToSet(queue') = ToSet(queue)
  \/ /\ outcome' = Outcome(r, "miss") /\ r \notin ToSet(queue) /\ r \in ToSet(queue')
     /\ \A e \in ToSet(queue') : e = r \/ (e \in ToSet(queue) /\ e.kid # r.kid)
  \/ outcome' = Outcome(r, "rejected") /\ ToSet(queue') \subseteq ToSet(queue)

LEMMA FrontSet ==
  ASSUME SizesAssumption, NEW q \in Seq(Requests), NEW r \in Requests
  PROVE  ToSet(<<r>> \o q) = {r} \union ToSet(q)
<1> DEFINE p == <<r>> \o q
           n == Len(q)
<1>1. /\ p \in Seq(Requests) /\ Len(p) = n + 1
      /\ p[1] = r /\ \A i \in 1 .. n : p[i + 1] = q[i]
  BY InFront
<1>2. n \in Nat /\ DOMAIN q = 1 .. n
  BY RequestAt
<1> HIDE DEF p, n
<1>3. DOMAIN p = 1 .. n + 1
  BY <1>1, RequestAt
<1>4. /\ 1 \in 1 .. n + 1 /\ \A i \in 1 .. n : i + 1 \in 1 .. n + 1
      /\ \A i \in 1 .. n + 1 : i = 1 \/ (i - 1 \in 1 .. n /\ (i - 1) + 1 = i)
  BY <1>2
<1>5. \A i \in DOMAIN p : p[i] = r \/ \E j \in DOMAIN q : p[i] = q[j]
  <2> SUFFICES ASSUME NEW i \in 1 .. n + 1, i # 1 PROVE \E j \in 1 .. n : p[i] = q[j]
    BY <1>1, <1>2, <1>3
  <2>1. i - 1 \in 1 .. n /\ (i - 1) + 1 = i
    BY <1>4
  <2>2. p[(i - 1) + 1] = q[i - 1]
    BY <1>1, <2>1
  <2> QED BY <2>1, <2>2
<1>6. ToSet(p) \subseteq {r} \union ToSet(q)
  BY <1>5 DEF ToSet
<1>7. \A i \in DOMAIN q : \E j \in DOMAIN p : p[j] = q[i]
  BY <1>1, <1>2, <1>3, <1>4
<1>8. {r} \union ToSet(q) \subseteq ToSet(p)
  BY <1>1, <1>3, <1>4, <1>7 DEF ToSet
<1> QED BY <1>6, <1>8 DEF p

LEMMA DroppedSet ==
  ASSUME SizesAssumption, NEW q \in Seq(Requests), NEW k
  PROVE  ToSet(Drop(q, k)) = {e \in ToSet(q) : e.kid # k}
<1> DEFINE G == {r \in ToSet(q) : r.kid = k}
<1>1. ToSet(q) \ G = {e \in ToSet(q) : e.kid # k}
  OBVIOUS
<1> HIDE DEF G
<1>2. ToSet(Erase(q, G)) = ToSet(q) \ G
  BY EraseSet
<1> QED BY <1>1, <1>2 DEF Drop, G

LEMMA AddServes ==
  ASSUME SizesAssumption, global_mem \in Nat, NEW q \in Seq(Requests), NEW r \in Requests,
         AddTo(q, KeysOf(q), SizeOf(q), r)
  PROVE  \/ outcome' = Outcome(r, "miss") /\ ToSet(queue') \subseteq {r} \union ToSet(q)
            /\ r \in ToSet(queue')
         \/ outcome' = Outcome(r, "rejected") /\ ToSet(queue') \subseteq ToSet(q)
<1> DEFINE n == Staying(q, SizeOf(q), r.size)
           stay == SubSeq(q, 1, n)
<1>1. n \in 0 .. Len(q)
  BY StayingFits
<1>2. \/ outcome' = Outcome(r, "miss") /\ queue' = <<r>> \o stay
      \/ outcome' = Outcome(r, "rejected") /\ queue' = stay
  BY DEF AddTo
<1> HIDE DEF n
<1>3. stay \in Seq(Requests) /\ Len(stay) = n /\ \A i \in 1 .. n : stay[i] = q[i]
  BY <1>1, NewestOf
<1>4. DOMAIN q = 1 .. Len(q) /\ Len(q) \in Nat
  BY RequestAt
<1> HIDE DEF stay
<1>5. DOMAIN stay = 1 .. n
  BY <1>3, RequestAt
<1>6. ToSet(stay) \subseteq ToSet(q)
  BY <1>1, <1>3, <1>4, <1>5 DEF ToSet
<1>7. ToSet(<<r>> \o stay) = {r} \union ToSet(stay)
  BY <1>3, FrontSet
<1> QED BY <1>2, <1>6, <1>7

LEMMA ProcServes ==
  ASSUME SizesAssumption, QueueInv, NEW r \in Requests, Proc(r)
  PROVE  Finds(r)
<1> DEFINE rest == Drop(queue, r.kid)
<1>1. /\ global_mem \in Nat /\ queue \in Seq(Requests) /\ Distinct(queue)
      /\ map = KeysOf(queue) /\ bytes_cached = SizeOf(queue)
  BY DEF QueueInv, IsRight
<1>2. /\ rest \in Seq(Requests) /\ KeysOf(rest) = KeysOf(queue) \ {r.kid}
      /\ r.kid \notin KeysOf(queue) => rest = queue
      /\ \A i \in DOMAIN queue : queue[i].kid = r.kid => SizeOf(queue) = SizeOf(rest) + queue[i].size
  BY <1>1, Dropped
<1>3. ToSet(rest) = {e \in ToSet(queue) : e.kid # r.kid}
  BY <1>1, DroppedSet
<1>4. \A e \in ToSet(queue) : e.kid \in KeysOf(queue)
  BY DEF ToSet, KeysOf, KeysAt
<1> HIDE DEF rest
<1>5. CASE Promote(r)
  <2>1. /\ r.kid \in map /\ EntryOf(r.kid).size = r.size /\ queue' = <<r>> \o rest
        /\ outcome' = Outcome(r, "hit")
    BY <1>5 DEF Promote, rest
  <2>2. PICK i \in DOMAIN queue : queue[i] = EntryOf(r.kid) /\ queue[i].kid = r.kid
    BY <2>1, EntryIsIt
  <2>3. queue[i] = r
    <3>1. queue[i] \in Requests
      BY <1>1
    <3> QED BY <2>1, <2>2, <3>1 DEF Requests
  <2>4. r \in ToSet(queue)
    BY <2>3 DEF ToSet
  <2>5. \A e \in ToSet(queue) : e.kid = r.kid => e = r
    BY <1>1, <2>2, <2>3 DEF ToSet, Distinct
  <2>6. ToSet(queue') = {r} \union ToSet(rest)
    BY <1>2, <2>1, FrontSet
  <2>7. ToSet(queue') = ToSet(queue)
    BY <1>3, <2>4, <2>5, <2>6
  <2> QED BY <2>1, <2>4, <2>7 DEF Finds
<1>6. CASE Resize(r)
  <2>1. /\ r.kid \in map /\ EntryOf(r.kid).size # r.size
        /\ AddTo(rest, map \ {r.kid}, bytes_cached - EntryOf(r.kid).size, r)
    BY <1>6 DEF Resize, rest
  <2>2. PICK i \in DOMAIN queue : queue[i] = EntryOf(r.kid) /\ queue[i].kid = r.kid
    BY <2>1, EntryIsIt
  <2>3. SizeOf(rest) \in Nat /\ queue[i].size \in Nat
    BY <1>1, <1>2, RequestAt, BytesAtPlaces DEF SizeOf
  <2>4. map \ {r.kid} = KeysOf(rest) /\ bytes_cached - EntryOf(r.kid).size = SizeOf(rest)
    BY <1>1, <1>2, <2>2, <2>3
  <2>5. AddTo(rest, KeysOf(rest), SizeOf(rest), r)
    BY <2>1, <2>4
  <2>6. r \notin ToSet(queue)
    BY <1>1, <2>1, <2>2 DEF Distinct, ToSet
  <2>7. \/ outcome' = Outcome(r, "miss") /\ ToSet(queue') \subseteq {r} \union ToSet(rest)
           /\ r \in ToSet(queue')
        \/ outcome' = Outcome(r, "rejected") /\ ToSet(queue') \subseteq ToSet(rest)
    BY <1>1, <1>2, <2>5, AddServes
  <2> QED BY <1>3, <2>6, <2>7 DEF Finds
<1>7. CASE Add(r)
  <2>1. r.kid \notin KeysOf(queue) /\ AddTo(queue, KeysOf(queue), SizeOf(queue), r)
    BY <1>1, <1>7 DEF Add
  <2>2. \/ outcome' = Outcome(r, "miss") /\ ToSet(queue') \subseteq {r} \union ToSet(queue)
           /\ r \in ToSet(queue')
        \/ outcome' = Outcome(r, "rejected") /\ ToSet(queue') \subseteq ToSet(queue)
    BY <1>1, <2>1, AddServes
  <2> QED BY <1>4, <2>1, <2>2 DEF Finds
<1> QED BY <1>5, <1>6, <1>7 DEF Proc

LEMMA TailServes ==
  ASSUME SizesAssumption, QueueInv, NEW r \in Requests, TryAddTail(r)
  PROVE  Finds(r)
<1>1. queue \in Seq(Requests) /\ map = KeysOf(queue) /\ r.kid \notin map
  BY DEF QueueInv, IsRight, TryAddTail
<1>2. \A e \in ToSet(queue) : e.kid # r.kid
  BY <1>1 DEF ToSet, KeysOf, KeysAt
<1>3. CASE queue' = Append(queue, r) /\ outcome' = Outcome(r, "miss")
  <2> DEFINE n == Len(queue)
  <2>1. /\ queue' \in Seq(Requests) /\ Len(queue') = n + 1 /\ queue'[n + 1] = r
        /\ \A i \in 1 .. n : queue'[i] = queue[i]
    BY <1>1, <1>3, AppendProperties
  <2>2. n \in Nat /\ DOMAIN queue = 1 .. n
    BY <1>1, RequestAt
  <2> HIDE DEF n
  <2>3. DOMAIN queue' = 1 .. n + 1
    BY <2>1, RequestAt
  <2>4. n + 1 \in 1 .. n + 1 /\ \A i \in 1 .. n + 1 : i = n + 1 \/ i \in 1 .. n
    BY <2>2
  <2>5. r \in ToSet(queue') /\ \A e \in ToSet(queue') : e = r \/ e \in ToSet(queue)
    BY <2>1, <2>2, <2>3, <2>4 DEF ToSet
  <2> QED BY <1>2, <1>3, <2>5 DEF Finds
<1>4. CASE queue' = queue /\ outcome' = Outcome(r, "rejected")
  BY <1>4 DEF Finds
<1> QED BY <1>3, <1>4 DEF TryAddTail

LEMMA RemoveServes ==
  ASSUME SizesAssumption, QueueInv, NEW k \in Keys, RemoveKey(k)
  PROVE  outcome' = outcome /\ ToSet(queue') \subseteq ToSet(queue)
<1>1. outcome' = outcome /\ (queue' = queue \/ queue' = Drop(queue, k))
  BY DEF RemoveKey
<1>2. queue \in Seq(Requests)
  BY DEF QueueInv, IsRight
<1> QED BY <1>1, <1>2, DroppedSet

(* What the replay loop sees of a queue that is right. *)
LEMMA ContentsAre ==
  ASSUME SizesAssumption, QueueInv
  PROVE  /\ DOMAIN Contents = {e.kid : e \in ToSet(queue)}
         /\ \A e \in ToSet(queue) : Contents[e.kid] = e.size
<1>1. queue \in Seq(Requests) /\ map = KeysOf(queue) /\ Distinct(queue)
  BY DEF QueueInv, IsRight
<1>2. KeysOf(queue) = {e.kid : e \in ToSet(queue)}
  BY DEF KeysOf, KeysAt, ToSet
<1>3. ASSUME NEW e \in ToSet(queue) PROVE EntryOf(e.kid) = e
  <2>1. e.kid \in map
    BY <1>1, <1>2
  <2>2. PICK i \in DOMAIN queue : queue[i] = EntryOf(e.kid) /\ queue[i].kid = e.kid
    BY <2>1, EntryIsIt
  <2> QED BY <1>1, <2>2 DEF Distinct, ToSet
<1> QED BY <1>1, <1>2, <1>3 DEF Contents

-------------------------------------------------------------------------------
(* Queues of different size over one trace.                                *)
LEMMA PrefixAt ==
  ASSUME SizesAssumption, NEW p \in Seq(Requests), NEW q \in Seq(Requests)
  PROVE  IsPrefix(p, q) <=> Len(p) =< Len(q) /\ \A i \in 1 .. Len(p) : p[i] = q[i]
<1> DEFINE n == Len(p)
<1>1. n \in Nat /\ Len(q) \in Nat
  BY RequestAt
<1>2. SubSeq(p, 1, n) = p
  BY SubSeqFull
<1>3. ASSUME n =< Len(q)
      PROVE  /\ SubSeq(q, 1, n) \in Seq(Requests) /\ Len(SubSeq(q, 1, n)) = n
             /\ \A i \in 1 .. n : SubSeq(q, 1, n)[i] = q[i]
  <2>1. n \in 0 .. Len(q)
    BY <1>1, <1>3
  <2> QED BY <2>1, NewestOf
<1>4. ASSUME n =< Len(q), \A i \in 1 .. n : p[i] = q[i] PROVE SubSeq(q, 1, n) = p
  <2> DEFINE s == SubSeq(q, 1, n)
  <2>1. s \in Seq(Requests) /\ Len(s) = n /\ \A i \in 1 .. n : s[i] = p[i]
    BY <1>3, <1>4
  <2> HIDE DEF s, n
  <2>2. Len(s) = Len(p) /\ \A i \in 1 .. Len(s) : s[i] = p[i]
    BY <2>1 DEF n
  <2>3. s = p
    BY <2>1, <2>2, SeqEqual
  <2> QED BY <2>3 DEF s
<1>5. ASSUME n =< Len(q), p = SubSeq(q, 1, n) PROVE \A i \in 1 .. n : p[i] = q[i]
  BY <1>3, <1>5
<1> QED BY <1>2, <1>4, <1>5 DEF IsPrefix

LEMMA PrefixTransitive ==
  ASSUME SizesAssumption, NEW p \in Seq(Requests), NEW q \in Seq(Requests), NEW s \in Seq(Requests),
         IsPrefix(p, q), IsPrefix(q, s)
  PROVE  IsPrefix(p, s)
<1>1. /\ Len(p) =< Len(q) /\ \A i \in 1 .. Len(p) : p[i] = q[i]
      /\ Len(q) =< Len(s) /\ \A i \in 1 .. Len(q) : q[i] = s[i]
      /\ Len(p) \in Nat /\ Len(q) \in Nat /\ Len(s) \in Nat
  BY PrefixAt, RequestAt
<1>2. Len(p) =< Len(s) /\ \A i \in 1 .. Len(p) : p[i] = s[i]
  BY <1>1
<1> QED BY <1>2, PrefixAt

LEMMA DropPrefix ==
  ASSUME SizesAssumption, NEW p \in Seq(Requests), NEW q \in Seq(Requests), Distinct(q),
         IsPrefix(p, q), NEW k
  PROVE  Distinct(p) /\ IsPrefix(Drop(p, k), Drop(q, k))
<1> DEFINE n == Len(p)
           m == Len(q)
           a == Drop(p, k)
           b == Drop(q, k)
<1>1. n \in Nat /\ m \in Nat /\ DOMAIN p = 1 .. n /\ DOMAIN q = 1 .. m
  BY RequestAt
<1>2. n =< m /\ \A i \in 1 .. n : p[i] = q[i] /\ i \in 1 .. m
  <2>1. n =< m /\ \A i \in 1 .. n : p[i] = q[i]
    BY PrefixAt
  <2> QED BY <1>1, <2>1
<1>3. Distinct(p)
  BY <1>1, <1>2 DEF Distinct
<1>4. PICK j : IsPlaceOf(j, q, k)
  BY PlaceExists
<1> DEFINE l == IF j =< n THEN j ELSE n + 1
<1>5. j \in 1 .. m + 1 /\ \A i \in 1 .. m : q[i].kid = k <=> i = j
  BY <1>4 DEF IsPlaceOf
<1> HIDE DEF n, m
<1>6. IsPlaceOf(l, p, k)
  <2>1. l \in 1 .. n + 1 /\ \A i \in 1 .. n : i = l <=> i = j
    BY <1>1, <1>2, <1>5
  <2> HIDE DEF l
  <2> QED BY <1>2, <1>5, <2>1 DEF IsPlaceOf, n
<1>7. /\ a \in Seq(Requests) /\ Len(a) = IF l =< n THEN n - 1 ELSE n
      /\ \A i \in 1 .. Len(a) : a[i] = p[IF i < l THEN i ELSE i + 1]
      /\ \A i \in 1 .. Len(a) : (IF i < l THEN i ELSE i + 1) \in 1 .. n
  BY <1>6, DropCuts, CutPlaces DEF n
<1>8. /\ b \in Seq(Requests) /\ Len(b) = IF j =< m THEN m - 1 ELSE m
      /\ \A i \in 1 .. Len(b) : b[i] = q[IF i < j THEN i ELSE i + 1]
  BY <1>4, DropCuts, CutPlaces DEF m
<1> HIDE DEF a, b
<1>9. Len(a) =< Len(b) /\ Len(a) \in Nat /\ Len(b) \in Nat
  BY <1>1, <1>2, <1>5, <1>7, <1>8
<1>10. ASSUME NEW i \in 1 .. Len(a) PROVE a[i] = b[i]
  <2>1. i \in 1 .. Len(b)
    BY <1>9
  <2>2. (IF i < l THEN i ELSE i + 1) = (IF i < j THEN i ELSE i + 1)
    BY <1>1, <1>5, <1>7, <1>9
  <2> DEFINE x == IF i < l THEN i ELSE i + 1
             y == IF i < j THEN i ELSE i + 1
  <2>3. a[i] = p[x] /\ b[i] = q[y] /\ x \in 1 .. n
    BY <1>7, <1>8, <2>1
  <2>4. x = y
    BY <2>2
  <2> HIDE DEF x, y
  <2> QED BY <1>2, <2>3, <2>4
<1>11. IsPrefix(a, b)
  BY <1>7, <1>8, <1>9, <1>10, PrefixAt
<1> QED BY <1>3, <1>11 DEF a, b

(* The front of a queue is a prefix of it, also behind a new request.      *)
LEMMA FilledPrefix ==
  ASSUME SizesAssumption, NEW q \in Seq(Requests), NEW s \in Seq(Requests), IsPrefix(q, s),
         NEW r \in Requests, NEW mem, NEW p, IsFilled(p, q, r, mem)
  PROVE  p \in Seq(Requests) /\ IsPrefix(p, <<r>> \o s)
<1> DEFINE t == <<r>> \o s
<1>1. t \in Seq(Requests) /\ Len(t) = Len(s) + 1 /\ t[1] = r /\ \A i \in 1 .. Len(s) : t[i + 1] = s[i]
  BY InFront
<1> HIDE DEF t
<1>2. Len(q) \in Nat /\ Len(s) \in Nat
  BY RequestAt
<1>3. Len(q) =< Len(s) /\ \A i \in 1 .. Len(q) : q[i] = s[i]
  BY PrefixAt
<1>4. CASE p = <<>>
  <2>1. p \in Seq(Requests) /\ Len(p) = 0
    BY <1>4
  <2>2. Len(p) =< Len(t) /\ \A i \in 1 .. Len(p) : p[i] = t[i]
    BY <1>1, <1>2, <2>1
  <2>3. IsPrefix(p, t)
    BY <1>1, <2>1, <2>2, PrefixAt
  <2> QED BY <2>1, <2>3 DEF t
<1>5. ASSUME NEW n \in 0 .. Len(q), p = <<r>> \o SubSeq(q, 1, n)
      PROVE  p \in Seq(Requests) /\ IsPrefix(p, t)
  <2> DEFINE a == SubSeq(q, 1, n)
  <2>1. a \in Seq(Requests) /\ Len(a) = n /\ \A i \in 1 .. n : a[i] = q[i]
    BY NewestOf
  <2> HIDE DEF a
  <2>2. /\ p \in Seq(Requests) /\ Len(p) = n + 1
        /\ p[1] = r /\ \A i \in 1 .. n : p[i + 1] = a[i]
    BY <1>5, <2>1, InFront DEF a
  <2>3. ASSUME NEW i \in 1 .. n + 1 PROVE p[i] = t[i]
    <3>1. CASE i = 1
      BY <1>1, <2>2, <3>1
    <3>2. CASE i # 1
      <4> DEFINE l == i - 1
      <4>1. l \in 1 .. n /\ l \in 1 .. Len(q) /\ l \in 1 .. Len(s) /\ l + 1 = i
        BY <1>2, <1>3, <3>2
      <4> HIDE DEF l
      <4>2. p[l + 1] = t[l + 1]
        BY <1>1, <1>3, <2>1, <2>2, <4>1
      <4> QED BY <4>1, <4>2
    <3> QED BY <3>1, <3>2
  <2>4. Len(p) =< Len(t)
    BY <1>1, <1>2, <1>3, <2>2
  <2> QED BY <1>1, <2>2, <2>3, <2>4, PrefixAt
<1> QED BY <1>4, <1>5 DEF IsFilled, t

(* The larger of two queues keeps all that the smaller one keeps.          *)
LEMMA LargerKeepsMore ==
  ASSUME SizesAssumption, NEW a \in Seq(Requests), NEW b \in Seq(Requests), IsPrefix(a, b),
         NEW r \in Requests, NEW mem \in Nat, NEW mem2 \in Nat, mem =< mem2,
         NEW p, IsFilled(p, a, r, mem), NEW q, IsFilled(q, b, r, mem2)
  PROVE  IsPrefix(p, q)
<1>1. Len(a) \in Nat /\ Len(b) \in Nat /\ DOMAIN a = 1 .. Len(a) /\ DOMAIN b = 1 .. Len(b)
  BY RequestAt
<1>2. Len(a) =< Len(b) /\ \A i \in 1 .. Len(a) : a[i] = b[i]
  BY PrefixAt
<1>3. p \in Seq(Requests) /\ q \in Seq(Requests)
  <2>1. IsPrefix(b, b)
    BY DEF IsPrefix
  <2> QED BY <2>1, FilledPrefix
<1>4. r.size \in Nat
  BY RequestType
<1>5. CASE p = <<>>
  <2>1. Len(p) = 0 /\ Len(q) \in Nat
    BY <1>3, <1>5
  <2>2. Len(p) =< Len(q) /\ \A i \in 1 .. Len(p) : p[i] = q[i]
    BY <2>1
  <2> QED BY <1>3, <2>2, PrefixAt
<1>6. CASE p # <<>>
  <2>1. ~ (r.size > mem)
    BY <1>6 DEF IsFilled
  <2>2. PICK n \in 0 .. Len(a) : p = <<r>> \o SubSeq(a, 1, n) /\ Fits(a, n, r, mem)
    BY <2>1 DEF IsFilled
  <2>3. ~ (r.size > mem2)
    BY <1>4, <2>1
  <2>4. PICK m \in 0 .. Len(b) : /\ q = <<r>> \o SubSeq(b, 1, m)
                                 /\ \A l \in m + 1 .. Len(b) : ~ Fits(b, l, r, mem2)
    BY <2>3 DEF IsFilled
  <2>5. BytesAt(a, 1 .. n) = BytesAt(b, 1 .. n)
    BY <1>1, <1>2, SameDepth
  <2>6. Fits(b, n, r, mem2)
    <3>1. BytesAt(a, 1 .. n) \in Nat
      BY NewestOf
    <3> DEFINE x == BytesAt(a, 1 .. n)
    <3>2. x \in Nat /\ x + r.size =< mem
      BY <2>2, <3>1 DEF Fits
    <3> HIDE DEF x
    <3>3. x + r.size =< mem2
      BY <1>4, <3>2
    <3> QED BY <2>5, <3>3 DEF Fits, x
  <2>7. n =< m /\ n \in 0 .. Len(b)
    BY <1>1, <1>2, <2>4, <2>6
  <2> DEFINE c == SubSeq(a, 1, n)
             d == SubSeq(b, 1, m)
  <2>8. /\ c \in Seq(Requests) /\ Len(c) = n /\ \A i \in 1 .. n : c[i] = a[i]
        /\ d \in Seq(Requests) /\ Len(d) = m /\ \A i \in 1 .. m : d[i] = b[i]
    BY NewestOf
  <2> HIDE DEF c, d
  <2>9. /\ Len(p) = n + 1 /\ p[1] = r /\ \A i \in 1 .. n : p[i + 1] = c[i]
        /\ Len(q) = m + 1 /\ q[1] = r /\ \A i \in 1 .. m : q[i + 1] = d[i]
    BY <2>2, <2>4, <2>8, InFront DEF c, d
  <2>10. ASSUME NEW i \in 1 .. n + 1 PROVE p[i] = q[i]
    <3>1. CASE i = 1
      BY <2>9, <3>1
    <3>2. CASE i # 1
      <4> DEFINE l == i - 1
      <4>1. l \in 1 .. n /\ l \in 1 .. m /\ l \in 1 .. Len(a) /\ l + 1 = i
        BY <1>1, <2>7, <3>2
      <4> HIDE DEF l
      <4>2. p[l + 1] = c[l] /\ q[l + 1] = d[l]
        BY <2>9, <4>1
      <4>3. c[l] = a[l] /\ d[l] = b[l]
        BY <2>8, <4>1
      <4>4. a[l] = b[l]
        BY <1>2, <4>1
      <4>5. p[l + 1] = q[l + 1]
        BY <4>2, <4>3, <4>4
      <4> QED BY <4>1, <4>5
    <3> QED BY <3>1, <3>2
  <2>11. Len(p) =< Len(q)
    BY <1>1, <2>7, <2>9
  <2> QED BY <1>3, <2>9, <2>10, <2>11, PrefixAt
<1> QED BY <1>5, <1>6

-------------------------------------------------------------------------------
(* When all objects have one size, an LRU queue is crowded: the shadow     *)
(* queue next to it has no place that would fit and is not in the queue.   *)
Uniform(s, size) == \A i \in 1 .. Len(s) : s[i].size = size
Crowded(q, s, mem) == \A n \in Len(q) + 1 .. Len(s) : BytesAt(s, 1 .. n) > mem

(* The first place behind the queue decides. *)
LEMMA CrowdedAt ==
  ASSUME SizesAssumption, NEW q \in Seq(Requests), NEW s \in Seq(Requests), NEW mem \in Nat,
         Len(q) + 1 =< Len(s) => BytesAt(s, 1 .. Len(q) + 1) > mem
  PROVE  Crowded(q, s, mem)
<1> SUFFICES ASSUME NEW n \in Len(q) + 1 .. Len(s) PROVE BytesAt(s, 1 .. n) > mem
  BY DEF Crowded
<1> DEFINE m == Len(q) + 1
<1>1. Len(q) \in Nat /\ Len(s) \in Nat
  BY RequestAt
<1>2. m \in 1 .. Len(s) /\ n \in m .. Len(s) /\ n \in 1 .. Len(s)
  BY <1>1
<1>3. BytesAt(s, 1 .. m) > mem
  BY <1>1
<1> HIDE DEF m
<1>4. BytesAt(s, 1 .. m) =< BytesAt(s, 1 .. n)
  BY <1>2, DepthGrows
<1>5. BytesAt(s, 1 .. m) \in Nat /\ BytesAt(s, 1 .. n) \in Nat
  BY <1>2, NewestOf
<1> QED BY <1>3, <1>4, <1>5

LEMMA StaysCrowded ==
  ASSUME SizesAssumption, NEW q \in Seq(Requests), NEW s \in Seq(Requests), Distinct(s),
         IsPrefix(q, s), NEW r \in Requests, Uniform(s, r.size), NEW mem \in Nat,
         Crowded(q, s, mem), NEW p, IsFilled(p, Drop(q, r.kid), r, mem)
  PROVE  Crowded(p, <<r>> \o Drop(s, r.kid), mem)
<1> DEFINE a == Drop(q, r.kid)
           b == Drop(s, r.kid)
           t == <<r>> \o b
<1>1. Len(q) \in Nat /\ Len(s) \in Nat /\ Len(q) =< Len(s) /\ \A i \in 1 .. Len(q) : q[i] = s[i]
  BY RequestAt, PrefixAt
<1>2. /\ a \in Seq(Requests) /\ b \in Seq(Requests) /\ IsPrefix(a, b)
      /\ Len(a) \in Nat /\ Len(b) \in Nat /\ Len(a) =< Len(b)
      /\ \A i \in 1 .. Len(a) : a[i] = b[i]
  <2>1. Distinct(q) /\ IsPrefix(a, b)
    BY DropPrefix
  <2>2. a \in Seq(Requests) /\ b \in Seq(Requests)
    BY <2>1, Dropped
  <2> HIDE DEF a, b
  <2> QED BY <2>1, <2>2, RequestAt, PrefixAt
<1>3. /\ t \in Seq(Requests) /\ Len(t) = Len(b) + 1 /\ t[1] = r
      /\ \A i \in 1 .. Len(b) : t[i + 1] = b[i]
  BY <1>2, InFront
<1>4. p \in Seq(Requests) /\ Len(p) \in Nat
  <2>1. p \in Seq(Requests)
    BY <1>2, FilledPrefix
  <2> QED BY <2>1, RequestAt
<1>5. PICK j : IsPlaceOf(j, s, r.kid)
  BY PlaceExists
<1> DEFINE l == IF j =< Len(q) THEN j ELSE Len(q) + 1
<1>6. j \in 1 .. Len(s) + 1 /\ \A i \in 1 .. Len(s) : s[i].kid = r.kid <=> i = j
  BY <1>5 DEF IsPlaceOf
<1>7. IsPlaceOf(l, q, r.kid)
  <2>1. l \in 1 .. Len(q) + 1 /\ \A i \in 1 .. Len(q) : i = l <=> i = j
    BY <1>1, <1>6
  <2>2. \A i \in 1 .. Len(q) : i \in 1 .. Len(s)
    BY <1>1
  <2> HIDE DEF l
  <2> QED BY <1>1, <1>6, <2>1, <2>2 DEF IsPlaceOf
<1>8. /\ Len(a) = IF l =< Len(q) THEN Len(q) - 1 ELSE Len(q)
      /\ Len(b) = IF j =< Len(s) THEN Len(s) - 1 ELSE Len(s)
      /\ \A i \in 1 .. Len(b) : b[i] = s[IF i < j THEN i ELSE i + 1]
      /\ \A i \in 1 .. Len(b) : (IF i < j THEN i ELSE i + 1) \in 1 .. Len(s)
  BY <1>5, <1>7, DropCuts, CutPlaces
<1>9. r.size \in Nat /\ r.size > 0
  BY RequestType
<1> HIDE DEF a, b
<1>10. \A i \in 1 .. Len(b) : b[i].size = r.size
  BY <1>8 DEF Uniform
<1> HIDE DEF t
<1>11. \A i \in 1 .. Len(t) : t[i].size = r.size
  <2> SUFFICES ASSUME NEW i \in 1 .. Len(t) PROVE t[i].size = r.size
    OBVIOUS
  <2>1. CASE i = 1
    BY <1>3, <2>1
  <2>2. CASE i # 1
    <3> DEFINE h == i - 1
    <3>1. h \in 1 .. Len(b) /\ h + 1 = i
      BY <1>2, <1>3, <2>2
    <3> HIDE DEF h
    <3>2. t[h + 1].size = r.size
      BY <1>3, <1>10, <3>1
    <3> QED BY <3>1, <3>2
  <2> QED BY <2>1, <2>2
<1>12. ASSUME NEW n \in Nat, n =< Len(s), n =< Len(t)
       PROVE  BytesAt(s, 1 .. n) = BytesAt(t, 1 .. n)
  <2>1. \A i \in 1 .. n : s[i].size = t[i].size
    BY <1>1, <1>2, <1>3, <1>11, <1>12 DEF Uniform
  <2> QED BY <1>3, <1>12, <2>1, SameDepth
<1>13. ASSUME Len(p) + 1 =< Len(t) PROVE BytesAt(t, 1 .. Len(p) + 1) > mem
  <2>1. CASE r.size > mem
    <3>1. Len(p) = 0 /\ 1 \in 1 .. Len(t) /\ Len(p) + 1 = 1
      BY <1>2, <1>3, <2>1 DEF IsFilled
    <3>2. /\ BytesAt(t, 1 .. 1) = BytesAt(t, 1 .. 1 - 1) + t[1].size
          /\ BytesAt(t, 1 .. 1 - 1) \in Nat
      BY <1>3, <3>1, DepthGrows
    <3> QED BY <1>3, <1>9, <2>1, <3>1, <3>2
  <2>2. CASE ~ (r.size > mem)
    <3>1. PICK n \in 0 .. Len(a) : /\ p = <<r>> \o SubSeq(a, 1, n)
                                   /\ \A m \in n + 1 .. Len(a) : ~ Fits(a, m, r, mem)
      BY <2>2 DEF IsFilled, a
    <3>2. Len(p) = n + 1 /\ n \in Nat
      BY <1>2, <3>1, NewestOf, InFront
    <3>3. CASE n < Len(a)
      <4> DEFINE m == n + 1
      <4>1. m \in n + 1 .. Len(a) /\ m \in Nat /\ m =< Len(t) /\ m =< Len(a)
            /\ m + 1 \in 1 .. Len(t) /\ Len(p) + 1 = m + 1 /\ m + 1 - 1 = m
        BY <1>2, <1>3, <1>13, <3>2, <3>3
      <4> HIDE DEF m
      <4>2. \A i \in 1 .. m : a[i].size = t[i].size
        <5>1. \A i \in 1 .. m : i \in 1 .. Len(a) /\ i \in 1 .. Len(b) /\ i \in 1 .. Len(t)
          BY <1>2, <1>3, <4>1
        <5> QED BY <1>2, <1>10, <1>11, <5>1
      <4>3. BytesAt(a, 1 .. m) = BytesAt(t, 1 .. m)
        BY <1>2, <1>3, <4>1, <4>2, SameDepth
      <4>4. ~ (BytesAt(a, 1 .. m) + r.size =< mem)
        BY <3>1, <4>1 DEF Fits
      <4>5. BytesAt(t, 1 .. m + 1) = BytesAt(t, 1 .. m) + r.size /\ BytesAt(t, 1 .. m) \in Nat
        <5> DEFINE next == m + 1
        <5>1. next \in 1 .. Len(t) /\ next - 1 = m
          BY <4>1
        <5> HIDE DEF next
        <5>2. BytesAt(t, 1 .. next) = BytesAt(t, 1 .. next - 1) + t[next].size /\ BytesAt(t, 1 .. next - 1) \in Nat
          BY <1>3, <5>1, DepthGrows
        <5>3. BytesAt(t, 1 .. next) = BytesAt(t, 1 .. m) + r.size /\ BytesAt(t, 1 .. m) \in Nat
          BY <1>11, <5>1, <5>2
        <5> QED BY <5>3 DEF next
      <4> QED BY <1>9, <4>1, <4>3, <4>4, <4>5
    <3>4. CASE n = Len(a) /\ j =< Len(q)
      <4> DEFINE m == Len(q) + 1
      <4>1. m \in Len(q) + 1 .. Len(s) /\ m \in Nat /\ m =< Len(s) /\ m =< Len(t) /\ Len(p) + 1 = m
        BY <1>1, <1>2, <1>3, <1>6, <1>8, <1>13, <3>2, <3>4
      <4> HIDE DEF m
      <4>2. BytesAt(s, 1 .. m) > mem /\ BytesAt(s, 1 .. m) = BytesAt(t, 1 .. m)
        BY <1>12, <4>1 DEF Crowded
      <4> QED BY <4>1, <4>2
    <3>5. CASE n = Len(a) /\ ~ (j =< Len(q))
      <4> DEFINE m == Len(q) + 1
      <4>1. m \in Len(q) + 1 .. Len(s) /\ m \in Nat /\ m =< Len(s) /\ m =< Len(t)
            /\ m \in 1 .. Len(t) /\ Len(p) + 1 \in m .. Len(t) /\ Len(p) + 1 \in 0 .. Len(t)
            /\ m \in 0 .. Len(t)
        BY <1>1, <1>2, <1>3, <1>6, <1>8, <1>13, <3>2, <3>5
      <4> HIDE DEF m
      <4>2. BytesAt(s, 1 .. m) > mem /\ BytesAt(s, 1 .. m) = BytesAt(t, 1 .. m)
        BY <1>12, <4>1 DEF Crowded
      <4>3. BytesAt(t, 1 .. m) =< BytesAt(t, 1 .. Len(p) + 1)
        BY <1>3, <4>1, DepthGrows
      <4>4. BytesAt(t, 1 .. m) \in Nat /\ BytesAt(t, 1 .. Len(p) + 1) \in Nat
        BY <1>3, <4>1, NewestOf
      <4> QED BY <4>2, <4>3, <4>4
    <3> QED BY <1>2, <3>2, <3>3, <3>4, <3>5
  <2> QED BY <2>1, <2>2
<1> QED BY <1>3, <1>4, <1>13, CrowdedAt DEF t, b
===============================================================================
