------------------------- MODULE StackDistanceProofs -------------------------
(***************************************************************************)
(* What is proved of StackDistance.tla: the contents of a smaller LRU      *)
(* queue are a prefix of those of a larger one, and these a prefix of the  *)
(* shadow queue, for every set of keys and of sizes and every trace.  The  *)
(* facts about one LRU queue come from LruProofs.                          *)
(***************************************************************************)
EXTENDS StackDistance, QueueTheorems

SP == INSTANCE LruProofs WITH queue <- smallQ, map <- smallMap, outcome <- smallOutcome,
                              bytes_cached <- smallBytes, global_mem <- smallMem,
                              MemSizes <- {SmallMem}
LP == INSTANCE LruProofs WITH queue <- largeQ, map <- largeMap, outcome <- largeOutcome,
                              bytes_cached <- largeBytes, global_mem <- largeMem,
                              MemSizes <- {LargeMem}

-------------------------------------------------------------------------------
(* The operators of the instances are the same operators.                  *)

LEMMA SameSums ==
  \A q, I : /\ S!BytesAt(q, I) = SP!BytesAt(q, I) /\ LP!BytesAt(q, I) = L!BytesAt(q, I)
            /\ L!BytesAt(q, I) = SP!BytesAt(q, I) /\ D!BytesAt(q, I) = SP!BytesAt(q, I)
  BY DEF S!BytesAt, SP!BytesAt, L!BytesAt, LP!BytesAt, D!BytesAt,
         S!SumFunctionOnSet, SP!SumFunctionOnSet, L!SumFunctionOnSet, LP!SumFunctionOnSet,
         D!SumFunctionOnSet, S!FoldFunctionOnSet, SP!FoldFunctionOnSet, L!FoldFunctionOnSet,
         LP!FoldFunctionOnSet, D!FoldFunctionOnSet, S!MapThenFoldSet, SP!MapThenFoldSet,
         L!MapThenFoldSet, LP!MapThenFoldSet, D!MapThenFoldSet

LEMMA SameLists ==
  \A q, k : /\ S!Drop(q, k) = SP!Drop(q, k) /\ LP!Drop(q, k) = L!Drop(q, k)
            /\ L!Drop(q, k) = SP!Drop(q, k) /\ D!Drop(q, k) = SP!Drop(q, k)
  BY DEF S!Drop, SP!Drop, L!Drop, LP!Drop, D!Drop, S!Erase, SP!Erase, L!Erase, LP!Erase, D!Erase,
         S!ToSet, SP!ToSet, L!ToSet, LP!ToSet, D!ToSet

LEMMA SameSteps ==
  ASSUME NEW r
  PROVE  (S!Proc(r) => SP!Proc(r)) /\ (L!Proc(r) => LP!Proc(r))
<1>1. S!Proc(r) => SP!Proc(r)
  <2>1. \A q, b, n : S!Staying(q, b, n) = SP!Staying(q, b, n)
    BY SameSums DEF S!Staying, SP!Staying, S!Max, SP!Max
  <2>2. \A q, I : S!KeysAt(q, I) = SP!KeysAt(q, I)
    BY DEF S!KeysAt, SP!KeysAt
  <2>3. \A k : S!EntryOf(k) = SP!EntryOf(k)
    BY DEF S!EntryOf, SP!EntryOf, S!ToSet, SP!ToSet
  <2>4. \A result : S!Outcome(r, result) = SP!Outcome(r, result)
    BY DEF S!Outcome, SP!Outcome
  <2>5. ASSUME NEW q, NEW m, NEW b, S!AddTo(q, m, b, r)
        PROVE  SP!AddTo(q, m, b, r)
    BY <2>1, <2>2, <2>4, <2>5, SameSums DEF S!AddTo, SP!AddTo
  <2>6. S!Promote(r) => SP!Promote(r)
    BY <2>3, <2>4, SameLists DEF S!Promote, SP!Promote
  <2>7. S!Resize(r) => SP!Resize(r)
    BY <2>3, <2>5, SameLists DEF S!Resize, SP!Resize
  <2>8. S!Add(r) => SP!Add(r)
    BY <2>5 DEF S!Add, SP!Add
  <2> QED BY <2>6, <2>7, <2>8 DEF S!Proc, SP!Proc
<1>2. L!Proc(r) => LP!Proc(r)
  <2>1. \A q, b, n : L!Staying(q, b, n) = LP!Staying(q, b, n)
    BY SameSums DEF L!Staying, LP!Staying, L!Max, LP!Max
  <2>2. \A q, I : L!KeysAt(q, I) = LP!KeysAt(q, I)
    BY DEF L!KeysAt, LP!KeysAt
  <2>3. \A k : L!EntryOf(k) = LP!EntryOf(k)
    BY DEF L!EntryOf, LP!EntryOf, L!ToSet, LP!ToSet
  <2>4. \A result : L!Outcome(r, result) = LP!Outcome(r, result)
    BY DEF L!Outcome, LP!Outcome
  <2>5. ASSUME NEW q, NEW m, NEW b, L!AddTo(q, m, b, r)
        PROVE  LP!AddTo(q, m, b, r)
    BY <2>1, <2>2, <2>4, <2>5, SameSums DEF L!AddTo, LP!AddTo
  <2>6. L!Promote(r) => LP!Promote(r)
    BY <2>3, <2>4, SameLists DEF L!Promote, LP!Promote
  <2>7. L!Resize(r) => LP!Resize(r)
    BY <2>3, <2>5, SameLists DEF L!Resize, LP!Resize
  <2>8. L!Add(r) => LP!Add(r)
    BY <2>5 DEF L!Add, LP!Add
  <2> QED BY <2>6, <2>7, <2>8 DEF L!Proc, LP!Proc
<1> QED BY <1>1, <1>2

LEMMA SameSets ==
  \A T : /\ (D!IsFiniteSet(T) <=> IsFiniteSet(T)) /\ (SP!IsFiniteSet(T) <=> IsFiniteSet(T))
         /\ D!Cardinality(T) = Cardinality(T) /\ SP!Cardinality(T) = Cardinality(T)
  BY DEF D!IsFiniteSet, SP!IsFiniteSet, IsFiniteSet, D!Cardinality, SP!Cardinality, Cardinality

LEMMA SameTerms ==
  /\ \A q : S!KeysOf(q) = SP!KeysOf(q) /\ LP!KeysOf(q) = SP!KeysOf(q) /\ D!KeysOf(q) = SP!KeysOf(q)
  /\ \A p, q : SP!IsPrefix(p, q) <=> IsPrefix(p, q)
  /\ SP!Requests = [kid : Keys, size : Sizes] /\ LP!Requests = SP!Requests /\ D!Requests = SP!Requests
  /\ \A q : SP!Distinct(q) <=> LP!Distinct(q)
  /\ SP!SizesAssumption /\ LP!SizesAssumption
<1>1. \A q : S!KeysOf(q) = SP!KeysOf(q) /\ LP!KeysOf(q) = SP!KeysOf(q) /\ D!KeysOf(q) = SP!KeysOf(q)
  BY DEF S!KeysOf, SP!KeysOf, LP!KeysOf, D!KeysOf, S!KeysAt, SP!KeysAt, LP!KeysAt, D!KeysAt
<1>2. \A p, q : SP!IsPrefix(p, q) <=> IsPrefix(p, q)
  BY DEF SP!IsPrefix, IsPrefix
<1>3. /\ SP!Requests = [kid : Keys, size : Sizes]
      /\ LP!Requests = SP!Requests /\ D!Requests = SP!Requests
  BY DEF SP!Requests, LP!Requests, D!Requests
<1>4. \A q : SP!Distinct(q) <=> LP!Distinct(q)
  BY DEF SP!Distinct, LP!Distinct
<1>5. SP!SizesAssumption /\ LP!SizesAssumption
  BY QueueAssumptions DEF S!SizesAssumption, L!SizesAssumption, SP!SizesAssumption, LP!SizesAssumption
<1> QED BY <1>1, <1>2, <1>3, <1>4, <1>5

LEMMA SameFills ==
  \A p, q, r, mem : LP!IsFilled(p, q, r, mem) <=> SP!IsFilled(p, q, r, mem)
<1>1. \A q, n, r, mem : LP!Fits(q, n, r, mem) <=> SP!Fits(q, n, r, mem)
  BY SameSums DEF LP!Fits, SP!Fits
<1> QED BY <1>1, ZenonT(40) DEF LP!IsFilled, SP!IsFilled

-------------------------------------------------------------------------------
(* The inductive invariant: the two caches are consistent LRU queues, the  *)
(* shadow queue holds every key once, and Inclusion itself.                *)
StackInv ==
  /\ shadow \in Seq(SP!Requests) /\ SP!Distinct(shadow)
  /\ SP!QueueInv /\ smallMem = SmallMem
  /\ LP!QueueInv /\ largeMem = LargeMem
  /\ Inclusion

LEMMA StackInit == Init => StackInv
<1> SUFFICES ASSUME Init PROVE StackInv
  OBVIOUS
<1>1. D!Init /\ S!Init /\ L!Init
  BY DEF Init
<1>2. SP!Init /\ LP!Init
  BY <1>1 DEF S!Init, SP!Init, L!Init, LP!Init
<1>3. SP!QueueInv /\ LP!QueueInv
  BY <1>2, SameTerms, SP!EmptyIsRight, LP!EmptyIsRight
<1>4. shadow = <<>> /\ smallQ = <<>> /\ largeQ = <<>> /\ smallMem = SmallMem /\ largeMem = LargeMem
  BY <1>1 DEF D!Init, S!Init, L!Init
<1>5. Inclusion
  BY <1>4 DEF Inclusion, IsPrefix
<1>6. shadow \in Seq(SP!Requests) /\ SP!Distinct(shadow)
  BY <1>4 DEF SP!Distinct
<1> QED BY <1>3, <1>4, <1>5, <1>6 DEF StackInv

(* One request given to the three queues.                                  *)
LEMMA StackStep ==
  ASSUME StackInv, NEW r \in SP!Requests, D!Proc(r), S!Proc(r), L!Proc(r)
  PROVE  StackInv'
<1> USE SameTerms
<1> DEFINE k == r.kid
           rest == SP!Drop(shadow, k)
           a == SP!Drop(smallQ, k)
           b == SP!Drop(largeQ, k)
<1>1. /\ smallQ \in Seq(SP!Requests) /\ largeQ \in Seq(SP!Requests) /\ shadow \in Seq(SP!Requests)
      /\ SP!Distinct(smallQ) /\ SP!Distinct(largeQ) /\ SP!Distinct(shadow)
      /\ SmallMem \in Nat /\ LargeMem \in Nat /\ SmallMem =< LargeMem
      /\ smallMem = SmallMem /\ largeMem = LargeMem
      /\ SP!IsPrefix(smallQ, largeQ) /\ SP!IsPrefix(largeQ, shadow)
  BY SmallIsSmaller DEF StackInv, SP!QueueInv, LP!QueueInv, SP!IsRight, LP!IsRight, Inclusion
<1>2. /\ SP!QueueInv' /\ smallMem' = smallMem /\ SP!IsFilled(smallQ', a, r, SmallMem)
  BY <1>1, SameSteps, SP!ProcFills DEF StackInv
<1>3. /\ LP!QueueInv' /\ largeMem' = largeMem /\ SP!IsFilled(largeQ', b, r, LargeMem)
  BY <1>1, SameSteps, SameFills, SameLists, LP!ProcFills DEF StackInv
<1>4. shadow' = <<r>> \o rest
  BY SameLists DEF D!Proc
<1>5. /\ a \in Seq(SP!Requests) /\ b \in Seq(SP!Requests) /\ rest \in Seq(SP!Requests)
      /\ SP!Distinct(rest) /\ k \notin SP!KeysOf(rest)
  BY <1>1, SP!Dropped
<1>6. SP!IsPrefix(a, b) /\ SP!IsPrefix(b, rest)
  BY <1>1, SP!DropPrefix
<1> HIDE DEF rest, a, b
<1>7. SP!IsPrefix(smallQ', largeQ')
  BY <1>1, <1>2, <1>3, <1>5, <1>6, SP!LargerKeepsMore
<1>8. SP!IsPrefix(largeQ', shadow')
  BY <1>3, <1>4, <1>5, <1>6, SP!FilledPrefix
<1>9. Inclusion'
  BY <1>7, <1>8 DEF Inclusion
<1>10. shadow' \in Seq(SP!Requests) /\ SP!Distinct(shadow)'
  <2>1. <<r>> \o rest \in Seq(SP!Requests) /\ SP!Distinct(<<r>> \o rest)
    BY <1>5, SP!InFront
  <2> QED BY <1>4, <2>1 DEF SP!Distinct
<1> QED BY <1>1, <1>2, <1>3, <1>9, <1>10 DEF StackInv

LEMMA StackKept == StackInv /\ [Next]_vars => StackInv'
<1> SUFFICES ASSUME StackInv, [Next]_vars PROVE StackInv'
  OBVIOUS
<1>1. CASE UNCHANGED vars
  BY <1>1 DEF vars, smallVars, largeVars, StackInv, Inclusion, SP!QueueInv, LP!QueueInv,
              SP!IsRight, LP!IsRight, SP!Distinct
<1>2. CASE Next
  <2>1. PICK r \in D!Requests : D!Proc(r) /\ S!Proc(r) /\ L!Proc(r)
    BY <1>2 DEF Next
  <2> QED BY <2>1, StackStep, SameTerms
<1> QED BY <1>1, <1>2

(* The contents of the smaller LRU queue are the newest end of those of    *)
(* the larger one, and these the newest end of the shadow queue, after     *)
(* every request and for every size the two caches may have: proc and add  *)
(* of lru.cpp make room from the old end only, and by bytes alone.         *)
THEOREM SmallerIsInLarger == Spec => []Inclusion
<1>1. StackInv => Inclusion
  BY DEF StackInv
<1> QED BY <1>1, StackInit, StackKept, PTL DEF Spec

-------------------------------------------------------------------------------
(* Place and distance of a key in the shadow queue.                        *)

LEMMA LargestOf ==
  D!WrapAssumption /\ Sizes # {} =>
    D!Max(Sizes) \in Nat /\ \A s \in Sizes : s =< D!Max(Sizes)
<1> SUFFICES ASSUME D!WrapAssumption, Sizes # {}
             PROVE  D!Max(Sizes) \in Nat /\ \A s \in Sizes : s =< D!Max(Sizes)
  OBVIOUS
<1>1. IsFiniteSet(Sizes) /\ \A s \in Sizes : s \in Nat
  BY SameSets DEF D!WrapAssumption
<1> DEFINE f == [s \in Sizes |-> s]
           n == SumFunctionOnSet(f, Sizes)
<1>2. \A s \in Sizes : f[s] \in Nat /\ f[s] = s
  BY <1>1
<1> HIDE DEF f
<1>3. n \in Nat /\ \A s \in Sizes : f[s] =< n
  BY <1>1, <1>2, SumNat
<1> HIDE DEF n
<1>4. \A s \in Sizes : s \in 0 .. n
  BY <1>1, <1>2, <1>3
<1>5. Max(Sizes) \in Sizes /\ \A s \in Sizes : s =< Max(Sizes)
  BY <1>3, <1>4, GreatestElement
<1>6. D!Max(Sizes) = Max(Sizes)
  BY DEF D!Max, Max
<1> QED BY <1>1, <1>5, <1>6

LEMMA PlaceIsIt ==
  ASSUME NEW k, shadow \in Seq(SP!Requests), SP!Distinct(shadow)
  PROVE  SP!IsPlaceOf(D!PlaceOf(shadow, k), shadow, k)
<1>1. PICK j : SP!IsPlaceOf(j, shadow, k)
  BY SP!PlaceExists, SameTerms
<1>2. DOMAIN shadow = 1 .. Len(shadow) /\ Len(shadow) \in Nat
  BY SP!RequestAt, SameTerms
<1> DEFINE places == {Len(shadow) + 1} \union {i \in DOMAIN shadow : shadow[i].kid = k}
<1>3. j \in Nat /\ j \in places /\ \A i \in places : i \in Nat /\ j =< i
  BY <1>1, <1>2 DEF SP!IsPlaceOf
<1>4. D!PlaceOf(shadow, k) = CHOOSE m \in places : \A i \in places : m =< i
  BY DEF D!PlaceOf, D!Min
<1> HIDE DEF places
<1>5. (CHOOSE m \in places : \A i \in places : m =< i) = j
  <2> DEFINE least == CHOOSE m \in places : \A i \in places : m =< i
  <2>1. least \in places /\ \A i \in places : least =< i
    BY <1>3
  <2> HIDE DEF least
  <2>2. least = j
    BY <1>3, <2>1
  <2> QED BY <2>2 DEF least
<1> QED BY <1>1, <1>4, <1>5

LEMMA PlaceIsAt ==
  ASSUME shadow \in Seq(SP!Requests), SP!Distinct(shadow), NEW k,
         NEW i \in 1 .. Len(shadow), shadow[i].kid = k
  PROVE  D!PlaceOf(shadow, k) = i
<1> DEFINE j == D!PlaceOf(shadow, k)
<1>1. SP!IsPlaceOf(j, shadow, k)
  BY PlaceIsIt
<1> HIDE DEF j
<1>2. j = i
  BY <1>1 DEF SP!IsPlaceOf
<1> QED BY <1>2 DEF j

(* What a request records: the depth of the object less one byte, where    *)
(* the depth of a new key is that of the whole queue; a hit unless that    *)
(* is nothing.                                                             *)
LEMMA WhatIsRecorded ==
  ASSUME shadow \in Seq(SP!Requests), SP!Distinct(shadow),
         NEW r \in SP!Requests, D!Proc(r), NEW j, j = D!PlaceOf(shadow, r.kid),
         NEW n, n = IF j =< Len(shadow) THEN j ELSE Len(shadow)
  PROVE  /\ n \in 0 .. Len(shadow) /\ SP!BytesAt(shadow, 1 .. n) \in Nat
         /\ curve'.entry = "hit" => curve'.at = SP!BytesAt(shadow, 1 .. n) - 1
         /\ SP!BytesAt(shadow, 1 .. n) # 0 => curve'.entry = "hit"
<1> DEFINE depth == SP!BytesAt(shadow, 1 .. n)
           most == D!Max(Sizes)
<1>1. DOMAIN shadow = 1 .. Len(shadow) /\ Len(shadow) \in Nat
  BY SP!RequestAt, SameTerms
<1> DEFINE len == Len(shadow)
<1>2. len \in Nat /\ j \in 1 .. len + 1 /\ n = IF j =< len THEN j ELSE len
  BY <1>1, PlaceIsIt DEF SP!IsPlaceOf
<1> HIDE DEF len
<1>3. n \in 0 .. len /\ n \in Nat /\ n =< j /\ n =< len /\ (n = j \/ n = len) /\ j \in Nat
  BY ONLY <1>2
<1>4. n \in 0 .. Len(shadow)
  BY <1>3 DEF len
<1>5. D!Min({j, Len(shadow)}) = n
  <2>1. n \in {j, Len(shadow)} /\ \A i \in {j, Len(shadow)} : i \in Nat /\ n =< i
    BY <1>1, <1>2, <1>3 DEF len
  <2> DEFINE places == {j, Len(shadow)}
             least == CHOOSE m \in places : \A i \in places : m =< i
  <2>2. D!Min(places) = least
    BY DEF D!Min
  <2> HIDE DEF places
  <2>3. least \in places /\ \A i \in places : least =< i
    BY <2>1 DEF places
  <2> HIDE DEF least
  <2>4. least = n
    BY <2>1, <2>3 DEF places
  <2> QED BY <2>2, <2>4 DEF places
<1>6. D!SizeDistance(shadow, r.kid) = (Wrap - 1 + depth) % Wrap
  BY <1>5, SameSums DEF D!SizeDistance, D!PROC_MISS
<1>7. most \in Nat /\ \A s \in Sizes : s =< most
  <2>1. Sizes # {}
    BY SameTerms
  <2> QED BY <2>1, QueueAssumptions, LargestOf
<1>8. depth \in Nat /\ depth =< Cardinality(Keys) * most
  <2>1. SP!IsFiniteSet(Keys) /\ SP!Cardinality(Keys) = Cardinality(Keys)
    BY QueueAssumptions, SameSets DEF D!WrapAssumption
  <2> QED BY <1>4, <1>7, <2>1, SP!DepthIsBounded, SameTerms
<1>9. Wrap \in Nat /\ Wrap > Cardinality(Keys) * most + 1 /\ Cardinality(Keys) \in Nat
  BY QueueAssumptions, SameSets, FS_CardinalityType DEF D!WrapAssumption
<1>10. curve' = IF D!SizeDistance(shadow, r.kid) # Wrap - 1
                 THEN [entry |-> "hit", at |-> D!SizeDistance(shadow, r.kid)] ELSE [entry |-> "miss"]
  BY DEF D!Proc, D!Record, D!PROC_MISS
<1> HIDE DEF depth, most
<1>11. Cardinality(Keys) * most \in Nat
  BY <1>7, <1>9
<1> DEFINE all == Cardinality(Keys) * most
<1>12. all \in Nat /\ depth =< all /\ Wrap > all + 1
  BY <1>8, <1>9, <1>11
<1> HIDE DEF all
<1>13. /\ depth = 0 => (Wrap - 1 + depth) % Wrap = Wrap - 1
       /\ depth # 0 => (Wrap - 1 + depth) % Wrap = depth - 1 /\ depth - 1 # Wrap - 1
  BY <1>8, <1>9, <1>12
<1>14. /\ curve'.entry = "hit" => curve'.at = depth - 1
       /\ depth # 0 => curve'.entry = "hit"
  BY <1>6, <1>10, <1>13
<1> QED BY <1>4, <1>8, <1>14 DEF depth

-------------------------------------------------------------------------------
(* The curve is right because the shadow queue has every key seen, in one  *)
(* of the sizes of the trace, and, when there is one size only, because    *)
(* nothing that a cache would have room for is missing from it.            *)
CurveInv ==
  /\ StackInv
  /\ menu \in {Sizes} \union {{s} : s \in Sizes}
  /\ seen = SP!KeysOf(shadow)
  /\ SP!Sized(shadow, menu)
  /\ Cardinality(menu) = 1 =>
       SP!Crowded(smallQ, shadow, SmallMem) /\ SP!Crowded(largeQ, shadow, LargeMem)

LEMMA CurveInit == Init => CurveInv
<1> SUFFICES ASSUME Init PROVE CurveInv
  OBVIOUS
<1>1. StackInv /\ shadow = <<>> /\ smallQ = <<>> /\ largeQ = <<>> /\ seen = {}
  BY StackInit DEF Init, D!Init, S!Init, L!Init
<1>2. menu \in {Sizes} \union {{s} : s \in Sizes}
  BY DEF Init
<1>3. SP!KeysOf(shadow) = {}
  BY <1>1 DEF SP!KeysOf, SP!KeysAt
<1>4. Len(shadow) = 0 /\ Len(smallQ) = 0 /\ Len(largeQ) = 0
  BY <1>1
<1>5. SP!Crowded(smallQ, shadow, SmallMem) /\ SP!Crowded(largeQ, shadow, LargeMem)
  BY <1>4 DEF SP!Crowded
<1>6. SP!Sized(shadow, menu)
  BY <1>4 DEF SP!Sized
<1> QED BY <1>1, <1>2, <1>3, <1>5, <1>6 DEF CurveInv

(* All objects of a trace of one size have that size.                      *)
LEMMA OneSize ==
  ASSUME CurveInv, Cardinality(menu) = 1, NEW r \in SP!Requests, r.size \in menu
  PROVE  SP!Uniform(shadow, r.size)
<1>1. IsFiniteSet(menu)
  <2>1. IsFiniteSet(Sizes)
    BY QueueAssumptions, SameSets DEF D!WrapAssumption
  <2> QED BY <2>1, FS_Singleton DEF CurveInv
<1>2. PICK s : menu = {s}
  BY <1>1, FS_Singleton
<1> QED BY <1>2 DEF SP!Uniform, SP!Sized, CurveInv

LEMMA CurveStep ==
  ASSUME CurveInv, NEW r \in SP!Requests, r.size \in menu, menu' = menu,
         D!Proc(r), S!Proc(r), L!Proc(r)
  PROVE  CurveInv'
<1> USE SameTerms
<1> DEFINE rest == SP!Drop(shadow, r.kid)
           t == <<r>> \o rest
<1>1. /\ smallQ \in Seq(SP!Requests) /\ largeQ \in Seq(SP!Requests) /\ shadow \in Seq(SP!Requests)
      /\ SP!Distinct(shadow) /\ SmallMem \in Nat /\ LargeMem \in Nat
      /\ smallMem = SmallMem /\ largeMem = LargeMem
      /\ SP!IsPrefix(smallQ, largeQ) /\ SP!IsPrefix(largeQ, shadow)
  BY SmallIsSmaller DEF CurveInv, StackInv, SP!QueueInv, LP!QueueInv, SP!IsRight, LP!IsRight, Inclusion
<1>2. SP!IsPrefix(smallQ, shadow)
  BY <1>1, SP!PrefixTransitive
<1>3. StackInv'
  BY StackStep DEF CurveInv
<1>4. shadow' = t /\ seen' = seen \union {r.kid}
  BY SameLists DEF D!Proc
<1>5. rest \in Seq(SP!Requests) /\ SP!KeysOf(rest) = SP!KeysOf(shadow) \ {r.kid}
  BY <1>1, SP!Dropped
<1> HIDE DEF rest
<1>6. /\ Len(t) = Len(rest) + 1 /\ t[1] = r /\ \A i \in 1 .. Len(rest) : t[i + 1] = rest[i]
      /\ SP!KeysOf(t) = SP!KeysOf(rest) \union {r.kid}
  BY <1>5, SP!InFront, ZenonT(40)
<1> HIDE DEF t
<1>7. seen' = SP!KeysOf(shadow)'
  <2>1. seen' = SP!KeysOf(t)
    BY <1>4, <1>5, <1>6 DEF CurveInv
  <2> QED BY <1>4, <2>1 DEF SP!KeysOf, SP!KeysAt
<1>8. SP!Sized(t, menu)
  BY <1>1, SP!RenewedSized DEF CurveInv, t, rest
<1>9. ASSUME Cardinality(menu) = 1
      PROVE  SP!Crowded(smallQ', t, SmallMem) /\ SP!Crowded(largeQ', t, LargeMem)
  <2>1. SP!Uniform(shadow, r.size)
    BY <1>9, OneSize
  <2>2. SP!Crowded(smallQ, shadow, SmallMem) /\ SP!Crowded(largeQ, shadow, LargeMem)
    BY <1>9 DEF CurveInv
  <2>3. SP!IsFilled(smallQ', SP!Drop(smallQ, r.kid), r, SmallMem)
    BY <1>1, SameSteps, SP!ProcFills DEF CurveInv, StackInv
  <2>4. SP!IsFilled(largeQ', SP!Drop(largeQ, r.kid), r, LargeMem)
    BY <1>1, SameSteps, SameFills, SameLists, LP!ProcFills DEF CurveInv, StackInv
  <2>5. SP!Crowded(smallQ', t, SmallMem)
    BY <1>1, <1>2, <2>1, <2>2, <2>3, SP!StaysCrowded DEF t, rest
  <2>6. SP!Crowded(largeQ', t, LargeMem)
    BY <1>1, <2>1, <2>2, <2>4, SP!StaysCrowded DEF t, rest
  <2> QED BY <2>5, <2>6
<1>10. menu' \in {Sizes} \union {{s} : s \in Sizes}
  BY DEF CurveInv
<1>11. SP!Sized(shadow', menu')
  BY <1>4, <1>8
<1>12. Cardinality(menu') = 1 => /\ SP!Crowded(smallQ', shadow', SmallMem)
                                 /\ SP!Crowded(largeQ', shadow', LargeMem)
  BY <1>4, <1>9
<1> QED BY <1>3, <1>7, <1>10, <1>11, <1>12 DEF CurveInv, SP!Crowded, SP!Sized

(* What a request records and what becomes of it in one of the two caches. *)
LEMMA HitIsCredited ==
  ASSUME shadow \in Seq(SP!Requests), SP!Distinct(shadow), NEW q \in Seq(SP!Requests),
         SP!IsPrefix(q, shadow), NEW mem \in Nat, SP!SizeOf(q) =< mem,
         NEW r \in SP!Requests, D!Proc(r), NEW i \in DOMAIN q, q[i] = r
  PROVE  curve'.entry = "hit" /\ curve'.at < mem
<1> USE SameTerms
<1>1. /\ Len(q) \in Nat /\ Len(shadow) \in Nat /\ Len(q) =< Len(shadow)
      /\ DOMAIN q = 1 .. Len(q) /\ \A n \in 1 .. Len(q) : q[n] = shadow[n]
  BY SP!RequestAt, SP!PrefixAt
<1>2. i = D!PlaceOf(shadow, r.kid) /\ i \in 1 .. Len(q) /\ i \in Nat /\ i =< Len(q) /\ i =< Len(shadow)
  <2>1. i \in 1 .. Len(q) /\ i \in 1 .. Len(shadow) /\ shadow[i].kid = r.kid
    BY <1>1
  <2>2. i = D!PlaceOf(shadow, r.kid)
    BY <2>1, PlaceIsAt
  <2> QED BY <1>1, <2>1, <2>2
<1>3. /\ curve'.entry = "hit" => curve'.at = SP!BytesAt(shadow, 1 .. i) - 1
      /\ SP!BytesAt(shadow, 1 .. i) # 0 => curve'.entry = "hit"
  BY <1>2, WhatIsRecorded
<1>4. SP!BytesAt(shadow, 1 .. i) = SP!BytesAt(q, 1 .. i)
  <2>1. \A n \in 1 .. i : shadow[n].size = q[n].size
    BY <1>1, <1>2
  <2> QED BY <1>2, <2>1, SP!SameDepth
<1>5. /\ SP!BytesAt(q, 1 .. i) = SP!BytesAt(q, 1 .. i - 1) + q[i].size
      /\ SP!BytesAt(q, 1 .. i - 1) \in Nat /\ q[i].size \in Nat /\ q[i].size > 0
  BY <1>2, SP!DepthGrows
<1>6. /\ SP!SizeOf(q) = SP!BytesAt(q, 1 .. i) + SP!BytesAt(q, i + 1 .. Len(q))
      /\ SP!BytesAt(q, i + 1 .. Len(q)) \in Nat
  <2>1. i \in 0 .. Len(q)
    BY <1>2
  <2> QED BY <2>1, SP!NewestOf
<1> DEFINE d == SP!BytesAt(q, 1 .. i)
<1>7. d \in Nat /\ d > 0 /\ d =< mem
  BY <1>5, <1>6
<1>8. curve'.entry = "hit" /\ curve'.at = d - 1
  BY <1>3, <1>4, <1>7
<1> HIDE DEF d
<1> QED BY <1>7, <1>8

LEMMA CreditIsExact ==
  ASSUME shadow \in Seq(SP!Requests), SP!Distinct(shadow), NEW q \in Seq(SP!Requests),
         SP!IsPrefix(q, shadow), NEW mem \in Nat, SP!Crowded(q, shadow, mem),
         NEW r \in SP!Requests, SP!Uniform(shadow, r.size), D!Proc(r),
         r.kid \in SP!KeysOf(shadow), curve'.entry = "hit", curve'.at < mem
  PROVE  \E i \in DOMAIN q : q[i] = r
<1> USE SameTerms
<1>1. /\ Len(q) \in Nat /\ Len(shadow) \in Nat /\ Len(q) =< Len(shadow)
      /\ DOMAIN q = 1 .. Len(q) /\ DOMAIN shadow = 1 .. Len(shadow)
      /\ \A n \in 1 .. Len(q) : q[n] = shadow[n]
  BY SP!RequestAt, SP!PrefixAt
<1>2. PICK j \in 1 .. Len(shadow) : shadow[j].kid = r.kid
  BY <1>1 DEF SP!KeysOf, SP!KeysAt
<1>3. j = D!PlaceOf(shadow, r.kid)
  BY <1>2, PlaceIsAt
<1>4. j =< Len(shadow)
  BY <1>1
<1>5. curve'.at = SP!BytesAt(shadow, 1 .. j) - 1 /\ SP!BytesAt(shadow, 1 .. j) \in Nat
  BY <1>3, <1>4, WhatIsRecorded
<1> DEFINE d == SP!BytesAt(shadow, 1 .. j)
<1>6. ~ (d > mem)
  <2>1. d \in Nat /\ d - 1 < mem
    BY <1>5
  <2> HIDE DEF d
  <2> QED BY <2>1
<1>7. j \in 1 .. Len(q)
  BY <1>1, <1>6 DEF SP!Crowded
<1>8. q[j].kid = r.kid /\ q[j].size = r.size /\ q[j] \in SP!Requests
  <2>1. q[j] = shadow[j] /\ shadow[j].size = r.size /\ j \in DOMAIN q
    BY <1>1, <1>7 DEF SP!Uniform
  <2> QED BY <1>2, <2>1, SP!RequestAt
<1>9. q[j] = r
  BY <1>8
<1> QED BY <1>1, <1>7, <1>9

LEMMA CurveStepIsRight ==
  ASSUME CurveInv, NEW r \in SP!Requests, r.size \in menu, D!Proc(r), S!Proc(r), L!Proc(r)
  PROVE  /\ Credited(smallOutcome, SmallMem)' /\ Credited(largeOutcome, LargeMem)'
         /\ Cardinality(menu) = 1 /\ largeOutcome'.kid \in seen =>
              Exact(smallOutcome, SmallMem)' /\ Exact(largeOutcome, LargeMem)'
<1> USE SameTerms
<1>1. /\ smallQ \in Seq(SP!Requests) /\ largeQ \in Seq(SP!Requests) /\ shadow \in Seq(SP!Requests)
      /\ SP!Distinct(shadow) /\ SmallMem \in Nat /\ LargeMem \in Nat
      /\ SP!IsPrefix(smallQ, largeQ) /\ SP!IsPrefix(largeQ, shadow)
      /\ SP!SizeOf(smallQ) =< SmallMem /\ LP!SizeOf(largeQ) =< LargeMem
  BY SmallIsSmaller DEF CurveInv, StackInv, SP!QueueInv, LP!QueueInv, SP!IsRight, LP!IsRight, Inclusion
<1>2. SP!IsPrefix(smallQ, shadow) /\ SP!SizeOf(largeQ) =< LargeMem
  <2>1. LP!SizeOf(largeQ) = SP!SizeOf(largeQ)
    BY SameSums DEF LP!SizeOf, SP!SizeOf
  <2> QED BY <1>1, <2>1, SP!PrefixTransitive
<1>3. smallOutcome'.result = "hit" <=> \E i \in DOMAIN smallQ : smallQ[i] = r
  BY SameSteps, SP!ProcFills DEF CurveInv, StackInv
<1>4. /\ largeOutcome'.kid = r.kid
      /\ largeOutcome'.result = "hit" <=> \E i \in DOMAIN largeQ : largeQ[i] = r
  BY SameSteps, LP!ProcFills DEF CurveInv, StackInv
<1>5. /\ smallOutcome'.result = "hit" => curve'.entry = "hit" /\ curve'.at < SmallMem
      /\ largeOutcome'.result = "hit" => curve'.entry = "hit" /\ curve'.at < LargeMem
  BY <1>1, <1>2, <1>3, <1>4, HitIsCredited
<1>6. ASSUME Cardinality(menu) = 1, largeOutcome'.kid \in seen
      PROVE  /\ curve'.entry = "hit" /\ curve'.at < SmallMem => smallOutcome'.result = "hit"
             /\ curve'.entry = "hit" /\ curve'.at < LargeMem => largeOutcome'.result = "hit"
  <2>1. SP!Uniform(shadow, r.size)
    BY <1>6, OneSize
  <2>2. SP!Crowded(smallQ, shadow, SmallMem) /\ SP!Crowded(largeQ, shadow, LargeMem)
    BY <1>6 DEF CurveInv
  <2>3. r.kid \in SP!KeysOf(shadow)
    BY <1>4, <1>6 DEF CurveInv
  <2> QED BY <1>1, <1>2, <1>3, <1>4, <2>1, <2>2, <2>3, CreditIsExact, ZenonT(40)
<1> QED BY <1>5, <1>6 DEF Credited, Exact

LEMMA CurveKept ==
  CurveInv /\ [Next]_vars =>
    /\ CurveInv'
    /\ [/\ Credited(smallOutcome, SmallMem)' /\ Credited(largeOutcome, LargeMem)'
        /\ Cardinality(menu) = 1 /\ largeOutcome'.kid \in seen =>
             Exact(smallOutcome, SmallMem)' /\ Exact(largeOutcome, LargeMem)']_vars
<1> SUFFICES ASSUME CurveInv, [Next]_vars
             PROVE  /\ CurveInv'
                    /\ \/ /\ Credited(smallOutcome, SmallMem)' /\ Credited(largeOutcome, LargeMem)'
                          /\ Cardinality(menu) = 1 /\ largeOutcome'.kid \in seen =>
                               Exact(smallOutcome, SmallMem)' /\ Exact(largeOutcome, LargeMem)'
                       \/ UNCHANGED vars
  OBVIOUS
<1>1. CASE UNCHANGED vars
  <2>1. StackInv'
    BY <1>1, StackKept DEF CurveInv
  <2> QED BY <1>1, <2>1 DEF vars, smallVars, largeVars, CurveInv, SP!KeysOf, SP!KeysAt, SP!Crowded,
                            SP!BytesAt, SP!Sized
<1>2. CASE Next
  <2>1. PICK r \in D!Requests : r.size \in menu /\ menu' = menu /\ D!Proc(r) /\ S!Proc(r) /\ L!Proc(r)
    BY <1>2 DEF Next
  <2> QED BY <2>1, CurveStep, CurveStepIsRight, SameTerms
<1> QED BY <1>1, <1>2

(* A cache that hits was credited with the hit by the curve of the shadow  *)
(* queue, and with objects of one size nothing else is credited for keys   *)
(* that were requested before: the stack distances that shadowlru::proc    *)
(* records decide what lru::proc does, for every size of the caches.       *)
THEOREM TheCurveIsRight == Spec => CurveIsRight
<1> QED BY CurveInit, CurveKept, PTL DEF Spec, CurveIsRight
===============================================================================
