---------------------------- MODULE SimulatorBooks ----------------------------
(***************************************************************************)
(* What the policies of lsm-sim.cpp keep by hand, for every trace and      *)
(* every size of their queues: lists, hash tables and byte counts agree in *)
(* the middle of every cascade of evictions, no assertion fails and no     *)
(* empty list is read but for an object that is too large for its place,   *)
(* and, by that, every policy is a cache as the replay loop expects one.   *)
(*                                                                         *)
(* The books of a policy are the invariant that says so; what they come to *)
(* in bytes is a sum over a set of objects, for the order the bytes were   *)
(* added in does not matter.                                               *)
(***************************************************************************)
EXTENDS SimulatorQueues

-------------------------------------------------------------------------------
(* clock.                                                                  *)

LEMMA ClockSums ==
  /\ \A f, G : Clock!SumFunctionOnSet(f, G) = SumFunctionOnSet(f, G)
  /\ \A G : Clock!Cardinality(G) = Cardinality(G)
  /\ GlobalMem \in Nat /\ \A s \in UpTo(GlobalMem) : s \in Nat /\ s > 0 /\ s =< GlobalMem
<1>1. \A f, G : Clock!SumFunctionOnSet(f, G) = SumFunctionOnSet(f, G)
  BY DEF Clock!SumFunctionOnSet, Clock!FoldFunctionOnSet, Clock!MapThenFoldSet,
         SumFunctionOnSet, FoldFunctionOnSet, MapThenFoldSet
<1>2. \A G : Clock!Cardinality(G) = Cardinality(G)
  BY DEF Clock!Cardinality, Cardinality
<1>3. GlobalMem \in Nat /\ UpTo(GlobalMem) \subseteq 1 .. GlobalMem
  BY PolicyAssumptions DEF Clock!SizesAssumption
<1> QED BY <1>1, <1>2, <1>3

(* All that is cached is in the ring, and no counter is more than full;    *)
AllInRing ==
  /\ \A x \in DOMAIN allObjects : \E i \in DOMAIN ring : ring[i].kid = x
  /\ \A i \in DOMAIN ring : ring[i].ref =< CLOCK_MAX_VALUE

(* the bytes are counted, and no more than there are;                      *)
ClockTotal ==
  /\ \A x \in DOMAIN allObjects : allObjects[x] \in UpTo(GlobalMem)
  /\ lruSize = SumFunctionOnSet(allObjects, DOMAIN allObjects) /\ lruSize =< GlobalMem

(* and room is made for a request.                                         *)
ClockAtWork ==
  /\ pc \in {"ready", "evict"} /\ (pc = "evict" => req \in Clock!Requests)
  /\ firstEviction \in BOOLEAN

ClockBooks == ClockInv /\ AllInRing /\ ClockTotal /\ ClockAtWork

LEMMA RingIsAll ==
  ASSUME RingHolds, AllInRing
  PROVE  /\ IsFiniteSet(DOMAIN allObjects) /\ Len(ring) = Cardinality(DOMAIN allObjects)
         /\ Clock!KeysOf(ring) = DOMAIN allObjects /\ DOMAIN allObjects \subseteq Keys
<1> DEFINE t == [i \in 1 .. Len(ring) |-> ring[i].kid]
<1>1. /\ ring \in Seq(RingEntries) /\ DOMAIN ring = 1 .. Len(ring) /\ Len(ring) \in Nat
      /\ \A i, j \in DOMAIN ring : ring[i].kid = ring[j].kid => i = j
      /\ \A i \in DOMAIN ring : ring[i].kid \in DOMAIN allObjects
  BY DEF RingHolds
<1>2. \A i \in 1 .. Len(ring) : ring[i].kid \in Keys
  <2>1. \A i \in 1 .. Len(ring) : ring[i] \in RingEntries
    BY ONLY <1>1
  <2> QED BY ONLY <2>1 DEF RingEntries
<1>3. t \in Seq(Keys) /\ Len(t) = Len(ring) /\ DOMAIN t = 1 .. Len(ring)
  BY <1>1, <1>2
<1>4. IsInjective(t)
  BY <1>1 DEF IsInjective
<1>5. ToSet(t) = DOMAIN allObjects
  <2>1. ToSet(t) = {ring[i].kid : i \in 1 .. Len(ring)}
    BY <1>3 DEF ToSet
  <2>2. \A x \in DOMAIN allObjects : \E i \in 1 .. Len(ring) : ring[i].kid = x
    BY <1>1 DEF AllInRing
  <2>3. \A i \in 1 .. Len(ring) : ring[i].kid \in DOMAIN allObjects
    BY <1>1
  <2> HIDE DEF t
  <2> QED BY ONLY <2>1, <2>2, <2>3, Zenon
<1> HIDE DEF t
<1>6. IsFiniteSet(ToSet(t)) /\ Len(t) = Cardinality(ToSet(t))
  BY <1>3, <1>4, DistinctLength
<1>7. Clock!KeysOf(ring) = DOMAIN allObjects
  <2>1. Clock!KeysOf(ring) = {ring[i].kid : i \in 1 .. Len(ring)}
    BY <1>1 DEF Clock!KeysOf, Clock!KeysAt
  <2>2. \A x \in DOMAIN allObjects : \E i \in 1 .. Len(ring) : ring[i].kid = x
    BY <1>1 DEF AllInRing
  <2>3. \A i \in 1 .. Len(ring) : ring[i].kid \in DOMAIN allObjects
    BY <1>1
  <2> QED BY ONLY <2>1, <2>2, <2>3, Zenon
<1>8. DOMAIN allObjects \subseteq Keys
  BY <1>1, <1>2 DEF AllInRing
<1> QED BY <1>3, <1>5, <1>6, <1>7, <1>8

LEMMA ClockBooksInit ==
  ASSUME Clock!Init
  PROVE  ClockBooks
<1>1. /\ pc = "ready" /\ ring = <<>> /\ DOMAIN allObjects = {} /\ lruSize = 0
      /\ firstEviction = FALSE
  BY DEF Clock!Init
<1>2. DOMAIN <<>> = {}
  OBVIOUS
<1>3. AllInRing
  BY <1>1, <1>2 DEF AllInRing
<1>4. ClockTotal
  BY <1>1, SumEmpty, ClockSums DEF ClockTotal
<1> QED BY <1>1, <1>3, <1>4, ClockInit DEF ClockBooks, ClockAtWork

(* The object of a key, if there is one, gives back its bytes. *)
LEMMA ClockGivesBack ==
  ASSUME ClockBooks, NEW x, allObjects' = [y \in DOMAIN allObjects \ {x} |-> allObjects[y]],
         lruSize' = IF x \in DOMAIN allObjects THEN lruSize - allObjects[x] ELSE lruSize
  PROVE  ClockTotal'
<1> DEFINE f == allObjects
           g == allObjects'
           G == DOMAIN allObjects
<1>1. G \ {x} = DOMAIN allObjects' /\ \A y \in G \ {x} : g[y] = f[y]
  OBVIOUS
<1>2. IsFiniteSet(G) /\ \A y \in G : f[y] \in Nat
  BY RingIsAll, ClockSums DEF ClockBooks, ClockInv, ClockTotal
<1>3. lruSize = SumFunctionOnSet(f, G) /\ lruSize =< GlobalMem /\ GlobalMem \in Nat
  BY ClockSums DEF ClockBooks, ClockTotal
<1>4. \A y \in DOMAIN allObjects' : allObjects'[y] \in UpTo(GlobalMem)
  BY DEF ClockBooks, ClockTotal
<1> HIDE DEF f, g
<1>5. /\ SumFunctionOnSet(g, G \ {x}) \in Nat /\ SumFunctionOnSet(f, G) \in Nat
      /\ SumFunctionOnSet(g, G \ {x}) =
           SumFunctionOnSet(f, G) - (IF x \in G THEN f[x] ELSE 0)
  <2> HIDE DEF G
  <2> QED BY ONLY <1>1, <1>2, WeighsLess
<1>6. lruSize' = lruSize - (IF x \in G THEN f[x] ELSE 0)
  <2>1. lruSize \in Nat
    BY <1>3, <1>5
  <2> QED BY <2>1 DEF f
<1>7. lruSize' = SumFunctionOnSet(g, G \ {x}) /\ lruSize' =< GlobalMem
  <2>1. CASE x \in G
    BY <1>2, <1>3, <1>5, <1>6, <2>1
  <2>2. CASE x \notin G
    BY <1>2, <1>3, <1>5, <1>6, <2>2
  <2> QED BY <2>1, <2>2
<1> QED BY <1>1, <1>4, <1>7 DEF ClockTotal, g

LEMMA ClockBooksHit ==
  ASSUME ClockBooks, pc = "ready", NEW r \in Clock!Requests, Clock!Hit(r)
  PROVE  AllInRing' /\ ClockTotal' /\ ClockAtWork'
<1>1. /\ ring' = [i \in DOMAIN ring |-> IF ring[i].kid = r.kid
                                        THEN [kid |-> r.kid, ref |-> CLOCK_MAX_VALUE] ELSE ring[i]]
      /\ allObjects' = allObjects /\ lruSize' = lruSize /\ pc' = pc /\ req' = req
      /\ firstEviction' = firstEviction
  BY DEF Clock!Hit, Clock!Filled, Clock!Entry
<1>2. AllInRing'
  <2>1. DOMAIN ring' = DOMAIN ring /\ \A i \in DOMAIN ring : ring'[i].kid = ring[i].kid
    BY <1>1
  <2>2. \A i \in DOMAIN ring' : ring'[i].ref =< CLOCK_MAX_VALUE
    BY <1>1, ClockTerms DEF ClockBooks, AllInRing
  <2> QED BY <1>1, <2>1, <2>2 DEF ClockBooks, AllInRing
<1> QED BY <1>1, <1>2 DEF ClockBooks, ClockTotal, ClockAtWork

LEMMA ClockBooksMiss ==
  ASSUME ClockBooks, NEW r \in Clock!Requests, Clock!Miss(r)
  PROVE  AllInRing' /\ ClockTotal' /\ ClockAtWork'
<1> DEFINE x == r.kid
           G == {e \in ToSet(ring) : e.kid = x}
<1>1. /\ ring' = Erase(ring, G) /\ req' = r /\ pc' = "evict" /\ firstEviction' = firstEviction
      /\ allObjects' = [y \in DOMAIN allObjects \ {x} |-> allObjects[y]]
      /\ lruSize' = IF x \in DOMAIN allObjects THEN lruSize - allObjects[x] ELSE lruSize
  BY ClockTerms DEF Clock!Miss, Clock!Drop, Clock!Without
<1>2. ring \in Seq(RingEntries)
  BY DEF ClockBooks, ClockInv, RingHolds
<1>3. ToSet(ring') = ToSet(ring) \ G
  <2> HIDE DEF G
  <2> QED BY <1>1, <1>2, EraseSet
<1>4. AllInRing'
  <2>1. ASSUME NEW y \in DOMAIN allObjects' PROVE \E i \in DOMAIN ring' : ring'[i].kid = y
    <3>1. PICK i \in DOMAIN ring : ring[i].kid = y
      BY <1>1, <2>1 DEF ClockBooks, AllInRing
    <3>2. ring[i] \in ToSet(ring')
      BY <1>1, <1>3, <2>1, <3>1 DEF ToSet
    <3> QED BY <3>1, <3>2 DEF ToSet
  <2>2. ASSUME NEW i \in DOMAIN ring' PROVE ring'[i].ref =< CLOCK_MAX_VALUE
    <3>1. ring'[i] \in ToSet(ring)
      BY <1>3, <2>2 DEF ToSet
    <3> QED BY <3>1 DEF ToSet, ClockBooks, AllInRing
  <2> QED BY <2>1, <2>2 DEF AllInRing
<1>5. ClockTotal'
  <2> HIDE DEF x
  <2> QED BY <1>1, ClockGivesBack
<1> QED BY <1>1, <1>4, <1>5 DEF ClockBooks, ClockAtWork

LEMMA ClockBooksEvictOne ==
  ASSUME ClockBooks, Clock!EvictOne
  PROVE  AllInRing' /\ ClockTotal' /\ ClockAtWork'
<1> DEFINE n == Len(ring)
           s == Clock!Stop
           x == ring[s].kid
<1>1. /\ pc' = pc /\ req' = req /\ firstEviction' = TRUE
      /\ allObjects' = [y \in DOMAIN allObjects \ {x} |-> allObjects[y]]
      /\ lruSize' = lruSize - allObjects[x]
  BY DEF Clock!EvictOne, Clock!Without
<1>2. ring \in Seq(RingEntries) /\ DOMAIN ring = 1 .. n /\ n \in Nat /\ RingHolds
  BY DEF ClockBooks, ClockInv, RingHolds
<1>3. \A i \in 1 .. n : ring[i] \in RingEntries /\ ring[i].ref \in Nat /\ ring[i].ref =< CLOCK_MAX_VALUE
  <2>1. \A i \in 1 .. n : ring[i] \in RingEntries
    BY ONLY <1>2
  <2>2. \A i \in 1 .. n : ring[i].ref =< CLOCK_MAX_VALUE
    BY <1>2 DEF ClockBooks, AllInRing
  <2> QED BY ONLY <2>1, <2>2 DEF RingEntries
<1> HIDE DEF n, s, x
<1>4. /\ s \in 1 .. n /\ \A i \in 1 .. n : i # s => \E m \in DOMAIN ring' : ring'[m].kid = ring[i].kid
      /\ \A m \in DOMAIN ring' : ring'[m].ref =< CLOCK_MAX_VALUE
  <2>1. CASE Clock!Stops # {}
    <3>1. /\ s \in 1 .. n /\ DOMAIN ring' = 1 .. n - 1
          /\ \A m \in 1 .. n - s : ring'[m] = ring[m + s]
          /\ \A m \in n - s + 1 .. n - 1 :
               ring'[m] = [kid |-> ring[m - (n - s)].kid, ref |-> ring[m - (n - s)].ref - 1]
      BY <1>2, <2>1, HandPasses DEF n, s
    <3>2. s \in Nat /\ n \in Nat /\ s =< n /\ s # 0
      BY <1>2, <3>1
    <3>3. ASSUME NEW i \in 1 .. n, i # s PROVE \E m \in DOMAIN ring' : ring'[m].kid = ring[i].kid
      <4>1. CASE i > s
        <5>1. i - s \in 1 .. n - s /\ i - s \in 1 .. n - 1 /\ (i - s) + s = i
          BY <3>2, <4>1
        <5>2. ring'[i - s] = ring[i]
          BY <3>1, <5>1
        <5> QED BY <3>1, <5>1, <5>2
      <4>2. CASE i < s
        <5> DEFINE m == i + (n - s)
        <5>1. m \in n - s + 1 .. n - 1 /\ m \in 1 .. n - 1 /\ m - (n - s) = i
          BY <3>2, <4>2
        <5> HIDE DEF m
        <5>2. ring'[m] = [kid |-> ring[m - (n - s)].kid, ref |-> ring[m - (n - s)].ref - 1]
          BY <3>1, <5>1
        <5>3. ring'[m].kid = ring[i].kid
          BY <5>1, <5>2
        <5> QED BY <3>1, <5>1, <5>3
      <4>3. i > s \/ i < s
        BY <3>2, <3>3
      <4> QED BY <4>1, <4>2, <4>3
    <3>4. ASSUME NEW m \in 1 .. n - 1 PROVE ring'[m].ref =< CLOCK_MAX_VALUE
      <4>1. CASE m =< n - s
        <5>1. m \in 1 .. n - s /\ m + s \in 1 .. n
          BY <3>2, <4>1
        <5>2. ring'[m] = ring[m + s]
          BY <3>1, <5>1
        <5> QED BY <1>3, <5>1, <5>2
      <4>2. CASE ~ (m =< n - s)
        <5> DEFINE i == m - (n - s)
        <5>1. m \in n - s + 1 .. n - 1 /\ i \in 1 .. n
          BY <3>2, <4>2
        <5>2. ring'[m] = [kid |-> ring[i].kid, ref |-> ring[i].ref - 1]
          BY <3>1, <5>1
        <5> HIDE DEF i
        <5>3. ring'[m].ref = ring[i].ref - 1
          BY <5>2
        <5> QED BY <1>3, <5>1, <5>3, ClockTerms
      <4> QED BY <4>1, <4>2
    <3> QED BY <3>1, <3>3, <3>4
  <2>2. CASE Clock!Stops = {}
    <3>1. /\ s = 1 /\ 1 \in 1 .. n /\ DOMAIN ring' = 1 .. n - 1
          /\ \A m \in 1 .. n - 1 : ring'[m] = [kid |-> ring[m + 1].kid, ref |-> ring[m + 1].ref - 1]
      BY <1>2, <2>2, HandComesRound DEF n, s
    <3>2. ASSUME NEW i \in 1 .. n, i # s PROVE \E m \in DOMAIN ring' : ring'[m].kid = ring[i].kid
      <4> DEFINE m == i - 1
      <4>1. m \in 1 .. n - 1 /\ m + 1 = i
        BY <1>2, <3>1, <3>2
      <4> HIDE DEF m
      <4>2. ring'[m] = [kid |-> ring[m + 1].kid, ref |-> ring[m + 1].ref - 1]
        BY <3>1, <4>1
      <4>3. ring'[m].kid = ring[i].kid
        BY <4>1, <4>2
      <4> QED BY <3>1, <4>1, <4>3
    <3>3. ASSUME NEW m \in 1 .. n - 1 PROVE ring'[m].ref =< CLOCK_MAX_VALUE
      <4> DEFINE i == m + 1
      <4>1. i \in 1 .. n
        BY <1>2
      <4>2. ring'[m] = [kid |-> ring[i].kid, ref |-> ring[i].ref - 1]
        BY <3>1
      <4> HIDE DEF i
      <4>3. ring'[m].ref = ring[i].ref - 1
        BY <4>2
      <4> QED BY <1>3, <4>1, <4>3, ClockTerms
    <3> QED BY <3>1, <3>2, <3>3
  <2> QED BY <2>1, <2>2
<1>5. x \in DOMAIN allObjects
  BY <1>2, <1>4 DEF RingHolds, x
<1>6. AllInRing'
  <2>1. ASSUME NEW y \in DOMAIN allObjects' PROVE \E m \in DOMAIN ring' : ring'[m].kid = y
    <3>1. y \in DOMAIN allObjects /\ y # x
      BY <1>1, <2>1
    <3>2. PICK i \in DOMAIN ring : ring[i].kid = y
      BY <3>1 DEF ClockBooks, AllInRing
    <3>3. i # s
      BY <3>1, <3>2 DEF x
    <3> QED BY <1>2, <1>4, <3>2, <3>3
  <2> QED BY <1>4, <2>1 DEF AllInRing
<1>7. ClockTotal'
  BY <1>1, <1>5, ClockGivesBack
<1> QED BY <1>1, <1>6, <1>7 DEF ClockBooks, ClockAtWork

LEMMA ClockBooksInsert ==
  ASSUME ClockBooks, Clock!Insert
  PROVE  AllInRing' /\ ClockTotal' /\ ClockAtWork'
<1> DEFINE x == req.kid
           n == Len(ring)
           e == [kid |-> x, ref |-> IF firstEviction THEN CLOCK_MAX_VALUE ELSE 0]
           f == allObjects
           g == allObjects'
           G == DOMAIN allObjects
<1>1. /\ pc = "evict" /\ pc' = "ready" /\ ring' = Append(ring, e) /\ firstEviction' = firstEviction
      /\ lruSize + req.size =< GlobalMem /\ lruSize' = lruSize + req.size
      /\ allObjects' = [y \in G \union {x} |-> IF y = x THEN req.size ELSE allObjects[y]]
  BY DEF Clock!Insert, Clock!Entry
<1>2. x \in Keys /\ req.size \in UpTo(GlobalMem) /\ req.size \in Nat
  BY <1>1, ClockSums DEF ClockBooks, ClockAtWork, Clock!Requests
<1>3. /\ ring \in Seq(RingEntries) /\ DOMAIN ring = 1 .. n /\ n \in Nat
      /\ \A i \in 1 .. n : ring[i].kid # x
  BY <1>1 DEF ClockBooks, ClockInv, RingHolds, RequestIsOut
<1>4. x \notin G
  BY <1>3 DEF ClockBooks, AllInRing
<1>5. e.kid = x /\ e.ref =< CLOCK_MAX_VALUE
  BY ClockTerms
<1>6. IsFiniteSet(G) /\ \A y \in G : f[y] \in Nat
  BY RingIsAll, ClockSums DEF ClockBooks, ClockInv, ClockTotal
<1>7. lruSize = SumFunctionOnSet(f, G) /\ GlobalMem \in Nat
  BY ClockSums DEF ClockBooks, ClockTotal
<1>8. DOMAIN allObjects' = {x} \union G /\ g[x] = req.size /\ \A y \in G : g[y] = f[y]
  BY <1>1, <1>4
<1> HIDE DEF e, x, n
<1>9. AllInRing'
  <2>1. /\ DOMAIN ring' = 1 .. n + 1 /\ ring'[n + 1] = e /\ \A i \in 1 .. n : ring'[i] = ring[i]
    BY <1>1, <1>3 DEF n
  <2>2. \A i \in 1 .. n + 1 : i \in 1 .. n \/ i = n + 1
    BY <1>3
  <2>3. n + 1 \in 1 .. n + 1 /\ \A i \in 1 .. n : i \in 1 .. n + 1
    BY <1>3
  <2>4. \A i \in DOMAIN ring' : ring'[i].ref =< CLOCK_MAX_VALUE
    BY <1>3, <1>5, <2>1, <2>2 DEF ClockBooks, AllInRing
  <2>5. ASSUME NEW y \in DOMAIN allObjects' PROVE \E i \in DOMAIN ring' : ring'[i].kid = y
    <3>1. CASE y = x
      BY <1>5, <2>1, <2>3, <3>1
    <3>2. CASE y # x
      <4>1. PICK i \in DOMAIN ring : ring[i].kid = y
        BY <1>8, <2>5, <3>2 DEF ClockBooks, AllInRing
      <4> QED BY <1>3, <2>1, <2>3, <4>1
    <3> QED BY <3>1, <3>2
  <2> QED BY <2>4, <2>5 DEF AllInRing
<1>10. \A y \in DOMAIN allObjects' : allObjects'[y] \in UpTo(GlobalMem)
  BY <1>2, <1>8 DEF ClockBooks, ClockTotal
<1> HIDE DEF f, g
<1>11. /\ SumFunctionOnSet(f, G) \in Nat
       /\ SumFunctionOnSet(g, {x} \union G) = SumFunctionOnSet(f, G) + g[x]
  <2> HIDE DEF G
  <2>1. g[x] \in Nat
    BY <1>2, <1>8
  <2>2. \A y \in G : g[y] = f[y]
    BY <1>8
  <2> QED BY ONLY <1>4, <1>6, <2>1, <2>2, WeighsMore
<1>12. lruSize' = SumFunctionOnSet(g, {x} \union G) /\ lruSize' =< GlobalMem
  BY <1>1, <1>2, <1>7, <1>8, <1>11
<1>13. ClockTotal'
  BY <1>8, <1>10, <1>12 DEF ClockTotal, g
<1> QED BY <1>1, <1>9, <1>13 DEF ClockBooks, ClockAtWork

LEMMA ClockBooksStep ==
  ASSUME ClockBooks, Clock!Next \/ UNCHANGED Clock!vars
  PROVE  ClockBooks'
<1>1. ClockInv'
  BY ClockStep DEF ClockBooks
<1>2. ASSUME NEW r \in Clock!Requests, Clock!Proc(r) PROVE ClockBooks'
  BY <1>1, <1>2, ClockBooksHit, ClockBooksMiss DEF Clock!Proc, ClockBooks
<1>3. CASE Clock!Proceed
  BY <1>1, <1>3, ClockBooksEvictOne, ClockBooksInsert DEF Clock!Proceed, ClockBooks
<1>4. CASE UNCHANGED Clock!vars
  BY <1>1, <1>4 DEF Clock!vars, ClockBooks, AllInRing, ClockTotal, ClockAtWork
<1> QED BY <1>2, <1>3, <1>4 DEF Clock!Next

(* The books say all that Clock!Consistent and Clock!TypeOK do. *)
LEMMA ClockIsConsistent ==
  ASSUME ClockBooks
  PROVE  Clock!Consistent /\ Clock!TypeOK
<1>1. /\ IsFiniteSet(DOMAIN allObjects) /\ Len(ring) = Cardinality(DOMAIN allObjects)
      /\ Clock!KeysOf(ring) = DOMAIN allObjects /\ DOMAIN allObjects \subseteq Keys
  BY RingIsAll DEF ClockBooks, ClockInv
<1>2. Clock!Consistent
  BY <1>1, ClockSums DEF ClockBooks, ClockTotal, Clock!Consistent
<1> DEFINE G == [kid : Keys, ref : 0 .. CLOCK_MAX_VALUE]
<1>3. ring \in Seq(G)
  <2>1. ring \in Seq(RingEntries) /\ DOMAIN ring = 1 .. Len(ring) /\ Len(ring) \in Nat
    BY DEF ClockBooks, ClockInv, RingHolds
  <2>2. ASSUME NEW i \in 1 .. Len(ring) PROVE ring[i] \in G
    <3>1. ring[i] \in RingEntries /\ ring[i].ref =< CLOCK_MAX_VALUE
      BY <2>1 DEF ClockBooks, AllInRing
    <3>2. ring[i].ref \in 0 .. CLOCK_MAX_VALUE
      BY <3>1, ClockTerms DEF RingEntries
    <3> QED BY <3>1, <3>2 DEF RingEntries
  <2>3. ring = [i \in 1 .. Len(ring) |-> ring[i]]
    BY <2>1
  <2> HIDE DEF G
  <2> QED BY ONLY <2>1, <2>2, <2>3
<1>4. lruSize \in Nat
  <2>1. \A y \in DOMAIN allObjects : allObjects[y] \in Nat
    BY ClockSums DEF ClockBooks, ClockTotal
  <2> QED BY <1>1, <2>1, SumNat DEF ClockBooks, ClockTotal
<1>5. Clock!TypeOK
  BY <1>1, <1>3, <1>4 DEF ClockBooks, ClockTotal, ClockAtWork, Clock!TypeOK
<1> QED BY <1>2, <1>5

-------------------------------------------------------------------------------
(* What is cached, and what becomes of it.                                 *)

(* d is what is left of c, but for the keys of X. *)
Kept(c, d, X) ==
  d = [x \in DOMAIN d |-> d[x]] /\ \A x \in DOMAIN d \ X : x \in DOMAIN c /\ d[x] = c[x]

Answer(k, s, result) == [kid |-> k, size |-> s, result |-> result]

(* A step from contents c to contents d serves a request for s bytes of k, *)
ServesOne(c, d, k, s) ==
  \/ outcome' = Answer(k, s, "hit") /\ k \in DOMAIN c /\ c[k] = s /\ d = c
  \/ /\ outcome' = Answer(k, s, "miss") /\ (k \in DOMAIN c => c[k] # s)
     /\ k \in DOMAIN d /\ d[k] = s /\ Kept(c, d, {k})
  \/ outcome' = Answer(k, s, "rejected") /\ Kept(c, d, {})

(* or some request, or it gives up objects for one.                        *)
Serves(c, d) ==
  \/ \E k \in Keys, s \in AlsoTooLarge : ServesOne(c, d, k, s)
  \/ outcome' = outcome /\ Kept(c, d, {})

(* Whatever serves requests is a step of the cache. *)
LEMMA ServingIsCaching ==
  ASSUME Serves(Contents, Contents')
  PROVE  C!CacheNext
<1> DEFINE c == Contents
           d == Contents'
<1>1. ASSUME Kept(c, d, {})
      PROVE  \E gone \in SUBSET DOMAIN c : d = C!Without(c, gone)
  <2> DEFINE gone == DOMAIN c \ DOMAIN d
  <2>1. d = [x \in DOMAIN d |-> d[x]] /\ \A x \in DOMAIN d : x \in DOMAIN c /\ d[x] = c[x]
    BY <1>1 DEF Kept
  <2>2. DOMAIN d = DOMAIN c \ gone
    BY <2>1
  <2> HIDE DEF gone, c, d
  <2>3. d = [x \in DOMAIN c \ gone |-> c[x]]
    BY <2>1, <2>2
  <2>4. gone \in SUBSET DOMAIN c /\ d = C!Without(c, gone)
    BY <2>3 DEF C!Without, gone
  <2> QED BY <2>4
<1>2. ASSUME NEW k \in Keys, NEW s \in AlsoTooLarge, ServesOne(c, d, k, s)
      PROVE  C!CacheNext
  <2>1. CASE outcome' = Answer(k, s, "hit") /\ k \in DOMAIN c /\ c[k] = s /\ d = c
    <3>1. C!Hit(k, s)
      BY <2>1 DEF C!Hit, C!Outcome, Answer
    <3> QED BY <3>1 DEF C!CacheNext
  <2>2. CASE /\ outcome' = Answer(k, s, "miss") /\ (k \in DOMAIN c => c[k] # s)
             /\ k \in DOMAIN d /\ d[k] = s /\ Kept(c, d, {k})
    <3> DEFINE gone == DOMAIN c \ (DOMAIN d \union {k})
               e == C!Without(c, gone)
    <3>1. DOMAIN e = DOMAIN c \ gone /\ \A x \in DOMAIN e : e[x] = c[x]
      BY DEF C!Without
    <3>2. /\ d = [x \in DOMAIN d |-> d[x]]
          /\ \A x \in DOMAIN d \ {k} : x \in DOMAIN c /\ d[x] = c[x]
      BY <2>2 DEF Kept
    <3> HIDE DEF c, d, e
    <3>3. DOMAIN d = DOMAIN e \union {k}
      BY <2>2, <3>1, <3>2
    <3>4. \A x \in DOMAIN d : d[x] = IF x = k THEN s ELSE e[x]
      BY <2>2, <3>1, <3>2
    <3>5. d = C!With(e, k, s)
      <4>1. d = [x \in DOMAIN e \union {k} |-> IF x = k THEN s ELSE e[x]]
        BY ONLY <3>2, <3>3, <3>4
      <4> QED BY <4>1 DEF C!With
    <3>6. gone \in SUBSET (DOMAIN c \ {k})
      OBVIOUS
    <3>7. C!Install(k, s)
      BY <2>2, <3>5, <3>6 DEF C!Install, C!Outcome, Answer, c, d, e
    <3> QED BY <3>7 DEF C!CacheNext
  <2>3. CASE outcome' = Answer(k, s, "rejected") /\ Kept(c, d, {})
    <3>1. C!Refuse(k, s)
      BY <1>1, <2>3 DEF C!Refuse, C!Outcome, Answer
    <3> QED BY <3>1 DEF C!CacheNext
  <2> QED BY <1>2, <2>1, <2>2, <2>3 DEF ServesOne
<1>3. ASSUME outcome' = outcome, Kept(c, d, {})
      PROVE  C!CacheNext
  <2>1. C!Evict
    BY <1>1, <1>3 DEF C!Evict
  <2> QED BY <2>1 DEF C!CacheNext
<1> QED BY <1>2, <1>3 DEF Serves

(* The table keeps the size with each object. *)
Sized(f) == [x \in DOMAIN f |-> f[x].size]

(* What is in both of two tables has the same size in both. *)
SameSizes(f, g) == \A x \in DOMAIN g : x \in DOMAIN f /\ g[x].size = f[x].size

LEMMA SizedHit ==
  ASSUME NEW f, NEW g, NEW k \in Keys, NEW s \in AlsoTooLarge, outcome' = Answer(k, s, "hit"),
         k \in DOMAIN f, f[k].size = s, DOMAIN f = DOMAIN g, SameSizes(f, g)
  PROVE  Serves(Sized(f), Sized(g))
<1>1. Sized(g) = Sized(f)
  BY DEF Sized, SameSizes
<1>2. k \in DOMAIN Sized(f) /\ Sized(f)[k] = s
  BY DEF Sized
<1>3. ServesOne(Sized(f), Sized(g), k, s)
  BY <1>1, <1>2 DEF ServesOne
<1> QED BY <1>3 DEF Serves

LEMMA SizedMiss ==
  ASSUME NEW f, NEW g, NEW k \in Keys, NEW s \in AlsoTooLarge, outcome' = Answer(k, s, "miss"),
         k \in DOMAIN f => f[k].size # s, k \in DOMAIN g, g[k].size = s,
         \A x \in DOMAIN g \ {k} : x \in DOMAIN f /\ g[x].size = f[x].size
  PROVE  Serves(Sized(f), Sized(g))
<1>1. /\ DOMAIN Sized(f) = DOMAIN f /\ \A x \in DOMAIN f : Sized(f)[x] = f[x].size
      /\ DOMAIN Sized(g) = DOMAIN g /\ \A x \in DOMAIN g : Sized(g)[x] = g[x].size
      /\ Sized(g) = [x \in DOMAIN Sized(g) |-> Sized(g)[x]]
  BY DEF Sized
<1>2. Kept(Sized(f), Sized(g), {k})
  BY <1>1 DEF Kept
<1>3. ServesOne(Sized(f), Sized(g), k, s)
  BY <1>1, <1>2 DEF ServesOne
<1> QED BY <1>3 DEF Serves

LEMMA SizedLess ==
  ASSUME NEW f, NEW g, outcome' = outcome, SameSizes(f, g)
  PROVE  Serves(Sized(f), Sized(g))
<1>1. /\ DOMAIN Sized(f) = DOMAIN f /\ \A x \in DOMAIN f : Sized(f)[x] = f[x].size
      /\ DOMAIN Sized(g) = DOMAIN g /\ \A x \in DOMAIN g : Sized(g)[x] = g[x].size
      /\ Sized(g) = [x \in DOMAIN Sized(g) |-> Sized(g)[x]]
  BY DEF Sized
<1>2. Kept(Sized(f), Sized(g), {})
  BY <1>1 DEF Kept, SameSizes
<1> QED BY <1>2 DEF Serves

LEMMA RequestsAreKnown ==
  /\ FewKeys \subseteq Keys /\ Sizes \subseteq AlsoTooLarge
  /\ \A m : UpTo(m) \subseteq AlsoTooLarge
BY PolicyAssumptions DEF AlsoTooLarge, UpTo

-------------------------------------------------------------------------------
LEMMA VictimServes ==
  ASSUME VictimBooks, Victim!Next \/ UNCHANGED Victim!vars
  PROVE  Serves(Sized(allObjects), Sized(allObjects'))
<1> DEFINE f == allObjects
           g == allObjects'
<1>1. ASSUME NEW r \in Victim!Requests, Victim!Proc(r) PROVE Serves(Sized(f), Sized(g))
  <2>1. outcome' = outcome /\ (g = f \/ g = [x \in DOMAIN f \ {r.kid} |-> f[x]])
    BY <1>1 DEF Victim!Proc, Victim!Unbind
  <2>2. SameSizes(f, g)
    BY <2>1 DEF SameSizes
  <2> HIDE DEF f, g
  <2> QED BY <2>1, <2>2, SizedLess
<1>2. ASSUME Victim!Demote PROVE Serves(Sized(f), Sized(g))
  <2>1. PICK G : /\ outcome' = outcome
                 /\ g = Victim!Unbind([f EXCEPT ![Victim!Last(dram)].isInDram = FALSE], G)
    BY <1>2 DEF Victim!Demote
  <2>2. g = [x \in DOMAIN f \ G |-> [f EXCEPT ![Victim!Last(dram)].isInDram = FALSE][x]]
    BY <2>1 DEF Victim!Unbind
  <2>3. \A x \in DOMAIN f : f[x] \in Items
    BY DEF VictimBooks, VictimInv, TableKnows
  <2> HIDE DEF f, g
  <2>4. SameSizes(f, g)
    BY <2>2, <2>3 DEF SameSizes, Items
  <2> QED BY <2>1, <2>4, SizedLess
<1>3. ASSUME Victim!Insert PROVE Serves(Sized(f), Sized(g))
  <2> DEFINE k == item.kid
             s == item.size
  <2>1. /\ pc = "insert" /\ outcome' = Answer(k, s, IF item.hit THEN "hit" ELSE "miss")
        /\ g = [x \in DOMAIN f \union {k} |-> IF x = k THEN [size |-> s, isInDram |-> TRUE]
                                              ELSE f[x]]
    BY <1>3 DEF Victim!Insert, Victim!Bind, Victim!Outcome, Answer
  <2>2. k \in Keys /\ s \in AlsoTooLarge /\ item.hit \in BOOLEAN
    BY <2>1, RequestsAreKnown DEF VictimBooks, VictimOnItsWay
  <2>3. DOMAIN f = (ToSet(dram) \union ToSet(flash)) \union Victim!OnItsWay
    BY DEF VictimBooks, VictimCounts
  <2>4. k \notin ToSet(dram) \union ToSet(flash) /\ (item.hit => f[k].size = s)
    BY <2>1 DEF VictimBooks, VictimOnItsWay
  <2>5. CASE item.hit
    <3>1. k \in DOMAIN f
      BY <2>1, <2>3, <2>5 DEF Victim!OnItsWay
    <3> HIDE DEF f, g, k, s
    <3>2. DOMAIN g = DOMAIN f /\ SameSizes(f, g)
      BY <2>1, <2>4, <2>5, <3>1 DEF SameSizes
    <3> QED BY <2>1, <2>2, <2>4, <2>5, <3>1, <3>2, SizedHit
  <2>6. CASE ~ item.hit
    <3>1. k \notin DOMAIN f
      BY <2>3, <2>4, <2>6 DEF Victim!OnItsWay
    <3> HIDE DEF f, g, k, s
    <3>2. /\ k \in DOMAIN g /\ g[k].size = s
          /\ \A x \in DOMAIN g \ {k} : x \in DOMAIN f /\ g[x].size = f[x].size
      BY <2>1
    <3> QED BY <2>1, <2>2, <2>6, <3>1, <3>2, SizedMiss
  <2> QED BY <2>2, <2>5, <2>6
<1>4. ASSUME Victim!Crash \/ UNCHANGED Victim!vars PROVE Serves(Sized(f), Sized(g))
  <2>1. outcome' = outcome /\ g = f
    BY <1>4 DEF Victim!Crash, Victim!vars
  <2>2. SameSizes(f, g)
    BY <2>1 DEF SameSizes
  <2> HIDE DEF f, g
  <2> QED BY <2>1, <2>2, SizedLess
<1> QED BY <1>1, <1>2, <1>3, <1>4 DEF Victim!Next, Victim!Proceed

LEMMA LrukServes ==
  ASSUME LrukInv, Lruk!Next \/ UNCHANGED Lruk!vars
  PROVE  Serves(Sized(allObjects), Sized(allObjects'))
<1> DEFINE f == allObjects
           g == allObjects'
<1>1. ASSUME NEW r \in Lruk!Requests, Lruk!Hit(r) PROVE Serves(Sized(f), Sized(g))
  <2>1. /\ outcome' = Answer(r.kid, r.size, "hit") /\ g = f
        /\ r.kid \in DOMAIN f /\ f[r.kid].size = r.size
    BY <1>1 DEF Lruk!Hit, Lruk!IsHit, Lruk!Outcome, Answer
  <2>2. r.kid \in Keys /\ r.size \in AlsoTooLarge
    BY RequestsAreKnown DEF Lruk!Requests
  <2>3. SameSizes(f, g)
    BY <2>1 DEF SameSizes
  <2> HIDE DEF f, g
  <2> QED BY <2>1, <2>2, <2>3, SizedHit
<1>2. ASSUME NEW r \in Lruk!Requests, Lruk!Miss(r) PROVE Serves(Sized(f), Sized(g))
  <2>1. /\ outcome' = Answer(r.kid, r.size, "miss")
        /\ g = [x \in DOMAIN f \union {r.kid} |->
                  IF x = r.kid THEN [size |-> r.size, queueNumber |-> 0] ELSE f[x]]
        /\ r.kid \in DOMAIN f => f[r.kid].size # r.size
    BY <1>2 DEF Lruk!Miss, Lruk!IsHit, Lruk!Outcome, Lruk!Bind, Answer
  <2>2. r.kid \in Keys /\ r.size \in AlsoTooLarge
    BY RequestsAreKnown DEF Lruk!Requests
  <2> HIDE DEF f, g
  <2>3. /\ r.kid \in DOMAIN g /\ g[r.kid].size = r.size
        /\ \A x \in DOMAIN g \ {r.kid} : x \in DOMAIN f /\ g[x].size = f[x].size
    BY <2>1
  <2> QED BY <2>1, <2>2, <2>3, SizedMiss
<1>3. ASSUME Lruk!InsertCall PROVE Serves(Sized(f), Sized(g))
  <2> DEFINE placed == [x \in DOMAIN f |->
                          IF x \in ToSet(call.objects)
                          THEN [f[x] EXCEPT !.queueNumber = call.k] ELSE f[x]]
  <2>1. outcome' = outcome /\ \E G : g = [x \in DOMAIN f \ G |-> placed[x]]
    <3>1. /\ outcome' = outcome
          /\ g = placed \/ \E popped : g = Lruk!Unbind(placed, ToSet(popped))
      BY <1>3, LrukTerms DEF Lruk!InsertCall
    <3>2. CASE g = placed
      <4>1. g = [x \in DOMAIN f \ {} |-> placed[x]]
        BY <3>2
      <4> QED BY <3>1, <4>1
    <3>3. CASE \E popped : g = Lruk!Unbind(placed, ToSet(popped))
      <4>1. PICK popped : g = Lruk!Unbind(placed, ToSet(popped))
        BY <3>3
      <4>2. g = [x \in DOMAIN f \ ToSet(popped) |-> placed[x]]
        BY <4>1 DEF Lruk!Unbind
      <4> QED BY <3>1, <4>2
    <3> QED BY <3>1, <3>2, <3>3
  <2>2. \A x \in DOMAIN f : f[x] \in LrukItems
    BY DEF LrukInv
  <2> HIDE DEF f, g
  <2>3. \A x \in DOMAIN f : placed[x].size = f[x].size
    BY <2>2 DEF LrukItems
  <2> HIDE DEF placed
  <2>4. SameSizes(f, g)
    BY <2>1, <2>3 DEF SameSizes
  <2> QED BY <2>1, <2>4, SizedLess
<1>4. ASSUME Lruk!Abort \/ UNCHANGED Lruk!vars PROVE Serves(Sized(f), Sized(g))
  <2>1. outcome' = outcome /\ g = f
    BY <1>4 DEF Lruk!Abort, Lruk!vars
  <2>2. SameSizes(f, g)
    BY <2>1 DEF SameSizes
  <2> HIDE DEF f, g
  <2> QED BY <2>1, <2>2, SizedLess
<1> QED BY <1>1, <1>2, <1>3, <1>4 DEF Lruk!Next, Lruk!Proc, Lruk!Proceed

LEMMA KlruServes ==
  ASSUME KlruInv, Klru!Next \/ UNCHANGED Klru!vars
  PROVE  Serves(Sized(allObjects), Sized(allObjects'))
<1> DEFINE f == allObjects
           g == allObjects'
<1>0. \A x \in DOMAIN f : f[x] \in KlruItems
  BY DEF KlruInv
<1>1. ASSUME NEW r \in Klru!Requests, Klru!Hit(r) PROVE Serves(Sized(f), Sized(g))
  <2>1. /\ outcome' = Answer(r.kid, r.size, "hit") /\ g = f
        /\ r.kid \in DOMAIN f /\ f[r.kid].size = r.size
    BY <1>1 DEF Klru!Hit, Klru!IsHit, Klru!Outcome, Answer
  <2>2. r.kid \in Keys /\ r.size \in AlsoTooLarge
    BY RequestsAreKnown DEF Klru!Requests
  <2>3. SameSizes(f, g)
    BY <2>1 DEF SameSizes
  <2> HIDE DEF f, g
  <2> QED BY <2>1, <2>2, <2>3, SizedHit
<1>2. ASSUME NEW r \in Klru!Requests, Klru!Miss(r) PROVE Serves(Sized(f), Sized(g))
  <2>1. outcome' = outcome /\ (g = f \/ g = [x \in DOMAIN f \ {r.kid} |-> f[x]])
    BY <1>2 DEF Klru!Miss, Klru!TakeOut, Klru!Unbind, Klru!tierVars
  <2>2. SameSizes(f, g)
    BY <2>1 DEF SameSizes
  <2> HIDE DEF f, g
  <2> QED BY <2>1, <2>2, SizedLess
<1>3. ASSUME Klru!Insert PROVE Serves(Sized(f), Sized(g))
  <2> DEFINE k == newItem.kid
             s == newItem.size
  <2>1. /\ pc = "insert" /\ outcome' = Answer(k, s, "miss")
        /\ g = [x \in DOMAIN f \union {k} |->
                  IF x = k THEN [size |-> s, isInDram |-> TRUE, queueNumber |-> 0] ELSE f[x]]
    BY <1>3 DEF Klru!Insert, Klru!Bind, Klru!Outcome, Answer
  <2>2. k \in Keys /\ s \in AlsoTooLarge /\ k \notin DOMAIN f
    BY <2>1, RequestsAreKnown DEF KlruInv, NewItemIsNew, KlruSizes
  <2> HIDE DEF f, g, k, s
  <2>3. /\ k \in DOMAIN g /\ g[k].size = s
        /\ \A x \in DOMAIN g \ {k} : x \in DOMAIN f /\ g[x].size = f[x].size
    BY <2>1
  <2> QED BY <2>1, <2>2, <2>3, SizedMiss
<1>4. ASSUME Klru!EvictGlobalLru PROVE Serves(Sized(f), Sized(g))
  <2>1. outcome' = outcome /\ \E x : g = [y \in DOMAIN f \ {x} |-> f[y]]
    BY <1>4 DEF Klru!EvictGlobalLru, Klru!MakesRoom, Klru!TakeOut, Klru!Unbind
  <2>2. SameSizes(f, g)
    BY <2>1 DEF SameSizes
  <2> HIDE DEF f, g
  <2> QED BY <2>1, <2>2, SizedLess
<1>5. ASSUME Klru!MoveToFlash \/ Klru!ReorderCall PROVE Serves(Sized(f), Sized(g))
  <2>1. /\ outcome' = outcome
        /\ \/ \E y : g = [f EXCEPT ![y].isInDram = FALSE]
           \/ \E G, l : g = [x \in DOMAIN f |->
                               IF x \in G THEN [f[x] EXCEPT !.queueNumber = l] ELSE f[x]]
    <3>1. CASE Klru!MoveToFlash
      BY <3>1 DEF Klru!MoveToFlash, Klru!MakesRoom
    <3>2. CASE Klru!ReorderCall
      <4>1. /\ outcome' = outcome
            /\ g = [x \in DOMAIN f |-> IF x \in Klru!ToSet(call.objects)
                                       THEN [f[x] EXCEPT !.queueNumber = call.k] ELSE f[x]]
        BY <3>2 DEF Klru!ReorderCall
      <4> HIDE DEF f, g
      <4> QED BY <4>1
    <3> QED BY <1>5, <3>1, <3>2
  <2> HIDE DEF f, g
  <2>2. SameSizes(f, g)
    BY <1>0, <2>1 DEF SameSizes, KlruItems
  <2> QED BY <2>1, <2>2, SizedLess
<1>6. ASSUME Klru!Abort \/ UNCHANGED Klru!vars PROVE Serves(Sized(f), Sized(g))
  <2>1. outcome' = outcome /\ g = f
    BY <1>6 DEF Klru!Abort, Klru!vars, Klru!tierVars
  <2>2. SameSizes(f, g)
    BY <2>1 DEF SameSizes
  <2> HIDE DEF f, g
  <2> QED BY <2>1, <2>2, SizedLess
<1> QED BY <1>1, <1>2, <1>3, <1>4, <1>5, <1>6 DEF Klru!Next, Klru!Proc, Klru!Proceed

LEMMA FlashServes ==
  ASSUME FlashInv, Flash!Next \/ UNCHANGED Flash!vars
  PROVE  Serves(Sized(allObjects), Sized(allObjects'))
<1> DEFINE f == allObjects
           g == allObjects'
<1>0. \A x \in DOMAIN f : f[x] \in FlashItems
  BY DEF FlashInv
<1>1. ASSUME NEW r \in Flash!Requests, Flash!Hit(r) PROVE Serves(Sized(f), Sized(g))
  <2>1. /\ outcome' = Answer(r.kid, r.size, "hit") /\ g = f
        /\ r.kid \in DOMAIN f /\ f[r.kid].size = r.size
    BY <1>1 DEF Flash!Hit, Flash!IsHit, Flash!Outcome, Answer
  <2>2. r.kid \in Keys /\ r.size \in AlsoTooLarge
    BY RequestsAreKnown DEF Flash!Requests
  <2>3. SameSizes(f, g)
    BY <2>1 DEF SameSizes
  <2> HIDE DEF f, g
  <2> QED BY <2>1, <2>2, <2>3, SizedHit
<1>2. ASSUME NEW r \in Flash!Requests, Flash!Miss(r) PROVE Serves(Sized(f), Sized(g))
  <2>1. outcome' = outcome /\ (g = f \/ g = [x \in DOMAIN f \ {r.kid} |-> f[x]])
    BY <1>2 DEF Flash!Miss, Flash!TakeOut, Flash!Unbind, Flash!tierVars
  <2>2. SameSizes(f, g)
    BY <2>1 DEF SameSizes
  <2> HIDE DEF f, g
  <2> QED BY <2>1, <2>2, SizedLess
<1>3. ASSUME Flash!Insert PROVE Serves(Sized(f), Sized(g))
  <2> DEFINE k == newItem.kid
             s == newItem.size
  <2>1. /\ pc = "insert" /\ outcome' = Answer(k, s, "miss")
        /\ g = [x \in DOMAIN f \union {k} |->
                  IF x = k THEN [size |-> s, isInDram |-> TRUE] ELSE f[x]]
    BY <1>3 DEF Flash!Insert, Flash!Bind, Flash!Outcome, Answer
  <2>2. k \in Keys /\ s \in AlsoTooLarge /\ k \notin DOMAIN f
    BY <2>1, RequestsAreKnown DEF FlashInv
  <2> HIDE DEF f, g, k, s
  <2>3. /\ k \in DOMAIN g /\ g[k].size = s
        /\ \A x \in DOMAIN g \ {k} : x \in DOMAIN f /\ g[x].size = f[x].size
    BY <2>1
  <2> QED BY <2>1, <2>2, <2>3, SizedMiss
<1>4. ASSUME Flash!EvictGlobalLru \/ Flash!EvictDramLru PROVE Serves(Sized(f), Sized(g))
  <2>1. outcome' = outcome /\ \E G : g = [y \in DOMAIN f \ G |-> f[y]]
    BY <1>4 DEF Flash!EvictGlobalLru, Flash!EvictDramLru, Flash!MakesRoom, Flash!TakeOut,
                Flash!Unbind
  <2>2. SameSizes(f, g)
    BY <2>1 DEF SameSizes
  <2> HIDE DEF f, g
  <2> QED BY <2>1, <2>2, SizedLess
<1>5. ASSUME Flash!MoveToFlash PROVE Serves(Sized(f), Sized(g))
  <2>1. outcome' = outcome /\ \E y : g = [f EXCEPT ![y].isInDram = FALSE]
    BY <1>5 DEF Flash!MoveToFlash, Flash!MakesRoom
  <2> HIDE DEF f, g
  <2>2. SameSizes(f, g)
    BY <1>0, <2>1 DEF SameSizes, FlashItems
  <2> QED BY <2>1, <2>2, SizedLess
<1>6. ASSUME UNCHANGED Flash!vars PROVE Serves(Sized(f), Sized(g))
  <2>1. outcome' = outcome /\ g = f
    BY <1>6 DEF Flash!vars, Flash!tierVars
  <2>2. SameSizes(f, g)
    BY <2>1 DEF SameSizes
  <2> HIDE DEF f, g
  <2> QED BY <2>1, <2>2, SizedLess
<1> QED BY <1>1, <1>2, <1>3, <1>4, <1>5, <1>6 DEF Flash!Next, Flash!Proc, Flash!Proceed

(* clock keeps the sizes themselves. *)
LEMMA ClockServes ==
  ASSUME ClockBooks, Clock!Next \/ UNCHANGED Clock!vars
  PROVE  Serves(allObjects, allObjects') \/ UNCHANGED <<allObjects, outcome>>
<1> DEFINE f == allObjects
           g == allObjects'
<1>1. ASSUME NEW r \in Clock!Requests, Clock!Hit(r) PROVE Serves(f, g)
  <2>1. /\ outcome' = Answer(r.kid, r.size, "hit") /\ g = f
        /\ r.kid \in DOMAIN f /\ f[r.kid] = r.size
    BY <1>1 DEF Clock!Hit, Clock!IsHit, Clock!Outcome, Answer
  <2>2. r.kid \in Keys /\ r.size \in AlsoTooLarge
    BY RequestsAreKnown DEF Clock!Requests
  <2> QED BY <2>1, <2>2 DEF Serves, ServesOne
<1>2. ASSUME \/ \E r \in Clock!Requests : Clock!Miss(r)
             \/ Clock!EvictOne
      PROVE  Serves(f, g)
  <2>1. outcome' = outcome /\ \E k : g = [x \in DOMAIN f \ {k} |-> f[x]]
    BY <1>2 DEF Clock!Miss, Clock!EvictOne, Clock!Without
  <2> HIDE DEF f, g
  <2>2. Kept(f, g, {})
    BY <2>1 DEF Kept
  <2> QED BY <2>1, <2>2 DEF Serves
<1>3. ASSUME Clock!Insert PROVE Serves(f, g)
  <2> DEFINE k == req.kid
             s == req.size
  <2>1. /\ pc = "evict" /\ outcome' = Answer(k, s, "miss")
        /\ g = [x \in DOMAIN f \union {k} |-> IF x = k THEN s ELSE f[x]]
    BY <1>3 DEF Clock!Insert, Clock!Outcome, Answer
  <2>2. k \in Keys /\ s \in AlsoTooLarge
    BY <2>1, RequestsAreKnown DEF ClockBooks, ClockAtWork, Clock!Requests
  <2>3. k \notin DOMAIN f
    BY <2>1 DEF ClockBooks, ClockInv, AllInRing, RequestIsOut
  <2> HIDE DEF f, g, k, s
  <2>4. k \in DOMAIN g /\ g[k] = s /\ Kept(f, g, {k})
    BY <2>1 DEF Kept
  <2>5. ServesOne(f, g, k, s)
    BY <2>1, <2>3, <2>4 DEF ServesOne
  <2> QED BY <2>2, <2>5 DEF Serves
<1>4. ASSUME UNCHANGED Clock!vars PROVE UNCHANGED <<allObjects, outcome>>
  BY <1>4 DEF Clock!vars
<1> QED BY <1>1, <1>2, <1>3, <1>4 DEF Clock!Next, Clock!Proc, Clock!Proceed

-------------------------------------------------------------------------------
(* lru, of which LruProofs tells.                                          *)
LruP == INSTANCE LruProofs

LEMMA LruSteps ==
  /\ LruP!SizesAssumption
  /\ Lru!Init => LruP!Init /\ global_mem \in MemSizes
  /\ \A r : (Lru!Proc(r) => LruP!Proc(r)) /\ (Lru!TryAddTail(r) => LruP!TryAddTail(r))
  /\ \A k : Lru!RemoveKey(k) => LruP!RemoveKey(k)
  /\ Lru!Expand => LruP!Expand
<1>1. \A q, I : Lru!BytesAt(q, I) = LruP!BytesAt(q, I)
  BY DEF Lru!BytesAt, LruP!BytesAt, Lru!SumFunctionOnSet, LruP!SumFunctionOnSet,
         Lru!FoldFunctionOnSet, LruP!FoldFunctionOnSet, Lru!MapThenFoldSet, LruP!MapThenFoldSet
<1>2. \A q, k : Lru!Drop(q, k) = LruP!Drop(q, k)
  BY DEF Lru!Drop, LruP!Drop, Lru!Erase, LruP!Erase, Lru!ToSet, LruP!ToSet
<1>3. \A q, b, n : Lru!Staying(q, b, n) = LruP!Staying(q, b, n)
  BY <1>1 DEF Lru!Staying, LruP!Staying, Lru!Max, LruP!Max
<1>4. \A q, I : Lru!KeysAt(q, I) = LruP!KeysAt(q, I)
  BY DEF Lru!KeysAt, LruP!KeysAt
<1>5. \A k : Lru!EntryOf(k) = LruP!EntryOf(k)
  BY DEF Lru!EntryOf, LruP!EntryOf, Lru!ToSet, LruP!ToSet
<1>6. \A r, result : Lru!Outcome(r, result) = LruP!Outcome(r, result)
  BY DEF Lru!Outcome, LruP!Outcome
<1>7. ASSUME NEW r
      PROVE  (Lru!Proc(r) => LruP!Proc(r)) /\ (Lru!TryAddTail(r) => LruP!TryAddTail(r))
  <2>1. ASSUME NEW q, NEW m, NEW b, Lru!AddTo(q, m, b, r)
        PROVE  LruP!AddTo(q, m, b, r)
    BY <1>1, <1>3, <1>4, <1>6, <2>1 DEF Lru!AddTo, LruP!AddTo
  <2>2. Lru!Promote(r) => LruP!Promote(r)
    BY <1>2, <1>5, <1>6 DEF Lru!Promote, LruP!Promote
  <2>3. Lru!Resize(r) => LruP!Resize(r)
    BY <1>2, <1>5, <2>1 DEF Lru!Resize, LruP!Resize
  <2>4. Lru!Add(r) => LruP!Add(r)
    BY <2>1 DEF Lru!Add, LruP!Add
  <2>5. Lru!TryAddTail(r) => LruP!TryAddTail(r)
    BY <1>6 DEF Lru!TryAddTail, LruP!TryAddTail
  <2> QED BY <2>2, <2>3, <2>4, <2>5 DEF Lru!Proc, LruP!Proc
<1>8. \A k : Lru!RemoveKey(k) => LruP!RemoveKey(k)
  BY <1>2, <1>5 DEF Lru!RemoveKey, LruP!RemoveKey
<1>9. Lru!Expand => LruP!Expand
  BY DEF Lru!Expand, LruP!Expand
<1>10. Lru!Init => LruP!Init /\ global_mem \in MemSizes
  BY DEF Lru!Init, LruP!Init
<1>11. LruP!SizesAssumption
  BY PolicyAssumptions DEF Lru!SizesAssumption, LruP!SizesAssumption
<1> QED BY <1>7, <1>8, <1>9, <1>10, <1>11

LruBooks == LruP!QueueInv /\ global_mem \in MemSizes

LEMMA LruBooksInit ==
  ASSUME Lru!Init
  PROVE  LruBooks
BY LruSteps, LruP!EmptyIsRight DEF LruBooks

LEMMA LruBooksStep ==
  ASSUME LruBooks, Lru!Next \/ UNCHANGED Lru!vars
  PROVE  LruBooks'
<1> USE LruSteps DEF LruBooks
<1>1. ASSUME NEW r \in Lru!Requests, Lru!Proc(r) \/ Lru!TryAddTail(r) PROVE LruBooks'
  <2>1. r \in LruP!Requests
    BY DEF Lru!Requests, LruP!Requests
  <2>2. global_mem' = global_mem
    BY <1>1 DEF Lru!Proc, Lru!TryAddTail
  <2>3. LruP!QueueInv'
    BY <1>1, <2>1, LruP!ProcFills, LruP!AddTailKeeps
  <2> QED BY <2>2, <2>3
<1>2. ASSUME NEW k \in Keys, Lru!RemoveKey(k) PROVE LruBooks'
  <2>1. global_mem' = global_mem
    BY <1>2 DEF Lru!RemoveKey
  <2>2. LruP!QueueInv'
    BY <1>2, LruP!RemoveKeeps
  <2> QED BY <2>1, <2>2
<1>3. ASSUME Lru!Expand PROVE LruBooks'
  <2>1. global_mem' \in MemSizes
    BY <1>3 DEF Lru!Expand
  <2> QED BY <1>3, <2>1, LruP!ExpandKeeps
<1>4. ASSUME UNCHANGED Lru!vars PROVE LruBooks'
  <2>1. UNCHANGED LruP!vars /\ global_mem' = global_mem
    BY <1>4 DEF Lru!vars, LruP!vars
  <2> QED BY <2>1, LruP!StepKeeps
<1> QED BY <1>1, <1>2, <1>3, <1>4 DEF Lru!Next

LEMMA LruIsConsistent ==
  ASSUME LruBooks
  PROVE  Lru!Consistent /\ Lru!TypeOK
<1>1. /\ LruP!Consistent /\ global_mem \in MemSizes
      /\ queue \in Seq(LruP!Requests) /\ map \subseteq Keys /\ bytes_cached \in Nat
  BY LruSteps, LruP!RightIsConsistent DEF LruBooks
<1>2. Lru!SizeOf(queue) = LruP!SizeOf(queue) /\ Lru!KeysOf(queue) = LruP!KeysOf(queue)
  BY DEF Lru!SizeOf, LruP!SizeOf, Lru!KeysOf, LruP!KeysOf, Lru!KeysAt, LruP!KeysAt,
         Lru!BytesAt, LruP!BytesAt, Lru!SumFunctionOnSet, LruP!SumFunctionOnSet,
         Lru!FoldFunctionOnSet, LruP!FoldFunctionOnSet, Lru!MapThenFoldSet, LruP!MapThenFoldSet
<1>3. Lru!Cardinality(map) = LruP!Cardinality(map)
  BY DEF Lru!Cardinality, LruP!Cardinality
<1>4. LruP!Requests = Lru!Requests
  BY DEF Lru!Requests, LruP!Requests
<1> QED BY <1>1, <1>2, <1>3, <1>4 DEF Lru!Consistent, LruP!Consistent, Lru!TypeOK

(* What is cached is what the queue holds. *)
QueueIsCached ==
  /\ DOMAIN Lru!Contents = {e.kid : e \in LruP!ToSet(queue)}
  /\ \A e \in LruP!ToSet(queue) : Lru!Contents[e.kid] = e.size

LEMMA LruContents == LruBooks => QueueIsCached
<1>1. Lru!Contents = LruP!Contents
  BY DEF Lru!Contents, LruP!Contents, Lru!EntryOf, LruP!EntryOf, Lru!ToSet, LruP!ToSet
<1> QED BY <1>1, LruSteps, LruP!ContentsAre DEF LruBooks, QueueIsCached

LEMMA LruContentsNext == LruBooks' => QueueIsCached'
BY LruContents, PTL

LEMMA LruServes ==
  ASSUME LruBooks, LruBooks', Lru!Next \/ UNCHANGED Lru!vars
  PROVE  Serves(Lru!Contents, Lru!Contents')
<1> DEFINE c == Lru!Contents
           d == Lru!Contents'
           G == LruP!ToSet(queue)
           H == LruP!ToSet(queue')
<1>1. DOMAIN c = {e.kid : e \in G} /\ \A e \in G : c[e.kid] = e.size
  BY LruContents DEF QueueIsCached
<1>2. DOMAIN d = {e.kid : e \in H} /\ \A e \in H : d[e.kid] = e.size
  BY LruContentsNext DEF QueueIsCached
<1>3. c = [x \in DOMAIN c |-> c[x]] /\ d = [x \in DOMAIN d |-> d[x]]
  BY DEF Lru!Contents
<1> HIDE DEF c, d, G, H
<1>4. ASSUME H \subseteq G PROVE Kept(c, d, {})
  BY <1>1, <1>2, <1>3, <1>4 DEF Kept
<1>5. ASSUME NEW r \in Lru!Requests, Lru!Proc(r) \/ Lru!TryAddTail(r) PROVE Serves(c, d)
  <2>1. r \in LruP!Requests /\ r.kid \in Keys /\ r.size \in AlsoTooLarge
    BY RequestsAreKnown DEF Lru!Requests, LruP!Requests
  <2>2. LruP!Finds(r)
    BY <1>5, <2>1, LruSteps, LruP!ProcServes, LruP!TailServes DEF LruBooks
  <2>3. \A result : LruP!Outcome(r, result) = Answer(r.kid, r.size, result)
    BY DEF LruP!Outcome, Answer
  <2>4. CASE outcome' = Answer(r.kid, r.size, "hit") /\ r \in G /\ H = G
    <3>1. d = c
      BY <1>1, <1>2, <1>3, <2>4
    <3>2. r.kid \in DOMAIN c /\ c[r.kid] = r.size
      BY <1>1, <2>4
    <3> QED BY <2>1, <2>4, <3>1, <3>2 DEF Serves, ServesOne
  <2>5. CASE /\ outcome' = Answer(r.kid, r.size, "miss") /\ r \notin G /\ r \in H
             /\ \A e \in H : e = r \/ (e \in G /\ e.kid # r.kid)
    <3>1. r.kid \in DOMAIN d /\ d[r.kid] = r.size
      BY <1>2, <2>5
    <3>2. ASSUME r.kid \in DOMAIN c PROVE c[r.kid] # r.size
      <4>1. PICK e \in G : e.kid = r.kid
        BY <1>1, <3>2
      <4>2. e \in LruP!Requests
        BY DEF LruBooks, LruP!QueueInv, LruP!IsRight, LruP!ToSet, G
      <4>3. e.size # r.size
        BY <2>1, <2>5, <4>1, <4>2 DEF LruP!Requests
      <4> QED BY <1>1, <4>1, <4>3
    <3>3. Kept(c, d, {r.kid})
      BY <1>1, <1>2, <1>3, <2>5 DEF Kept
    <3>4. ServesOne(c, d, r.kid, r.size)
      BY <2>5, <3>1, <3>2, <3>3 DEF ServesOne
    <3> QED BY <2>1, <3>4 DEF Serves
  <2>6. CASE outcome' = Answer(r.kid, r.size, "rejected") /\ H \subseteq G
    BY <1>4, <2>1, <2>6 DEF Serves, ServesOne
  <2> QED BY <2>2, <2>3, <2>4, <2>5, <2>6 DEF LruP!Finds, G, H
<1>6. ASSUME NEW k \in Keys, Lru!RemoveKey(k) PROVE Serves(c, d)
  <2>1. outcome' = outcome /\ H \subseteq G
    BY <1>6, LruSteps, LruP!RemoveServes DEF LruBooks, G, H
  <2> QED BY <1>4, <2>1 DEF Serves
<1>7. ASSUME Lru!Expand \/ UNCHANGED Lru!vars PROVE Serves(c, d)
  <2>1. outcome' = outcome /\ queue' = queue
    BY <1>7 DEF Lru!Expand, Lru!vars
  <2>2. H \subseteq G
    BY <2>1 DEF G, H
  <2> QED BY <1>4, <2>1, <2>2 DEF Serves
<1> QED BY <1>5, <1>6, <1>7 DEF Lru!Next, c, d

-------------------------------------------------------------------------------
(* fifo: its copies without their flags are requests, and so what          *)
(* LruProofs says of their bytes holds of them.                            *)
FifoP == INSTANCE LruProofs WITH Sizes <- AlsoTooLarge

Plain(q) == [i \in 1 .. Len(q) |-> [kid |-> q[i].kid, size |-> q[i].size]]

LEMMA FifoTerms ==
  /\ FifoP!SizesAssumption /\ GlobalMem \in Nat
  /\ \A f, G : /\ Fifo!SumFunctionOnSet(f, G) = SumFunctionOnSet(f, G)
               /\ FifoP!SumFunctionOnSet(f, G) = SumFunctionOnSet(f, G)
  /\ \A q : Fifo!ToSet(q) = ToSet(q)
  /\ \A M : Fifo!Max(M) = Max(M)
  /\ \A n \in AlsoTooLarge : n \in Nat /\ n > 0
<1>1. FifoP!SizesAssumption /\ GlobalMem \in Nat /\ \A n \in AlsoTooLarge : n \in Nat /\ n > 0
  BY PolicyAssumptions DEF Fifo!SizesAssumption, Lru!SizesAssumption, FifoP!SizesAssumption
<1>2. \A f, G : /\ Fifo!SumFunctionOnSet(f, G) = SumFunctionOnSet(f, G)
                /\ FifoP!SumFunctionOnSet(f, G) = SumFunctionOnSet(f, G)
  BY DEF Fifo!SumFunctionOnSet, Fifo!FoldFunctionOnSet, Fifo!MapThenFoldSet,
         FifoP!SumFunctionOnSet, FifoP!FoldFunctionOnSet, FifoP!MapThenFoldSet,
         SumFunctionOnSet, FoldFunctionOnSet, MapThenFoldSet
<1>3. \A q : Fifo!ToSet(q) = ToSet(q)
  BY DEF Fifo!ToSet, ToSet
<1>4. \A M : Fifo!Max(M) = Max(M)
  BY DEF Fifo!Max, Max
<1> QED BY <1>1, <1>2, <1>3, <1>4

(* The bytes of copies are those of the requests they were. *)
LEMMA PlainBytes ==
  ASSUME NEW q \in Seq(Fifo!Copies)
  PROVE  /\ DOMAIN q = 1 .. Len(q) /\ Len(q) \in Nat
         /\ \A i \in 1 .. Len(q) : q[i] \in Fifo!Copies
         /\ Plain(q) \in Seq(FifoP!Requests) /\ Len(Plain(q)) = Len(q)
         /\ \A i \in 1 .. Len(q) : Plain(q)[i] = [kid |-> q[i].kid, size |-> q[i].size]
         /\ Fifo!SizeOf(q) = FifoP!SizeOf(Plain(q))
         /\ Fifo!SizeOf(q) \in Nat
<1> DEFINE p == Plain(q)
           n == Len(q)
<1>1. DOMAIN q = 1 .. n /\ n \in Nat /\ \A i \in 1 .. n : q[i] \in Fifo!Copies
  OBVIOUS
<1>2. /\ DOMAIN p = 1 .. n
      /\ \A i \in 1 .. n : p[i] = [kid |-> q[i].kid, size |-> q[i].size]
  BY DEF Plain
<1> HIDE DEF n, p
<1>3. \A i \in 1 .. n : p[i] \in FifoP!Requests /\ p[i].size = q[i].size
  BY <1>1, <1>2 DEF Fifo!Copies, FifoP!Requests
<1>4. p \in Seq(FifoP!Requests) /\ Len(p) = n
  <2>1. p = [i \in 1 .. n |-> p[i]]
    BY <1>2 DEF p, Plain, n
  <2> QED BY <1>1, <1>3, <2>1
<1>5. Fifo!SizeOf(q) = FifoP!SizeOf(p)
  <2>1. [i \in DOMAIN q |-> q[i].size] = [i \in DOMAIN p |-> p[i].size]
    BY <1>1, <1>2, <1>3
  <2> QED BY <1>1, <1>2, <2>1, FifoTerms DEF Fifo!SizeOf, FifoP!SizeOf, FifoP!BytesAt
<1>6. FifoP!SizeOf(p) \in Nat
  BY <1>4, FifoTerms, FifoP!BytesAtPlaces DEF FifoP!SizeOf
<1> QED BY <1>1, <1>2, <1>4, <1>5, <1>6 DEF n, p

(* A queue of copies, cut in two. *)
LEMMA FifoCut ==
  ASSUME NEW q \in Seq(Fifo!Copies), NEW n \in 0 .. Len(q),
         NEW stay, stay = SubSeq(q, 1, n), NEW victims, victims = SubSeq(q, n + 1, Len(q))
  PROVE  /\ stay \in Seq(Fifo!Copies) /\ Len(stay) = n /\ \A i \in 1 .. n : stay[i] = q[i]
         /\ victims \in Seq(Fifo!Copies)
         /\ Fifo!SizeOf(q) = Fifo!SizeOf(stay) + Fifo!SizeOf(victims)
         /\ Fifo!SizeOf(stay) \in Nat /\ Fifo!SizeOf(victims) \in Nat
<1> DEFINE m == Len(q) - n
<1>1. Len(q) \in Nat /\ n \in Nat /\ n =< Len(q) /\ m \in Nat /\ n + m = Len(q)
      /\ \A i \in 1 .. Len(q) : q[i] \in Fifo!Copies
  BY PlainBytes
<1>2. stay \in Seq(Fifo!Copies) /\ Len(stay) = n /\ \A i \in 1 .. n : stay[i] = q[i]
  <2>1. 1 \in Int /\ n \in Int /\ n - 1 + 1 = n /\ (1 =< n \/ n = 0)
        /\ \A i \in 1 .. n : i \in 1 .. Len(q)
    BY <1>1
  <2>2. /\ stay \in Seq(Fifo!Copies) /\ Len(stay) = (IF 1 =< n THEN n - 1 + 1 ELSE 0)
        /\ \A i \in 1 .. n - 1 + 1 : stay[i] = q[1 + i - 1]
    BY <1>1, <2>1, SubSeqProperties
  <2>3. \A i \in 1 .. n : 1 + i - 1 = i
    BY <1>1
  <2> QED BY <1>1, <2>1, <2>2, <2>3
<1>3. victims \in Seq(Fifo!Copies) /\ Len(victims) = m /\ \A i \in 1 .. m : victims[i] = q[n + i]
  <2> DEFINE a == n + 1
             b == Len(q)
  <2>1. a \in Int /\ b \in Int /\ b - a + 1 = m /\ (a =< b => m = b - a + 1) /\ (a > b => m = 0)
    <3> DEFINE l == Len(q)
    <3>1. l \in Nat /\ n \in Nat /\ n =< l /\ m = l - n /\ a = n + 1 /\ b = l
      BY <1>1
    <3> HIDE DEF l, m, a, b
    <3> QED BY ONLY <3>1
  <2>2. \A i \in a .. b : q[i] \in Fifo!Copies
    BY <1>1
  <2>3. \A i \in 1 .. m : a + i - 1 = n + i
    BY <1>1
  <2>4. victims = SubSeq(q, a, b)
    OBVIOUS
  <2> HIDE DEF a, b, m
  <2>5. /\ SubSeq(q, a, b) \in Seq(Fifo!Copies)
        /\ Len(SubSeq(q, a, b)) = IF a =< b THEN b - a + 1 ELSE 0
        /\ \A i \in 1 .. b - a + 1 : SubSeq(q, a, b)[i] = q[a + i - 1]
    BY ONLY <2>1, <2>2, SubSeqProperties
  <2>6. Len(victims) = m
    BY <2>1, <2>4, <2>5
  <2>7. \A i \in 1 .. m : victims[i] = q[a + i - 1]
    BY <2>1, <2>4, <2>5
  <2> QED BY <2>3, <2>4, <2>5, <2>6, <2>7
<1> HIDE DEF m
<1>4. Fifo!SizeOf(stay) = FifoP!BytesAt(Plain(q), 1 .. n)
  <2> DEFINE p == Plain(stay)
             s == Plain(q)
  <2>1. /\ p \in Seq(FifoP!Requests) /\ Len(p) = n
        /\ \A i \in 1 .. n : p[i] = [kid |-> stay[i].kid, size |-> stay[i].size]
        /\ Fifo!SizeOf(stay) = FifoP!SizeOf(p)
    BY <1>2, PlainBytes
  <2>2. /\ s \in Seq(FifoP!Requests) /\ Len(s) = Len(q)
        /\ \A i \in 1 .. Len(q) : s[i] = [kid |-> q[i].kid, size |-> q[i].size]
    BY PlainBytes
  <2> HIDE DEF p, s
  <2>3. \A i \in 1 .. n : p[i].size = s[i].size
    BY <1>1, <1>2, <2>1, <2>2
  <2>4. n =< Len(p) /\ n =< Len(s) /\ n \in Nat
    BY <1>1, <2>1, <2>2
  <2>5. FifoP!BytesAt(p, 1 .. n) = FifoP!BytesAt(s, 1 .. n)
    <3>1. p \in Seq(FifoP!Requests) /\ s \in Seq(FifoP!Requests) /\ FifoP!SizesAssumption
      BY <2>1, <2>2, FifoTerms
    <3> QED BY ONLY <2>3, <2>4, <3>1, FifoP!SameDepth
  <2>6. DOMAIN p = 1 .. n
    BY <2>1, FifoTerms, FifoP!RequestAt
  <2> QED BY <2>1, <2>5, <2>6 DEF FifoP!SizeOf, s
<1>5. Fifo!SizeOf(victims) = FifoP!BytesAt(Plain(q), n + 1 .. Len(q))
  <2> DEFINE h == [i \in 1 .. m |-> n + i]
             p == Plain(victims)
             s == Plain(q)
  <2>1. /\ p \in Seq(FifoP!Requests) /\ s \in Seq(FifoP!Requests) /\ DOMAIN p = 1 .. m
        /\ DOMAIN s = 1 .. Len(q)
    <3>1. p \in Seq(FifoP!Requests) /\ s \in Seq(FifoP!Requests) /\ Len(p) = m /\ Len(s) = Len(q)
      BY <1>3, PlainBytes
    <3> HIDE DEF p, s
    <3> QED BY <3>1, FifoTerms, FifoP!RequestAt
  <2>2. \A i \in 1 .. m : n + i \in 1 .. Len(q) /\ p[i] = s[n + i]
    <3>1. \A i \in 1 .. m : n + i \in 1 .. Len(q)
      BY <1>1
    <3>2. \A i \in 1 .. m : p[i] = [kid |-> victims[i].kid, size |-> victims[i].size]
      BY <1>3, PlainBytes
    <3>3. \A i \in 1 .. Len(q) : s[i] = [kid |-> q[i].kid, size |-> q[i].size]
      BY PlainBytes
    <3> HIDE DEF p, s
    <3>4. \A i \in 1 .. m : victims[i] = q[n + i]
      BY <1>3
    <3> QED BY ONLY <3>1, <3>2, <3>3, <3>4
  <2> HIDE DEF p, s
  <2>3. /\ \A i \in 1 .. m : h[i] \in n + 1 .. Len(q) /\ s[h[i]].size = p[i].size
        /\ \A i, j \in 1 .. m : h[i] = h[j] => i = j
        /\ n + 1 .. Len(q) \subseteq 1 .. Len(q)
    BY <1>1, <2>2
  <2>4. \A j \in n + 1 .. Len(q) : \E i \in 1 .. m : j = h[i]
    <3> SUFFICES ASSUME NEW j \in n + 1 .. Len(q) PROVE \E i \in 1 .. m : j = h[i]
      OBVIOUS
    <3>1. j - n \in 1 .. m /\ n + (j - n) = j
      BY <1>1
    <3> QED BY <3>1
  <2> HIDE DEF h
  <2>5. FifoP!Moves(h, p, 1 .. m, s, n + 1 .. Len(q))
    BY <2>1, <2>3, <2>4 DEF FifoP!Moves
  <2>6. FifoP!BytesAt(p, 1 .. m) = FifoP!BytesAt(s, n + 1 .. Len(q))
    BY <2>1, <2>5, FifoTerms, FifoP!BytesMoved
  <2>7. Fifo!SizeOf(victims) = FifoP!SizeOf(p)
    BY <1>3, PlainBytes DEF p
  <2> QED BY <2>1, <2>6, <2>7 DEF FifoP!SizeOf, s
<1>6. /\ FifoP!SizeOf(Plain(q)) =
           FifoP!BytesAt(Plain(q), 1 .. n) + FifoP!BytesAt(Plain(q), n + 1 .. Len(q))
      /\ FifoP!BytesAt(Plain(q), 1 .. n) \in Nat /\ FifoP!BytesAt(Plain(q), n + 1 .. Len(q)) \in Nat
  <2> DEFINE p == Plain(q)
  <2>1. p \in Seq(FifoP!Requests) /\ Len(p) = Len(q) /\ n \in 0 .. Len(p)
    BY <1>1, PlainBytes
  <2> HIDE DEF p
  <2>2. FifoP!SizeOf(p) = FifoP!BytesAt(p, 1 .. n) + FifoP!BytesAt(p, n + 1 .. Len(p))
        /\ FifoP!BytesAt(p, 1 .. n) \in Nat /\ FifoP!BytesAt(p, n + 1 .. Len(p)) \in Nat
    BY <2>1, FifoTerms, FifoP!NewestOf
  <2> QED BY <2>1, <2>2 DEF p
<1>7. Fifo!SizeOf(q) = FifoP!SizeOf(Plain(q))
  BY PlainBytes
<1> QED BY <1>2, <1>3, <1>4, <1>5, <1>6, <1>7

(* A new copy in front of others whose flags may have changed. *)
LEMMA FifoFront ==
  ASSUME NEW q \in Seq(Fifo!Copies), NEW p \in Seq(Fifo!Copies), Len(p) = Len(q),
         \A i \in 1 .. Len(q) : p[i].size = q[i].size, NEW x \in Fifo!Copies
  PROVE  /\ Fifo!SizeOf(p) = Fifo!SizeOf(q)
         /\ <<x>> \o p \in Seq(Fifo!Copies) /\ Len(<<x>> \o p) = Len(p) + 1
         /\ (<<x>> \o p)[1] = x /\ \A i \in 1 .. Len(p) : (<<x>> \o p)[i + 1] = p[i]
         /\ Fifo!SizeOf(<<x>> \o p) = x.size + Fifo!SizeOf(q)
<1> DEFINE s == <<x>> \o p
           r == [kid |-> x.kid, size |-> x.size]
<1>1. DOMAIN q = 1 .. Len(q) /\ DOMAIN p = 1 .. Len(p) /\ Len(p) \in Nat
  BY PlainBytes
<1>2. Fifo!SizeOf(p) = Fifo!SizeOf(q)
  <2>1. [i \in DOMAIN q |-> q[i].size] = [i \in DOMAIN p |-> p[i].size] /\ DOMAIN p = DOMAIN q
    BY <1>1
  <2> QED BY <2>1 DEF Fifo!SizeOf
<1>3. /\ s \in Seq(Fifo!Copies) /\ Len(s) = Len(p) + 1
      /\ s[1] = x /\ \A i \in 1 .. Len(p) : s[i + 1] = p[i]
  OBVIOUS
<1> HIDE DEF s
<1>4. r \in FifoP!Requests
  BY DEF Fifo!Copies, FifoP!Requests
<1>5. Plain(p) \in Seq(FifoP!Requests) /\ Len(Plain(p)) = Len(p)
  BY PlainBytes
<1>6. Plain(s) = <<r>> \o Plain(p)
  <2> DEFINE t == <<r>> \o Plain(p)
  <2>1. t \in Seq(FifoP!Requests) /\ Len(t) = Len(p) + 1 /\ t[1] = r
        /\ \A i \in 1 .. Len(p) : t[i + 1] = Plain(p)[i]
    BY <1>4, <1>5
  <2>2. /\ Plain(s) \in Seq(FifoP!Requests) /\ Len(Plain(s)) = Len(p) + 1
        /\ \A i \in 1 .. Len(s) : Plain(s)[i] = [kid |-> s[i].kid, size |-> s[i].size]
        /\ \A i \in 1 .. Len(p) : Plain(p)[i] = [kid |-> p[i].kid, size |-> p[i].size]
    BY <1>3, PlainBytes
  <2> HIDE DEF t
  <2>3. ASSUME NEW i \in 1 .. Len(p) + 1 PROVE Plain(s)[i] = t[i]
    <3>1. CASE i = 1
      BY <1>1, <1>3, <2>1, <2>2, <3>1
    <3>2. CASE i # 1
      <4> DEFINE j == i - 1
      <4>1. j \in 1 .. Len(p) /\ i = j + 1
        BY <1>1, <3>2
      <4> HIDE DEF j
      <4>2. s[i] = p[j] /\ t[i] = Plain(p)[j]
        BY <1>3, <2>1, <4>1
      <4> QED BY <1>3, <2>2, <4>1, <4>2
    <3> QED BY <3>1, <3>2
  <2> QED BY <2>1, <2>2, <2>3, SeqEqual DEF t
<1>7. FifoP!SizeOf(<<r>> \o Plain(p)) = r.size + FifoP!SizeOf(Plain(p))
  BY <1>4, <1>5, FifoTerms, FifoP!InFront
<1>8. Fifo!SizeOf(s) = FifoP!SizeOf(Plain(s)) /\ Fifo!SizeOf(p) = FifoP!SizeOf(Plain(p))
  BY <1>3, PlainBytes
<1> QED BY <1>2, <1>3, <1>6, <1>7, <1>8 DEF s

FifoBooks ==
  /\ queue \in Seq(Fifo!Copies) /\ Fifo!HashLeadsToNewest
  /\ current_size = Fifo!SizeOf(queue) /\ current_size =< GlobalMem

LEMMA FifoBooksInit ==
  ASSUME Fifo!Init
  PROVE  FifoBooks
<1>1. queue = <<>> /\ current_size = 0 /\ GlobalMem \in Nat
  BY FifoTerms DEF Fifo!Init
<1>2. DOMAIN queue = {} /\ queue \in Seq(Fifo!Copies)
  BY <1>1
<1>3. Fifo!SizeOf(queue) = 0
  BY <1>2, FifoTerms, SumEmpty DEF Fifo!SizeOf
<1>4. Fifo!HashLeadsToNewest
  BY <1>2 DEF Fifo!HashLeadsToNewest
<1> QED BY <1>1, <1>2, <1>3, <1>4 DEF FifoBooks

(* What is left of the copies of q when the keys of K are unhashed. *)
Unhashed(p, q, K) ==
  /\ p \in Seq(Fifo!Copies) /\ Len(p) = Len(q)
  /\ \A i \in 1 .. Len(q) : p[i].kid = q[i].kid /\ p[i].size = q[i].size
  /\ \A i \in 1 .. Len(q) : p[i].in_hash => q[i].in_hash /\ q[i].kid \notin K /\ p[i] = q[i]

LEMMA UnhashedAre ==
  ASSUME NEW q \in Seq(Fifo!Copies), NEW K
  PROVE  Unhashed(Fifo!Unhash(q, K), q, K)
<1> DEFINE p == Fifo!Unhash(q, K)
<1>1. DOMAIN q = 1 .. Len(q) /\ Len(q) \in Nat /\ \A i \in 1 .. Len(q) : q[i] \in Fifo!Copies
  BY PlainBytes
<1>2. p = [i \in 1 .. Len(q) |-> [q[i] EXCEPT !.in_hash = @ /\ q[i].kid \notin K]]
  BY <1>1 DEF Fifo!Unhash
<1>3. ASSUME NEW i \in 1 .. Len(q)
      PROVE  /\ p[i] \in Fifo!Copies /\ p[i].kid = q[i].kid /\ p[i].size = q[i].size
             /\ p[i].in_hash => q[i].in_hash /\ q[i].kid \notin K /\ p[i] = q[i]
  <2> DEFINE c == q[i]
             b == q[i].in_hash /\ q[i].kid \notin K
  <2>1. c \in Fifo!Copies /\ p[i] = [c EXCEPT !.in_hash = b] /\ b \in BOOLEAN
    BY <1>1, <1>2
  <2> HIDE DEF p, b, c
  <2>2. /\ p[i] \in Fifo!Copies /\ p[i].kid = c.kid /\ p[i].size = c.size /\ p[i].in_hash = b
        /\ c.in_hash = b => p[i] = c
    BY <2>1 DEF Fifo!Copies
  <2>3. c.in_hash \in BOOLEAN
    BY <2>1 DEF Fifo!Copies
  <2>4. b => c.in_hash /\ c.kid \notin K
    BY DEF b, c
  <2>5. ASSUME p[i].in_hash PROVE c.in_hash = b
    BY <2>1, <2>2, <2>3, <2>4, <2>5
  <2> QED BY <2>2, <2>4, <2>5 DEF c
<1> HIDE DEF p
<1>4. p \in Seq(Fifo!Copies) /\ Len(p) = Len(q)
  <2>1. p = [i \in 1 .. Len(q) |-> p[i]]
    BY <1>2
  <2> QED BY <1>1, <1>3, <2>1
<1>5. Unhashed(p, q, K)
  BY <1>3, <1>4 DEF Unhashed
<1> QED BY <1>5 DEF p

(* The two outcomes of a request that does not hit. *)
LEMMA FifoEnqueues ==
  ASSUME FifoBooks, NEW r \in Fifo!Requests, Fifo!Enqueue(r)
  PROVE  \E n \in 0 .. Len(queue) : \E K, stay, victims :
           /\ stay = SubSeq(queue, 1, n) /\ victims = SubSeq(queue, n + 1, Len(queue))
           /\ \/ /\ GlobalMem - (current_size - Fifo!SizeOf(victims)) >= r.size
                 /\ queue' = <<[kid |-> r.kid, size |-> r.size, in_hash |-> TRUE]>>
                               \o Fifo!Unhash(stay, K)
                 /\ r.kid \in K
                 /\ current_size' = (current_size - Fifo!SizeOf(victims)) + r.size
                 /\ outcome' = Answer(r.kid, r.size, "miss")
              \/ /\ queue' = Fifo!Unhash(stay, K)
                 /\ current_size' = current_size - Fifo!SizeOf(victims)
                 /\ outcome' = Answer(r.kid, r.size, "rejected")
<1> DEFINE n == Fifo!Staying(r.size)
           victims == SubSeq(queue, n + 1, Len(queue))
           stay == SubSeq(queue, 1, n)
           gone == {c.kid : c \in Fifo!ToSet(victims)}
<1>1. n \in 0 .. Len(queue)
  <2> DEFINE M == {0} \union {m \in 0 .. Len(queue) :
                    GlobalMem - (current_size - Fifo!SizeOf(SubSeq(queue, m + 1, Len(queue))))
                      >= r.size}
  <2>1. Len(queue) \in Nat
    BY PlainBytes DEF FifoBooks
  <2>2. M \in SUBSET (0 .. Len(queue)) /\ M # {}
    BY <2>1
  <2>3. n = Max(M)
    BY FifoTerms DEF Fifo!Staying
  <2> HIDE DEF M, n
  <2> QED BY <2>1, <2>2, <2>3, GreatestElement
<1>2. \/ /\ GlobalMem - (current_size - Fifo!SizeOf(victims)) >= r.size
         /\ queue' = <<[kid |-> r.kid, size |-> r.size, in_hash |-> TRUE]>>
                       \o Fifo!Unhash(stay, gone \union {r.kid})
         /\ current_size' = (current_size - Fifo!SizeOf(victims)) + r.size
         /\ outcome' = Answer(r.kid, r.size, "miss")
      \/ /\ queue' = Fifo!Unhash(stay, gone)
         /\ current_size' = current_size - Fifo!SizeOf(victims)
         /\ outcome' = Answer(r.kid, r.size, "rejected")
  BY DEF Fifo!Enqueue, Fifo!LeftAfter, Fifo!Outcome, Answer
<1>3. r.kid \in gone \union {r.kid}
  OBVIOUS
<1> HIDE DEF n, gone
<1> QED BY <1>1, <1>2, <1>3

(* The copies the hash table leads to. *)
InHash(q) == {c \in ToSet(q) : c.in_hash}

(* A request that does not hit leaves the books right, and only copies the *)
(* table led to before.                                                    *)
LEMMA FifoEnqueued ==
  ASSUME FifoBooks, NEW r \in Fifo!Requests, Fifo!Enqueue(r)
  PROVE  /\ FifoBooks'
         /\ \/ /\ outcome' = Answer(r.kid, r.size, "miss")
               /\ [kid |-> r.kid, size |-> r.size, in_hash |-> TRUE] \in InHash(queue')
               /\ \A c \in InHash(queue') :
                    \/ c = [kid |-> r.kid, size |-> r.size, in_hash |-> TRUE]
                    \/ c \in InHash(queue) /\ c.kid # r.kid
            \/ /\ outcome' = Answer(r.kid, r.size, "rejected")
               /\ InHash(queue') \subseteq InHash(queue)
<1>0. PICK n \in 0 .. Len(queue) : \E K, stay, victims :
           /\ stay = SubSeq(queue, 1, n) /\ victims = SubSeq(queue, n + 1, Len(queue))
           /\ \/ /\ GlobalMem - (current_size - Fifo!SizeOf(victims)) >= r.size
                 /\ queue' = <<[kid |-> r.kid, size |-> r.size, in_hash |-> TRUE]>>
                               \o Fifo!Unhash(stay, K)
                 /\ r.kid \in K
                 /\ current_size' = (current_size - Fifo!SizeOf(victims)) + r.size
                 /\ outcome' = Answer(r.kid, r.size, "miss")
              \/ /\ queue' = Fifo!Unhash(stay, K)
                 /\ current_size' = current_size - Fifo!SizeOf(victims)
                 /\ outcome' = Answer(r.kid, r.size, "rejected")
  BY FifoEnqueues
<1>1. PICK K, stay, victims :
           /\ stay = SubSeq(queue, 1, n) /\ victims = SubSeq(queue, n + 1, Len(queue))
           /\ \/ /\ GlobalMem - (current_size - Fifo!SizeOf(victims)) >= r.size
                 /\ queue' = <<[kid |-> r.kid, size |-> r.size, in_hash |-> TRUE]>>
                               \o Fifo!Unhash(stay, K)
                 /\ r.kid \in K
                 /\ current_size' = (current_size - Fifo!SizeOf(victims)) + r.size
                 /\ outcome' = Answer(r.kid, r.size, "miss")
              \/ /\ queue' = Fifo!Unhash(stay, K)
                 /\ current_size' = current_size - Fifo!SizeOf(victims)
                 /\ outcome' = Answer(r.kid, r.size, "rejected")
  BY <1>0
<1> DEFINE x == [kid |-> r.kid, size |-> r.size, in_hash |-> TRUE]
           p == Fifo!Unhash(stay, K)
<1>2. /\ queue \in Seq(Fifo!Copies) /\ current_size = Fifo!SizeOf(queue)
      /\ current_size =< GlobalMem /\ GlobalMem \in Nat
      /\ DOMAIN queue = 1 .. Len(queue) /\ Len(queue) \in Nat
      /\ \A i, j \in 1 .. Len(queue) :
           queue[i].in_hash /\ queue[j].kid = queue[i].kid => i =< j
  BY FifoTerms, PlainBytes DEF FifoBooks, Fifo!HashLeadsToNewest
<1>3. /\ stay \in Seq(Fifo!Copies) /\ Len(stay) = n /\ \A i \in 1 .. n : stay[i] = queue[i]
      /\ Fifo!SizeOf(queue) = Fifo!SizeOf(stay) + Fifo!SizeOf(victims)
      /\ Fifo!SizeOf(stay) \in Nat /\ Fifo!SizeOf(victims) \in Nat
  <2>1. /\ queue \in Seq(Fifo!Copies) /\ n \in 0 .. Len(queue)
        /\ stay = SubSeq(queue, 1, n) /\ victims = SubSeq(queue, n + 1, Len(queue))
    BY <1>1, <1>2
  <2>2. \A s, v : (s = SubSeq(queue, 1, n) /\ v = SubSeq(queue, n + 1, Len(queue))) =>
          /\ s \in Seq(Fifo!Copies) /\ Len(s) = n /\ \A i \in 1 .. n : s[i] = queue[i]
          /\ v \in Seq(Fifo!Copies)
          /\ Fifo!SizeOf(queue) = Fifo!SizeOf(s) + Fifo!SizeOf(v)
          /\ Fifo!SizeOf(s) \in Nat /\ Fifo!SizeOf(v) \in Nat
    <3>1. queue \in Seq(Fifo!Copies) /\ n \in 0 .. Len(queue)
      BY ONLY <2>1
    <3> QED BY ONLY <3>1, FifoCut, Zenon
  <2> QED BY ONLY <2>1, <2>2, Zenon
<1>4. n \in Nat /\ n =< Len(queue) /\ \A i \in 1 .. n : i \in 1 .. Len(queue)
  BY <1>2
<1>5. /\ p \in Seq(Fifo!Copies) /\ Len(p) = n
      /\ \A i \in 1 .. n : p[i].kid = queue[i].kid /\ p[i].size = queue[i].size
      /\ \A i \in 1 .. n : p[i].in_hash => queue[i].in_hash /\ queue[i].kid \notin K /\ p[i] = queue[i]
  BY <1>3, UnhashedAre DEF Unhashed
<1>6. x \in Fifo!Copies /\ x.size = r.size /\ x.kid = r.kid /\ x.in_hash /\ r.size \in Nat /\ r.size > 0
  BY FifoTerms DEF Fifo!Requests, Fifo!Copies
<1>7. /\ Fifo!SizeOf(p) = Fifo!SizeOf(stay) /\ <<x>> \o p \in Seq(Fifo!Copies)
      /\ Len(<<x>> \o p) = Len(p) + 1
      /\ (<<x>> \o p)[1] = x /\ \A i \in 1 .. Len(p) : (<<x>> \o p)[i + 1] = p[i]
      /\ Fifo!SizeOf(<<x>> \o p) = x.size + Fifo!SizeOf(stay)
  <2>1. Len(p) = Len(stay) /\ \A i \in 1 .. Len(stay) : p[i].size = stay[i].size
    BY <1>3, <1>5
  <2> HIDE DEF p, x
  <2>2. stay \in Seq(Fifo!Copies) /\ p \in Seq(Fifo!Copies) /\ x \in Fifo!Copies
    BY <1>3, <1>5, <1>6
  <2>3. Fifo!SizeOf(p) = Fifo!SizeOf(stay)
    BY ONLY <2>1, <2>2, FifoFront
  <2>4. /\ <<x>> \o p \in Seq(Fifo!Copies) /\ Len(<<x>> \o p) = Len(p) + 1
        /\ (<<x>> \o p)[1] = x /\ \A i \in 1 .. Len(p) : (<<x>> \o p)[i + 1] = p[i]
    BY ONLY <2>1, <2>2, FifoFront
  <2>5. Fifo!SizeOf(<<x>> \o p) = x.size + Fifo!SizeOf(stay)
    BY ONLY <2>1, <2>2, FifoFront
  <2> QED BY <2>3, <2>4, <2>5
<1> HIDE DEF p, x
<1>8. DOMAIN p = 1 .. n
  BY <1>5, PlainBytes
<1>9. CASE /\ GlobalMem - (current_size - Fifo!SizeOf(victims)) >= r.size
           /\ queue' = <<x>> \o p /\ r.kid \in K
           /\ current_size' = (current_size - Fifo!SizeOf(victims)) + r.size
           /\ outcome' = Answer(r.kid, r.size, "miss")
  <2>1. /\ queue' \in Seq(Fifo!Copies) /\ queue'[1] = x
        /\ \A i \in 1 .. n : queue'[i + 1] = p[i]
    BY <1>5, <1>7, <1>9
  <2>2. DOMAIN queue' = 1 .. n + 1
    BY <1>4, <1>5, <1>7, <1>9
  <2>3. current_size' = Fifo!SizeOf(queue') /\ current_size' =< GlobalMem
    <3> DEFINE a == Fifo!SizeOf(stay)
               b == Fifo!SizeOf(victims)
               c == Fifo!SizeOf(queue')
    <3>1. /\ a \in Nat /\ b \in Nat /\ current_size = a + b /\ c = r.size + a /\ r.size \in Nat
          /\ GlobalMem - (current_size - b) >= r.size /\ GlobalMem \in Nat
          /\ current_size' = (current_size - b) + r.size
      BY <1>2, <1>3, <1>6, <1>7, <1>9
    <3> HIDE DEF a, b, c
    <3>2. current_size' = c /\ current_size' =< GlobalMem
      BY ONLY <3>1
    <3> QED BY <3>2 DEF c
  <2>4. ASSUME NEW i \in 1 .. n + 1, i # 1
        PROVE  /\ i - 1 \in 1 .. n /\ queue'[i] = p[i - 1]
    BY <1>4, <2>1, <2>4
  <2>5. ASSUME NEW i \in 1 .. n + 1, NEW j \in 1 .. n + 1,
               queue'[i].in_hash, queue'[j].kid = queue'[i].kid
        PROVE  i =< j
    <3>1. CASE i = 1
      BY <1>4, <3>1
    <3>2. CASE i # 1 /\ j = 1
      <4>1. queue'[i].kid = queue[i - 1].kid /\ queue[i - 1].kid \notin K
        BY <1>5, <2>4, <2>5, <3>2
      <4>2. queue'[j].kid = r.kid
        BY <1>6, <2>1, <3>2
      <4> QED BY <1>9, <2>5, <4>1, <4>2
    <3>3. CASE i # 1 /\ j # 1
      <4>1. /\ i - 1 \in 1 .. n /\ j - 1 \in 1 .. n
            /\ queue[i - 1].in_hash /\ queue[j - 1].kid = queue[i - 1].kid
        BY <1>5, <2>4, <2>5, <3>3
      <4>2. i - 1 =< j - 1
        BY <1>2, <1>4, <4>1
      <4> QED BY <4>1, <4>2
    <3> QED BY <3>1, <3>2, <3>3
  <2>6. FifoBooks'
    BY <2>1, <2>2, <2>3, <2>5 DEF FifoBooks, Fifo!HashLeadsToNewest
  <2>7. x \in InHash(queue')
    <3>1. 1 \in 1 .. n + 1
      BY <1>4
    <3> QED BY <1>6, <2>1, <2>2, <3>1 DEF InHash, ToSet
  <2>8. ASSUME NEW c \in InHash(queue') PROVE c = x \/ (c \in InHash(queue) /\ c.kid # r.kid)
    <3>1. PICK i \in 1 .. n + 1 : c = queue'[i] /\ c.in_hash
      BY <2>2, <2>8 DEF InHash, ToSet
    <3>2. CASE i = 1
      BY <2>1, <3>1, <3>2
    <3>3. CASE i # 1
      <4>1. i - 1 \in 1 .. n /\ c = queue[i - 1] /\ queue[i - 1].kid \notin K
        BY <1>5, <2>4, <3>1, <3>3
      <4>2. c \in ToSet(queue)
        BY <1>2, <1>4, <4>1 DEF ToSet
      <4> QED BY <1>9, <3>1, <4>1, <4>2 DEF InHash
    <3> QED BY <3>2, <3>3
  <2> QED BY <1>9, <2>6, <2>7, <2>8 DEF x
<1>10. CASE /\ queue' = p /\ current_size' = current_size - Fifo!SizeOf(victims)
            /\ outcome' = Answer(r.kid, r.size, "rejected")
  <2>1. current_size' = Fifo!SizeOf(queue') /\ current_size' =< GlobalMem
    <3> DEFINE a == Fifo!SizeOf(stay)
               b == Fifo!SizeOf(victims)
               c == Fifo!SizeOf(queue')
    <3>1. /\ a \in Nat /\ b \in Nat /\ current_size = a + b /\ c = a
          /\ GlobalMem \in Nat /\ current_size =< GlobalMem /\ current_size' = current_size - b
      BY <1>2, <1>3, <1>7, <1>10
    <3> HIDE DEF a, b, c
    <3>2. current_size' = c /\ current_size' =< GlobalMem
      BY ONLY <3>1
    <3> QED BY <3>2 DEF c
  <2>2. ASSUME NEW i \in 1 .. n, NEW j \in 1 .. n, p[i].in_hash, p[j].kid = p[i].kid
        PROVE  i =< j
    BY <1>2, <1>4, <1>5, <2>2
  <2>3. FifoBooks'
    BY <1>5, <1>8, <1>10, <2>1, <2>2 DEF FifoBooks, Fifo!HashLeadsToNewest
  <2>4. \A c \in InHash(p) : c \in InHash(queue)
    BY <1>2, <1>4, <1>5, <1>8 DEF InHash, ToSet
  <2> QED BY <1>10, <2>3, <2>4
<1> QED BY <1>1, <1>9, <1>10 DEF p, x

LEMMA FifoBooksStep ==
  ASSUME FifoBooks, Fifo!Next \/ UNCHANGED Fifo!vars
  PROVE  FifoBooks'
<1>1. ASSUME NEW r \in Fifo!Requests, Fifo!Proc(r) PROVE FifoBooks'
  <2>1. CASE Fifo!Hit(r)
    BY <2>1 DEF Fifo!Hit, FifoBooks, Fifo!HashLeadsToNewest
  <2>2. CASE Fifo!Enqueue(r)
    BY <2>2, FifoEnqueued
  <2> QED BY <1>1, <2>1, <2>2 DEF Fifo!Proc
<1>2. ASSUME UNCHANGED Fifo!vars PROVE FifoBooks'
  BY <1>2 DEF Fifo!vars, FifoBooks, Fifo!HashLeadsToNewest
<1> QED BY <1>1, <1>2 DEF Fifo!Next

LEMMA FifoIsConsistent ==
  ASSUME FifoBooks
  PROVE  Fifo!Consistent /\ Fifo!TypeOK
BY PlainBytes DEF FifoBooks, Fifo!Consistent, Fifo!BytesCounted, Fifo!TypeOK

(* What is cached is what the hash table leads to. *)
HashIsCached ==
  /\ DOMAIN Fifo!Contents = {c.kid : c \in InHash(queue)}
  /\ \A c \in InHash(queue) : Fifo!Contents[c.kid] = c.size

LEMMA FifoContents == FifoBooks => HashIsCached
<1> SUFFICES ASSUME FifoBooks PROVE HashIsCached
  OBVIOUS
<1>1. DOMAIN queue = 1 .. Len(queue) /\ Len(queue) \in Nat
  BY PlainBytes DEF FifoBooks
<1>2. ASSUME NEW c \in InHash(queue), NEW d \in InHash(queue), c.kid = d.kid PROVE c = d
  <2>1. PICK i \in 1 .. Len(queue), j \in 1 .. Len(queue) : c = queue[i] /\ d = queue[j]
    BY <1>1 DEF InHash, ToSet
  <2>2. i =< j /\ j =< i
    BY <1>1, <1>2, <2>1 DEF InHash, FifoBooks, Fifo!HashLeadsToNewest
  <2>3. i = j
    BY <1>1, <2>2
  <2> QED BY <2>1, <2>3
<1>3. \A k : Fifo!Hashed(k) = {c \in InHash(queue) : c.kid = k}
  BY FifoTerms DEF Fifo!Hashed, InHash
<1>4. Fifo!Contents = [k \in {c.kid : c \in InHash(queue)} |->
                         (CHOOSE c \in Fifo!Hashed(k) : TRUE).size]
  BY FifoTerms DEF Fifo!Contents, InHash
<1>5. ASSUME NEW c \in InHash(queue) PROVE Fifo!Contents[c.kid] = c.size
  <2>1. Fifo!Hashed(c.kid) = {c}
    BY <1>2, <1>3
  <2>2. (CHOOSE d \in Fifo!Hashed(c.kid) : TRUE) = c
    BY <2>1
  <2> QED BY <1>4, <2>2
<1> QED BY <1>4, <1>5 DEF HashIsCached

LEMMA FifoContentsNext == FifoBooks' => HashIsCached'
BY FifoContents, PTL

LEMMA FifoServes ==
  ASSUME FifoBooks, FifoBooks', Fifo!Next \/ UNCHANGED Fifo!vars
  PROVE  Serves(Fifo!Contents, Fifo!Contents')
<1> DEFINE c == Fifo!Contents
           d == Fifo!Contents'
           G == InHash(queue)
           H == InHash(queue')
<1>1. DOMAIN c = {e.kid : e \in G} /\ \A e \in G : c[e.kid] = e.size
  BY FifoContents DEF HashIsCached
<1>2. DOMAIN d = {e.kid : e \in H} /\ \A e \in H : d[e.kid] = e.size
  BY FifoContentsNext DEF HashIsCached
<1>3. c = [x \in DOMAIN c |-> c[x]] /\ d = [x \in DOMAIN d |-> d[x]]
  BY DEF Fifo!Contents
<1>4. \A k : Fifo!Hashed(k) = {e \in G : e.kid = k}
  BY FifoTerms DEF Fifo!Hashed, InHash
<1> HIDE DEF c, d, G, H
<1>5. ASSUME H \subseteq G PROVE Kept(c, d, {})
  BY <1>1, <1>2, <1>3, <1>5 DEF Kept
<1>6. ASSUME NEW r \in Fifo!Requests, Fifo!Hit(r) PROVE Serves(c, d)
  <2>1. /\ outcome' = Answer(r.kid, r.size, "hit") /\ queue' = queue
        /\ \E e \in G : e.kid = r.kid /\ e.size = r.size
    BY <1>4, <1>6 DEF Fifo!Hit, Fifo!IsHit, Fifo!Outcome, Answer
  <2>2. H = G
    BY <2>1 DEF G, H
  <2>3. d = c
    BY <1>1, <1>2, <1>3, <2>2
  <2>4. r.kid \in Keys /\ r.size \in AlsoTooLarge /\ r.kid \in DOMAIN c /\ c[r.kid] = r.size
    BY <1>1, <2>1 DEF Fifo!Requests
  <2> QED BY <2>1, <2>3, <2>4 DEF Serves, ServesOne
<1>7. ASSUME NEW r \in Fifo!Requests, ~ Fifo!IsHit(r), Fifo!Enqueue(r) PROVE Serves(c, d)
  <2> DEFINE x == [kid |-> r.kid, size |-> r.size, in_hash |-> TRUE]
  <2>1. r.kid \in Keys /\ r.size \in AlsoTooLarge
    BY DEF Fifo!Requests
  <2>2. \/ /\ outcome' = Answer(r.kid, r.size, "miss") /\ x \in H
           /\ \A e \in H : e = x \/ (e \in G /\ e.kid # r.kid)
        \/ outcome' = Answer(r.kid, r.size, "rejected") /\ H \subseteq G
    BY <1>7, FifoEnqueued DEF G, H
  <2>3. x.kid = r.kid /\ x.size = r.size
    OBVIOUS
  <2> HIDE DEF x
  <2>4. CASE /\ outcome' = Answer(r.kid, r.size, "miss") /\ x \in H
             /\ \A e \in H : e = x \/ (e \in G /\ e.kid # r.kid)
    <3>1. r.kid \in DOMAIN d /\ d[r.kid] = r.size
      BY <1>2, <2>3, <2>4
    <3>2. r.kid \in DOMAIN c => c[r.kid] # r.size
      BY <1>1, <1>4, <1>7 DEF Fifo!IsHit
    <3>3. Kept(c, d, {r.kid})
      BY <1>1, <1>2, <1>3, <2>3, <2>4 DEF Kept
    <3>4. ServesOne(c, d, r.kid, r.size)
      BY <2>4, <3>1, <3>2, <3>3 DEF ServesOne
    <3> QED BY <2>1, <3>4 DEF Serves
  <2>5. CASE outcome' = Answer(r.kid, r.size, "rejected") /\ H \subseteq G
    BY <1>5, <2>1, <2>5 DEF Serves, ServesOne
  <2> QED BY <2>2, <2>4, <2>5
<1>8. ASSUME UNCHANGED Fifo!vars PROVE Serves(c, d)
  <2>1. outcome' = outcome /\ queue' = queue
    BY <1>8 DEF Fifo!vars
  <2>2. H \subseteq G
    BY <2>1 DEF G, H
  <2> QED BY <1>5, <2>1, <2>2 DEF Serves
<1> QED BY <1>6, <1>7, <1>8 DEF Fifo!Next, Fifo!Proc, c, d

-------------------------------------------------------------------------------
(* shadowlru and partslab: queues that hold every object they were asked   *)
(* for.                                                                    *)
QueueP == INSTANCE LruProofs WITH Sizes <- Nat \ {0}

(* A queue of objects of R, each once. *)
HoldsOnce(q, R) == q \in Seq(QueueP!Requests) /\ QueueP!ToSet(q) \subseteq R /\ QueueP!Distinct(q)

(* The bytes a key takes in a queue. *)
BytesOfKey(q, k) == QueueP!BytesAt(q, {i \in DOMAIN q : q[i].kid = k})

LEMMA QueueIsSized == QueueP!SizesAssumption
BY PolicyAssumptions DEF QueueP!SizesAssumption, Lru!SizesAssumption

LEMMA HeldAre ==
  ASSUME NEW R, NEW q, HoldsOnce(q, R)
  PROVE  q \in Seq(R)
<1>1. DOMAIN q = 1 .. Len(q) /\ Len(q) \in Nat /\ \A i \in 1 .. Len(q) : q[i] \in R
  BY DEF HoldsOnce, QueueP!ToSet
<1>2. q = [i \in 1 .. Len(q) |-> q[i]]
  BY DEF HoldsOnce
<1> QED BY <1>1, <1>2

(* An object that leaves takes its bytes with it. *)
LEMMA LeavesWithBytes ==
  ASSUME NEW R, NEW q, HoldsOnce(q, R), NEW k
  PROVE  /\ HoldsOnce(QueueP!Drop(q, k), R)
         /\ QueueP!KeysOf(QueueP!Drop(q, k)) = QueueP!KeysOf(q) \ {k}
         /\ QueueP!SizeOf(QueueP!Drop(q, k)) = QueueP!SizeOf(q) - BytesOfKey(q, k)
         /\ BytesOfKey(q, k) \in Nat /\ QueueP!SizeOf(q) \in Nat
         /\ QueueP!SizeOf(QueueP!Drop(q, k)) \in Nat
<1> DEFINE I == {i \in DOMAIN q : q[i].kid = k}
           p == QueueP!Drop(q, k)
<1>1. q \in Seq(QueueP!Requests) /\ QueueP!ToSet(q) \subseteq R /\ QueueP!Distinct(q)
  BY DEF HoldsOnce
<1>2. /\ p \in Seq(QueueP!Requests) /\ QueueP!Distinct(p)
      /\ QueueP!KeysOf(p) = QueueP!KeysOf(q) \ {k} /\ (k \notin QueueP!KeysOf(q) => p = q)
      /\ \A i \in DOMAIN q : q[i].kid = k => QueueP!SizeOf(q) = QueueP!SizeOf(p) + q[i].size
  BY <1>1, QueueIsSized, QueueP!Dropped
<1>3. QueueP!ToSet(p) \subseteq R
  BY <1>1, QueueIsSized, QueueP!DroppedSet
<1>4. /\ \A J \in SUBSET (DOMAIN q) : QueueP!BytesAt(q, J) \in Nat
      /\ \A i \in DOMAIN q : QueueP!BytesAt(q, {i}) = q[i].size
      /\ QueueP!BytesAt(q, {}) = 0
  BY <1>1, QueueIsSized, QueueP!BytesAtPlaces
<1>5. QueueP!SizeOf(p) \in Nat
  BY <1>2, QueueIsSized, QueueP!BytesAtPlaces DEF QueueP!SizeOf
<1>6. QueueP!SizeOf(q) \in Nat /\ QueueP!BytesAt(q, I) \in Nat
  BY <1>4 DEF QueueP!SizeOf
<1> HIDE DEF p
<1>7. CASE I = {}
  <2>1. k \notin QueueP!KeysOf(q)
    BY <1>7 DEF QueueP!KeysOf, QueueP!KeysAt
  <2>2. QueueP!BytesAt(q, I) = 0
    BY <1>4, <1>7
  <2> HIDE DEF I
  <2> QED BY <1>1, <1>2, <1>3, <1>5, <1>6, <2>1, <2>2 DEF HoldsOnce, BytesOfKey, I, p
<1>8. CASE I # {}
  <2>1. PICK i \in DOMAIN q : q[i].kid = k
    BY <1>8
  <2>2. \A j \in DOMAIN q : q[j].kid = k => j = i
    BY <1>1, <2>1 DEF QueueP!Distinct
  <2>3. I = {i}
    BY <2>1, <2>2
  <2>4. QueueP!BytesAt(q, I) = q[i].size /\ QueueP!SizeOf(q) = QueueP!SizeOf(p) + q[i].size
    BY <1>2, <1>4, <2>1, <2>3
  <2> HIDE DEF I
  <2>5. QueueP!SizeOf(p) = QueueP!SizeOf(q) - QueueP!BytesAt(q, I)
    BY <1>5, <1>6, <2>4
  <2> QED BY <1>2, <1>3, <1>5, <1>6, <2>5 DEF HoldsOnce, BytesOfKey, I, p
<1> QED BY <1>7, <1>8

(* The object asked for comes to the front in its new size. *)
LEMMA Renewed ==
  ASSUME NEW R, NEW q, HoldsOnce(q, R), NEW r \in R, r \in QueueP!Requests
  PROVE  /\ HoldsOnce(<<r>> \o QueueP!Drop(q, r.kid), R)
         /\ QueueP!KeysOf(<<r>> \o QueueP!Drop(q, r.kid)) = QueueP!KeysOf(q) \union {r.kid}
         /\ QueueP!SizeOf(<<r>> \o QueueP!Drop(q, r.kid)) =
              QueueP!SizeOf(q) - BytesOfKey(q, r.kid) + r.size
         /\ QueueP!SizeOf(q) - BytesOfKey(q, r.kid) + r.size \in Nat
<1> DEFINE p == QueueP!Drop(q, r.kid)
<1>1. /\ HoldsOnce(p, R) /\ QueueP!KeysOf(p) = QueueP!KeysOf(q) \ {r.kid}
      /\ QueueP!SizeOf(p) = QueueP!SizeOf(q) - BytesOfKey(q, r.kid) /\ QueueP!SizeOf(p) \in Nat
  BY LeavesWithBytes
<1> HIDE DEF p
<1>2. p \in Seq(QueueP!Requests) /\ QueueP!Distinct(p) /\ r.kid \notin QueueP!KeysOf(p)
  BY <1>1 DEF HoldsOnce
<1>3. /\ <<r>> \o p \in Seq(QueueP!Requests) /\ QueueP!Distinct(<<r>> \o p)
      /\ QueueP!KeysOf(<<r>> \o p) = QueueP!KeysOf(p) \union {r.kid}
      /\ QueueP!SizeOf(<<r>> \o p) = r.size + QueueP!SizeOf(p) /\ r.size \in Nat
  BY <1>2, QueueIsSized, QueueP!InFront
<1>4. QueueP!ToSet(<<r>> \o p) = {r} \union QueueP!ToSet(p)
  BY <1>2, QueueIsSized, QueueP!FrontSet
<1>5. QueueP!ToSet(<<r>> \o p) \subseteq R
  BY <1>1, <1>4 DEF HoldsOnce
<1>6. HoldsOnce(<<r>> \o p, R)
  BY <1>3, <1>5 DEF HoldsOnce
<1>7. QueueP!KeysOf(<<r>> \o p) = QueueP!KeysOf(q) \union {r.kid}
  BY <1>1, <1>3
<1>8. QueueP!SizeOf(<<r>> \o p) = QueueP!SizeOf(q) - BytesOfKey(q, r.kid) + r.size
      /\ QueueP!SizeOf(q) - BytesOfKey(q, r.kid) + r.size \in Nat
  BY <1>1, <1>3
<1> QED BY <1>6, <1>7, <1>8 DEF p

LEMMA EmptyHolds ==
  ASSUME NEW R
  PROVE  HoldsOnce(<<>>, R) /\ QueueP!SizeOf(<<>>) = 0
<1>1. <<>> \in Seq(QueueP!Requests) /\ DOMAIN <<>> = {}
  OBVIOUS
<1>2. QueueP!BytesAt(<<>>, {}) = 0
  BY <1>1, QueueIsSized, QueueP!BytesAtPlaces
<1> QED BY <1>1, <1>2 DEF HoldsOnce, QueueP!ToSet, QueueP!Distinct, QueueP!SizeOf

(* The length of a queue that holds its objects once. *)
LEMMA HeldOnceCount ==
  ASSUME NEW R, NEW q, HoldsOnce(q, R)
  PROVE  Len(q) = Cardinality(QueueP!KeysOf(q))
<1>1. QueueP!Cardinality(QueueP!KeysOf(q)) = Cardinality(QueueP!KeysOf(q))
  BY DEF QueueP!Cardinality, Cardinality
<1> QED BY <1>1, QueueIsSized, QueueP!DistinctKeys DEF HoldsOnce

LEMMA ShadowTerms ==
  /\ \A q, k : Shadow!Drop(q, k) = QueueP!Drop(q, k) /\ Parts!Drop(q, k) = QueueP!Drop(q, k)
  /\ \A q : Shadow!SizeOf(q) = QueueP!SizeOf(q) /\ Parts!SizeOf(q) = QueueP!SizeOf(q)
  /\ \A q, k : Shadow!BytesOf(q, k) = BytesOfKey(q, k) /\ Parts!BytesOf(q, k) = BytesOfKey(q, k)
  /\ \A q : Shadow!KeysOf(q) = QueueP!KeysOf(q) /\ Parts!KeysOf(q) = QueueP!KeysOf(q)
  /\ \A G : Shadow!Cardinality(G) = Cardinality(G) /\ Parts!Cardinality(G) = Cardinality(G)
  /\ Shadow!Requests \subseteq QueueP!Requests /\ Parts!Requests \subseteq QueueP!Requests
<1>1. \A q, I : Shadow!BytesAt(q, I) = QueueP!BytesAt(q, I) /\ Parts!BytesAt(q, I) = QueueP!BytesAt(q, I)
  BY DEF Shadow!BytesAt, QueueP!BytesAt, Parts!BytesAt,
         Shadow!SumFunctionOnSet, QueueP!SumFunctionOnSet, Parts!SumFunctionOnSet,
         Shadow!FoldFunctionOnSet, QueueP!FoldFunctionOnSet, Parts!FoldFunctionOnSet,
         Shadow!MapThenFoldSet, QueueP!MapThenFoldSet, Parts!MapThenFoldSet
<1>2. \A q, k : Shadow!Drop(q, k) = QueueP!Drop(q, k) /\ Parts!Drop(q, k) = QueueP!Drop(q, k)
  BY DEF Shadow!Drop, QueueP!Drop, Parts!Drop, Shadow!Erase, QueueP!Erase, Parts!Erase,
         Shadow!ToSet, QueueP!ToSet, Parts!ToSet
<1>3. \A q : Shadow!SizeOf(q) = QueueP!SizeOf(q) /\ Parts!SizeOf(q) = QueueP!SizeOf(q)
  BY <1>1 DEF Shadow!SizeOf, QueueP!SizeOf, Parts!SizeOf
<1>4. \A q, k : Shadow!BytesOf(q, k) = BytesOfKey(q, k) /\ Parts!BytesOf(q, k) = BytesOfKey(q, k)
  BY <1>1 DEF Shadow!BytesOf, Parts!BytesOf, BytesOfKey
<1>5. \A q : Shadow!KeysOf(q) = QueueP!KeysOf(q) /\ Parts!KeysOf(q) = QueueP!KeysOf(q)
  BY DEF Shadow!KeysOf, QueueP!KeysOf, Parts!KeysOf, Shadow!KeysAt, QueueP!KeysAt, Parts!KeysAt
<1>6. \A G : Shadow!Cardinality(G) = Cardinality(G) /\ Parts!Cardinality(G) = Cardinality(G)
  BY DEF Shadow!Cardinality, Parts!Cardinality, Cardinality
<1>7. Shadow!Requests \subseteq QueueP!Requests /\ Parts!Requests \subseteq QueueP!Requests
  BY PolicyAssumptions DEF Shadow!Requests, Parts!Requests, QueueP!Requests, Lru!SizesAssumption
<1> QED BY <1>2, <1>3, <1>4, <1>5, <1>6, <1>7

ShadowBooks ==
  /\ HoldsOnce(queue, Shadow!Requests) /\ bytes_cached = QueueP!SizeOf(queue)
  /\ seen \subseteq Keys /\ removed \subseteq Keys

LEMMA ShadowBooksInit ==
  ASSUME Shadow!Init
  PROVE  ShadowBooks
BY EmptyHolds DEF Shadow!Init, ShadowBooks

LEMMA ShadowBooksStep ==
  ASSUME ShadowBooks, Shadow!Next \/ UNCHANGED Shadow!vars
  PROVE  ShadowBooks'
<1>1. ASSUME NEW r \in Shadow!Requests, Shadow!Proc(r) PROVE ShadowBooks'
  <2>1. /\ queue' = <<r>> \o QueueP!Drop(queue, r.kid)
        /\ bytes_cached' = QueueP!SizeOf(queue) - BytesOfKey(queue, r.kid) + r.size
        /\ seen' = seen \union {r.kid} /\ removed' = {} /\ r.kid \in Keys
    BY <1>1, ShadowTerms DEF Shadow!Proc, Shadow!Refill, ShadowBooks, Shadow!Requests
  <2>2. /\ HoldsOnce(queue', Shadow!Requests)
        /\ QueueP!SizeOf(queue') = QueueP!SizeOf(queue) - BytesOfKey(queue, r.kid) + r.size
    BY <2>1, ShadowTerms, Renewed DEF ShadowBooks
  <2> QED BY <2>1, <2>2 DEF ShadowBooks
<1>2. ASSUME NEW k \in Keys, Shadow!RemoveKey(k) PROVE ShadowBooks'
  <2>1. /\ \/ /\ queue' = QueueP!Drop(queue, k)
              /\ bytes_cached' = QueueP!SizeOf(queue) - BytesOfKey(queue, k)
           \/ queue' = queue /\ bytes_cached' = bytes_cached
        /\ seen' = seen /\ removed' = {k}
    BY <1>2, ShadowTerms DEF Shadow!RemoveKey, ShadowBooks
  <2>2. /\ HoldsOnce(QueueP!Drop(queue, k), Shadow!Requests)
        /\ QueueP!SizeOf(QueueP!Drop(queue, k)) = QueueP!SizeOf(queue) - BytesOfKey(queue, k)
    BY LeavesWithBytes DEF ShadowBooks
  <2> QED BY <2>1, <2>2 DEF ShadowBooks
<1>3. ASSUME UNCHANGED Shadow!vars PROVE ShadowBooks'
  BY <1>3 DEF Shadow!vars, ShadowBooks
<1> QED BY <1>1, <1>2, <1>3 DEF Shadow!Next

LEMMA ShadowIsConsistent ==
  ASSUME ShadowBooks
  PROVE  Shadow!Consistent /\ Shadow!TypeOK
<1>1. queue \in Seq(Shadow!Requests) /\ Len(queue) = Cardinality(QueueP!KeysOf(queue))
  BY HeldAre, HeldOnceCount DEF ShadowBooks
<1>2. QueueP!SizeOf(queue) \in Nat
  BY LeavesWithBytes DEF ShadowBooks
<1> QED BY <1>1, <1>2, ShadowTerms DEF ShadowBooks, Shadow!Consistent, Shadow!TypeOK

PartBooks ==
  /\ klassOf \in [FewKeys -> Parts!Klasses]
  /\ parts = [p \in Parts!Klasses |-> parts[p]] /\ partBytes = [p \in Parts!Klasses |-> partBytes[p]]
  /\ \A p \in Parts!Klasses :
       /\ HoldsOnce(parts[p], {r \in Parts!Requests : klassOf[r.kid] = p})
       /\ partBytes[p] = QueueP!SizeOf(parts[p])

LEMMA PartBooksInit ==
  ASSUME Parts!Init
  PROVE  PartBooks
BY EmptyHolds DEF Parts!Init, PartBooks

LEMMA PartBooksStep ==
  ASSUME PartBooks, Parts!Next \/ UNCHANGED Parts!vars
  PROVE  PartBooks'
<1>1. ASSUME NEW r \in Parts!Requests, Parts!Proc(r) PROVE PartBooks'
  <2> DEFINE p == klassOf[r.kid]
             R(l) == {e \in Parts!Requests : klassOf[e.kid] = l}
  <2>1. /\ parts' = [parts EXCEPT ![p] = <<r>> \o QueueP!Drop(@, r.kid)]
        /\ partBytes' = [partBytes EXCEPT ![p] = @ - BytesOfKey(parts[p], r.kid) + r.size]
        /\ klassOf' = klassOf
    BY <1>1, ShadowTerms DEF Parts!Proc
  <2>2. p \in Parts!Klasses /\ r \in R(p) /\ r \in QueueP!Requests
    BY ShadowTerms DEF PartBooks, Parts!Requests
  <2>3. HoldsOnce(parts[p], R(p)) /\ partBytes[p] = QueueP!SizeOf(parts[p])
    BY <2>2 DEF PartBooks
  <2>4. /\ HoldsOnce(<<r>> \o QueueP!Drop(parts[p], r.kid), R(p))
        /\ QueueP!SizeOf(<<r>> \o QueueP!Drop(parts[p], r.kid)) =
             QueueP!SizeOf(parts[p]) - BytesOfKey(parts[p], r.kid) + r.size
    BY <2>2, <2>3, Renewed
  <2>5. ASSUME NEW l \in Parts!Klasses
        PROVE  HoldsOnce(parts'[l], R(l)) /\ partBytes'[l] = QueueP!SizeOf(parts'[l])
    <3>1. CASE l = p
      <4>1. /\ parts'[l] = <<r>> \o QueueP!Drop(parts[p], r.kid)
            /\ partBytes'[l] = partBytes[p] - BytesOfKey(parts[p], r.kid) + r.size
        BY <2>1, <2>2, <3>1 DEF PartBooks
      <4> HIDE DEF p, R
      <4> QED BY <2>3, <2>4, <3>1, <4>1
    <3>2. CASE l # p
      <4>1. parts'[l] = parts[l] /\ partBytes'[l] = partBytes[l]
        BY <2>1, <3>2 DEF PartBooks
      <4> QED BY <4>1 DEF PartBooks
    <3> QED BY <3>1, <3>2
  <2>6. /\ parts' = [l \in Parts!Klasses |-> parts'[l]]
        /\ partBytes' = [l \in Parts!Klasses |-> partBytes'[l]]
    BY <2>1 DEF PartBooks
  <2> QED BY <2>1, <2>5, <2>6 DEF PartBooks
<1>2. ASSUME UNCHANGED Parts!vars PROVE PartBooks'
  BY <1>2 DEF Parts!vars, PartBooks
<1> QED BY <1>1, <1>2 DEF Parts!Next

LEMMA PartsAreConsistent ==
  ASSUME PartBooks
  PROVE  Parts!Consistent /\ Parts!TypeOK
<1>1. ASSUME NEW p \in Parts!Klasses
      PROVE  /\ \A i \in DOMAIN parts[p] : klassOf[parts[p][i].kid] = p
             /\ Parts!Cardinality(Parts!KeysOf(parts[p])) = Len(parts[p])
             /\ partBytes[p] = Parts!SizeOf(parts[p]) /\ parts[p] \in Seq(Parts!Requests)
  <2> DEFINE R == {r \in Parts!Requests : klassOf[r.kid] = p}
  <2>1. HoldsOnce(parts[p], R) /\ partBytes[p] = QueueP!SizeOf(parts[p])
    BY DEF PartBooks
  <2>2. \A i \in DOMAIN parts[p] : parts[p][i] \in R
    BY <2>1 DEF HoldsOnce, QueueP!ToSet
  <2>3. parts[p] \in Seq(R) /\ Len(parts[p]) = Cardinality(QueueP!KeysOf(parts[p]))
    BY <2>1, HeldAre, HeldOnceCount
  <2>4. parts[p] \in Seq(Parts!Requests)
    BY <2>3
  <2> QED BY <2>1, <2>2, <2>3, <2>4, ShadowTerms
<1> QED BY <1>1 DEF PartBooks, Parts!Consistent, Parts!TypeOK

-------------------------------------------------------------------------------
(* The policies together.                                                  *)

(* Those whose lists and sums are followed here. *)
Serving  == {"lru", "fifo", "clock", "lruk", "victimcache", "flashcache", "flashcachelruk"}
Followed == Serving \union {"shadowlru", "partslab"}

Books ==
  /\ policy = "lru" => LruBooks
  /\ policy = "fifo" => FifoBooks
  /\ policy = "clock" => ClockBooks
  /\ policy = "lruk" => LrukBooks
  /\ policy = "victimcache" => VictimBooks
  /\ policy = "flashcache" => FlashBooks
  /\ policy = "flashcachelruk" => KlruBooks
  /\ policy = "shadowlru" => ShadowBooks
  /\ policy = "partslab" => PartBooks

LEMMA BooksInit == Init => Books
BY LruBooksInit, FifoBooksInit, ClockBooksInit, LrukBooksInit, VictimBooksInit, FlashBooksInit,
   KlruBooksInit, ShadowBooksInit, PartBooksInit
   DEF Init, Books

(* What a step of the program is when the chosen policy is none of those   *)
(* that OnlyTheChosen tells of.                                            *)
LEMMA AlsoChosen ==
  ASSUME [Next]_vars
  PROVE  /\ policy = "lru" => Lru!Next \/ UNCHANGED Lru!vars
         /\ policy = "fifo" => Fifo!Next \/ UNCHANGED Fifo!vars
         /\ policy = "shadowlru" => Shadow!Next \/ UNCHANGED Shadow!vars
         /\ policy = "partslab" => Parts!Next \/ UNCHANGED Parts!vars
         /\ policy = "segment_util" =>
              \/ \E k \in FewKeys, s \in AlsoTooLarge : outcome' = Answer(k, s, "rejected")
              \/ outcome' = outcome
         /\ policy \notin Serving \union {"segment_util"} => outcome' = outcome
<1>1. CASE Next
  <2>1. ASSUME NEW r \in Pages!Requests, Pages!Proc(r)
        PROVE  \/ \E k \in FewKeys, s \in AlsoTooLarge : outcome' = Answer(k, s, "rejected")
               \/ outcome' = outcome
    BY <2>1 DEF Pages!Requests, Pages!Proc, Pages!Collect, Pages!StartPlacing, Answer
  <2>2. Pages!Next => \/ \E k \in FewKeys, s \in AlsoTooLarge : outcome' = Answer(k, s, "rejected")
                      \/ outcome' = outcome
    BY <2>1 DEF Pages!Next, Pages!Proceed, Pages!Place, Pages!Exit
  <2> QED BY <1>1, <2>2 DEF Next, RunLru, RunShadow, RunFifo, RunClock, RunLruk, RunVictim,
             RunFlash, RunKlru, RunPages, RunShares, RunSlabs, RunParts, sharedVars, Serving
<1>2. CASE UNCHANGED vars
  <2>1. /\ outcome' = outcome /\ queue' = queue /\ current_size' = current_size
        /\ bytes_cached' = bytes_cached /\ map' = map /\ global_mem' = global_mem
        /\ curve' = curve /\ removed' = removed /\ seen' = seen
        /\ klassOf' = klassOf /\ parts' = parts /\ partBytes' = partBytes
    BY <1>2 DEF vars, sharedVars, lruVars, shadowVars, removeVars, otherVars, partVars
  <2>2. UNCHANGED Lru!vars
    BY <2>1 DEF Lru!vars
  <2>3. UNCHANGED Fifo!vars
    BY <2>1 DEF Fifo!vars
  <2>4. UNCHANGED Shadow!vars
    BY <2>1 DEF Shadow!vars
  <2>5. UNCHANGED Parts!vars
    BY <2>1 DEF Parts!vars
  <2> QED BY <2>1, <2>2, <2>3, <2>4, <2>5
<1> QED BY <1>1, <1>2

LEMMA BooksStep == Books /\ [Next]_vars => Books'
<1> SUFFICES ASSUME Books, [Next]_vars PROVE Books'
  OBVIOUS
<1>1. policy' = policy
  BY OnlyTheChosen
<1>2. policy = "lru" => LruBooks'
  BY AlsoChosen, LruBooksStep DEF Books
<1>3. policy = "fifo" => FifoBooks'
  BY AlsoChosen, FifoBooksStep DEF Books
<1>4. policy = "clock" => ClockBooks'
  BY OnlyTheChosen, ClockBooksStep DEF Books
<1>5. policy = "lruk" => LrukBooks'
  BY OnlyTheChosen, LrukBooksStep DEF Books
<1>6. policy = "victimcache" => VictimBooks'
  BY OnlyTheChosen, VictimBooksStep DEF Books
<1>7. policy = "flashcache" => FlashBooks'
  BY OnlyTheChosen, FlashBooksStep DEF Books
<1>8. policy = "flashcachelruk" => KlruBooks'
  BY OnlyTheChosen, KlruBooksStep DEF Books
<1>9. policy = "shadowlru" => ShadowBooks'
  BY AlsoChosen, ShadowBooksStep DEF Books
<1>10. policy = "partslab" => PartBooks'
  BY AlsoChosen, PartBooksStep DEF Books
<1> QED BY <1>1, <1>2, <1>3, <1>4, <1>5, <1>6, <1>7, <1>8, <1>9, <1>10 DEF Books

LEMMA BooksKept == Spec => []Books
BY BooksInit, BooksStep, PTL DEF Spec

(* No assertion of lruk and flashcachelruk fails and victimcache reads no  *)
(* empty list, unless an object is larger than the queue or the tier it    *)
(* has to go to.                                                           *)
THEOREM OversizeIsTheOnlyDeath == Spec => []DiesOnlyOversize
<1>1. VictimBooks => Victim!CrashesOnlyOversize
  BY DEF VictimBooks
<1>2. LrukBooks => Lruk!AbortsOnlyOversize
  BY DEF LrukBooks
<1>3. KlruBooks => Klru!AbortsOnlyOversize
  BY DEF KlruBooks
<1>4. Books => DiesOnlyOversize
  BY <1>1, <1>2, <1>3 DEF Books, DiesOnlyOversize
<1> QED BY <1>4, BooksKept, PTL

LEMMA FollowedAreConsistent ==
  ASSUME Books, policy \in Followed
  PROVE  Consistent /\ TypeOK
<1>1. CASE policy = "lru"
  BY <1>1, LruIsConsistent DEF Books, Consistent, TypeOK
<1>2. CASE policy = "fifo"
  BY <1>2, FifoIsConsistent DEF Books, Consistent, TypeOK
<1>3. CASE policy = "clock"
  BY <1>3, ClockIsConsistent DEF Books, Consistent, TypeOK
<1>4. CASE policy = "lruk"
  BY <1>4, LrukIsConsistent DEF Books, Consistent, TypeOK
<1>5. CASE policy = "victimcache"
  BY <1>5, VictimIsConsistent DEF Books, Consistent, TypeOK
<1>6. CASE policy = "flashcache"
  BY <1>6, FlashIsConsistent DEF Books, Consistent, TypeOK
<1>7. CASE policy = "flashcachelruk"
  BY <1>7, KlruIsConsistent DEF Books, Consistent, TypeOK
<1>8. CASE policy = "shadowlru"
  BY <1>8, ShadowIsConsistent DEF Books, Consistent, TypeOK
<1>9. CASE policy = "partslab"
  BY <1>9, PartsAreConsistent DEF Books, Consistent, TypeOK
<1> QED BY <1>1, <1>2, <1>3, <1>4, <1>5, <1>6, <1>7, <1>8, <1>9 DEF Followed, Serving

(* The policies that serve objects: in the middle of every cascade of      *)
(* evictions, the lists, the hash table and the byte counts kept by hand   *)
(* agree, and no queue or tier holds more than it may.                     *)
THEOREM BooksAgree == Spec => [](policy \in Followed => Consistent)
<1>1. Books => (policy \in Followed => Consistent)
  BY FollowedAreConsistent
<1> QED BY <1>1, BooksKept, PTL

(* The same policies: all variables stay in their types. *)
THEOREM BooksAreTyped == Spec => [](policy \in Followed => TypeOK)
<1>1. Books => (policy \in Followed => TypeOK)
  BY FollowedAreConsistent
<1> QED BY <1>1, BooksKept, PTL

-------------------------------------------------------------------------------
(* Each of them is a cache.                                                *)

LEMMA CacheBegins == Init => C!CacheInit
<1> SUFFICES ASSUME Init PROVE C!CacheInit
  OBVIOUS
<1>1. outcome = [result |-> "none"]
  BY DEF Init, Lru!Init
<1>2. Contents = [k \in {} |-> 0]
  <2>1. CASE policy = "lru"
    <3>1. map = {}
      BY DEF Init, Lru!Init
    <3> QED BY <2>1, <3>1 DEF Contents, Lru!Contents
  <2>2. CASE policy = "fifo"
    <3>1. queue = <<>>
      BY DEF Init, Fifo!Init
    <3>2. {c.kid : c \in {d \in Fifo!ToSet(queue) : d.in_hash}} = {}
      BY <3>1, FifoTerms DEF ToSet
    <3> QED BY <2>2, <3>2 DEF Contents, Fifo!Contents
  <2>3. CASE policy \in Serving \ {"lru", "fifo"}
    <3>1. DOMAIN allObjects = {} /\ allObjects = [k \in {} |-> 0]
      BY DEF Init, Clock!Init
    <3>2. Contents = IF policy = "clock" THEN allObjects
                     ELSE [k \in DOMAIN allObjects |-> allObjects[k].size]
      BY <2>3 DEF Serving, Contents, Clock!Contents, Lruk!Contents, Victim!Contents,
                  Flash!Contents, Klru!Contents
    <3> QED BY <3>1, <3>2
  <2>4. CASE policy \notin Serving
    BY <2>4 DEF Serving, Contents
  <2> QED BY <2>1, <2>2, <2>3, <2>4
<1> QED BY <1>1, <1>2 DEF C!CacheInit

LEMMA CacheGoesOn == Books /\ Books' /\ [Next]_vars => [C!CacheNext]_(C!cvars)
<1> SUFFICES ASSUME Books, Books', [Next]_vars PROVE [C!CacheNext]_(C!cvars)
  OBVIOUS
<1>1. policy' = policy
  BY OnlyTheChosen
<1>2. ASSUME NEW c, NEW d, Contents = c, Contents' = d, Serves(c, d) PROVE C!CacheNext
  BY <1>2, ServingIsCaching
<1>3. CASE policy = "lru"
  <2>1. Serves(Lru!Contents, Lru!Contents')
    BY <1>1, <1>3, AlsoChosen, LruServes DEF Books
  <2>2. Contents = Lru!Contents /\ Contents' = Lru!Contents'
    BY <1>1, <1>3 DEF Contents
  <2> QED BY <1>2, <2>1, <2>2
<1>4. CASE policy = "fifo"
  <2>1. Serves(Fifo!Contents, Fifo!Contents')
    BY <1>1, <1>4, AlsoChosen, FifoServes DEF Books
  <2>2. Contents = Fifo!Contents /\ Contents' = Fifo!Contents'
    BY <1>1, <1>4 DEF Contents
  <2> QED BY <1>2, <2>1, <2>2
<1>5. CASE policy = "clock"
  <2>1. Serves(allObjects, allObjects') \/ UNCHANGED <<allObjects, outcome>>
    BY <1>5, OnlyTheChosen, ClockServes DEF Books
  <2>2. Contents = allObjects /\ Contents' = allObjects'
    BY <1>1, <1>5 DEF Contents, Clock!Contents
  <2>3. CASE UNCHANGED <<allObjects, outcome>>
    BY <2>2, <2>3 DEF C!cvars
  <2> QED BY <1>2, <2>1, <2>2, <2>3
<1>6. CASE policy \in {"lruk", "victimcache", "flashcache", "flashcachelruk"}
  <2>1. Serves(Sized(allObjects), Sized(allObjects'))
    <3>1. CASE policy = "lruk"
      BY <3>1, OnlyTheChosen, LrukServes DEF Books, LrukBooks
    <3>2. CASE policy = "victimcache"
      BY <3>2, OnlyTheChosen, VictimServes DEF Books
    <3>3. CASE policy = "flashcache"
      BY <3>3, OnlyTheChosen, FlashServes DEF Books, FlashBooks
    <3>4. CASE policy = "flashcachelruk"
      BY <3>4, OnlyTheChosen, KlruServes DEF Books, KlruBooks
    <3> QED BY <1>6, <3>1, <3>2, <3>3, <3>4
  <2>2. Contents = Sized(allObjects) /\ Contents' = Sized(allObjects')
    BY <1>1, <1>6 DEF Contents, Sized, Lruk!Contents, Victim!Contents, Flash!Contents,
                      Klru!Contents
  <2> QED BY <1>2, <2>1, <2>2
<1>7. CASE policy \notin Serving
  <2>1. Contents = [k \in {} |-> 0] /\ Contents' = [k \in {} |-> 0]
    BY <1>1, <1>7 DEF Contents, Serving
  <2>2. Kept(Contents, Contents', {})
    BY <2>1 DEF Kept
  <2>3. \/ \E k \in FewKeys, s \in AlsoTooLarge : outcome' = Answer(k, s, "rejected")
        \/ outcome' = outcome
    BY <1>7, AlsoChosen
  <2>4. Serves(Contents, Contents')
    BY <2>2, <2>3, RequestsAreKnown DEF Serves, ServesOne
  <2> QED BY <2>4, ServingIsCaching
<1> QED BY <1>3, <1>4, <1>5, <1>6, <1>7 DEF Serving

(* Every policy is a cache as the replay loop expects one: a request hits  *)
(* exactly when its key is held in its size, a miss installs it, and       *)
(* nothing leaves or enters otherwise.                                     *)
THEOREM PoliciesAreCaches == Spec => IsCache
<1>1. Init => C!CacheInit
  BY CacheBegins
<1>2. Books /\ Books' /\ [Next]_vars => [C!CacheNext]_(C!cvars)
  BY CacheGoesOn
<1> QED BY <1>1, <1>2, BooksKept, PTL DEF Spec, IsCache, C!CacheSpec
===============================================================================
