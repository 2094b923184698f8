---------------------------- MODULE SimulatorQueues ----------------------------
(***************************************************************************)
(* The books of lruk and flashcachelruk, whose objects climb from queue to *)
(* queue and are pushed down by others, for every trace, every number of   *)
(* queues and every size: each queue counts the bytes of its objects, also *)
(* while a cascade has some of them in hand, and where an object was taken *)
(* out there is room for what pushed it out.                               *)
(***************************************************************************)
EXTENDS SimulatorProofs

-------------------------------------------------------------------------------
(* The queues of lruk and of flashcachelruk.                               *)

(* Objects have a size, and a queue counts those of its objects. *)
HaveSizes == \A x \in DOMAIN allObjects : allObjects[x].size \in Nat
QueuesCount(levels) ==
  /\ kLruSizes \in [levels -> Nat]
  /\ \A l \in levels : kLruSizes[l] = Bytes(ToSet(kLru[l]))

(* What lets objects of some queue and of no other call in a leaf. *)
LEMMA QueueWeights ==
  ASSUME NEW keys, NEW levels, QueuesHold(keys, levels), HaveSizes
  PROVE  /\ \A x \in DOMAIN allObjects : Weights[x] = allObjects[x].size /\ Weights[x] \in Nat
         /\ \A l \in levels : /\ IsFiniteSet(ToSet(kLru[l]))
                              /\ \A x \in ToSet(kLru[l]) : Weights[x] \in Nat
                              /\ Bytes(ToSet(kLru[l])) \in Nat
<1>1. \A x \in DOMAIN allObjects : Weights[x] = allObjects[x].size /\ Weights[x] \in Nat
  BY DEF HaveSizes, Weights
<1>2. ASSUME NEW l \in levels
      PROVE  /\ IsFiniteSet(ToSet(kLru[l])) /\ \A x \in ToSet(kLru[l]) : Weights[x] \in Nat
             /\ Bytes(ToSet(kLru[l])) \in Nat
  <2>1. kLru[l] \in Seq(keys)
    BY DEF QueuesHold
  <2>2. IsFiniteSet(ToSet(kLru[l]))
    BY <2>1, DistinctLength
  <2>3. \A x \in ToSet(kLru[l]) : Weights[x] \in Nat
    BY <1>1 DEF QueuesHold
  <2> QED BY <2>2, <2>3, SumNat DEF Bytes
<1> QED BY <1>1, <1>2

(* An object that leaves its queue takes its bytes along. *)
LeavesFrom(x, q) ==
  /\ kLru' = [kLru EXCEPT ![q] = Erase(@, {x})]
  /\ kLruSizes' = [kLruSizes EXCEPT ![q] = @ - allObjects[x].size]
HasLeft(levels, x, q) ==
  /\ QueuesCount(levels)' /\ \A l \in levels : kLruSizes'[l] =< kLruSizes[l]
  /\ kLruSizes'[q] + allObjects[x].size = kLruSizes[q]

LEMMA LeavesItsCount ==
  ASSUME NEW keys, NEW levels, QueuesHold(keys, levels), HaveSizes, QueuesCount(levels),
         NEW x \in DOMAIN allObjects, NEW q \in levels, q = allObjects[x].queueNumber,
         x \in ToSet(kLru[q]),
         LeavesFrom(x, q),
         \A y \in DOMAIN allObjects \ {x} :
           y \in DOMAIN allObjects' /\ allObjects'[y].size = allObjects[y].size
  PROVE  HasLeft(levels, x, q)
<1> DEFINE f == Weights
           g == Weights'
           Q == ToSet(kLru[q])
<1>1. /\ kLru' \in [levels -> Seq(keys)]
      /\ \A l \in levels : ToSet(kLru'[l]) = ToSet(kLru[l]) \ {x}
  BY LeavesItsQueue DEF LeavesFrom
<1>2. kLruSizes \in [levels -> Nat] /\ \A l \in levels : kLruSizes[l] = SumFunctionOnSet(f, ToSet(kLru[l]))
  BY DEF QueuesCount, Bytes
<1>3. /\ f[x] = allObjects[x].size /\ f[x] \in Nat /\ x \in Q
      /\ \A l \in levels : /\ IsFiniteSet(ToSet(kLru[l]))
                           /\ \A y \in ToSet(kLru[l]) : f[y] \in Nat
  BY QueueWeights
<1>4. \A y \in DOMAIN allObjects \ {x} : g[y] = f[y]
  BY DEF Weights
<1>5. \A l \in levels : \A y \in ToSet(kLru[l]) : y \in DOMAIN allObjects /\ (l # q => y # x)
  BY DEF QueuesHold
<1>6. \A l \in levels : (Bytes(ToSet(kLru[l])))' = SumFunctionOnSet(g, ToSet(kLru'[l]))
  BY DEF Bytes
<1>7. \A l \in levels : kLruSizes'[l] = IF l = q THEN kLruSizes[q] - f[x] ELSE kLruSizes[l]
  BY <1>2, <1>3 DEF LeavesFrom
<1>8. DOMAIN kLruSizes' = levels /\ kLruSizes' = [l \in levels |-> kLruSizes'[l]]
  BY <1>2 DEF LeavesFrom
<1> HIDE DEF f, g, Q
<1>9. ASSUME NEW l \in levels
      PROVE  /\ kLruSizes'[l] = SumFunctionOnSet(g, ToSet(kLru'[l])) /\ kLruSizes'[l] \in Nat
             /\ kLruSizes'[l] =< kLruSizes[l]
  <2> DEFINE G == ToSet(kLru[l])
  <2>1. IsFiniteSet(G) /\ (\A y \in G : f[y] \in Nat) /\ \A y \in G \ {x} : g[y] = f[y]
    BY <1>3, <1>4, <1>5
  <2>2. ToSet(kLru'[l]) = G \ {x} /\ kLruSizes[l] = SumFunctionOnSet(f, G) /\ (x \in G <=> l = q)
    BY <1>1, <1>2, <1>3, <1>5 DEF Q
  <2> HIDE DEF G
  <2>3. /\ SumFunctionOnSet(g, G \ {x}) \in Nat /\ SumFunctionOnSet(f, G) \in Nat
        /\ SumFunctionOnSet(g, G \ {x}) = SumFunctionOnSet(f, G) - (IF x \in G THEN f[x] ELSE 0)
    BY <2>1, WeighsLess
  <2> DEFINE all  == SumFunctionOnSet(f, G)
             rest == SumFunctionOnSet(g, G \ {x})
  <2>4. kLruSizes[l] = all /\ SumFunctionOnSet(g, ToSet(kLru'[l])) = rest
    BY <2>2
  <2>5. rest \in Nat /\ all \in Nat /\ (l = q => rest = all - f[x]) /\ (l # q => rest = all)
    BY <2>2, <2>3
  <2>6. (l = q => kLruSizes'[l] = all - f[x]) /\ (l # q => kLruSizes'[l] = all)
    BY <1>7, <2>4
  <2> HIDE DEF all, rest
  <2>7. kLruSizes'[l] = rest /\ rest =< all
    BY <1>3, <2>5, <2>6
  <2> QED BY <2>4, <2>5, <2>7
<1>10. QueuesCount(levels)'
  <2>1. kLruSizes' \in [levels -> Nat]
    BY <1>8, <1>9
  <2> QED BY <1>6, <1>9, <2>1 DEF QueuesCount
<1>11. kLruSizes'[q] + f[x] = kLruSizes[q]
  <2>1. kLruSizes[q] \in Nat
    BY <1>2
  <2> QED BY <1>3, <1>7, <2>1
<1>12. f[x] = allObjects[x].size
  BY <1>3
<1> QED BY <1>9, <1>10, <1>11, <1>12 DEF HasLeft

(* One call: what is popped takes its bytes along, what comes brings its   *)
(* own, and an object that is not popped is found where it should be.      *)
FoundInItsQueue ==
  \A x \in DOMAIN allObjects \ ToSet(call.objects) : x \in ToSet(kLru[allObjects[x].queueNumber])

Called(levels, k, O, I) ==
  /\ QueuesCount(levels)' /\ Bytes(O) \in Nat /\ Bytes(I) \in Nat /\ Bytes(O) =< kLruSizes[k]
  /\ kLruSizes'[k] = kLruSizes[k] - Bytes(O) + Bytes(I)
  /\ \A l \in levels : l # k => kLruSizes'[l] = kLruSizes[l]
  /\ O \subseteq ToSet(kLru[k]) /\ I \intersect O = {}
  /\ ToSet(kLru'[k]) = I \union (ToSet(kLru[k]) \ O)
  /\ \A l \in levels : l # k => kLru'[l] = kLru[l]

LEMMA CallCounts ==
  ASSUME NEW keys, NEW levels, QueuesHold(keys, levels), CallIsOut(keys, levels),
         HaveSizes, QueuesCount(levels), NEW k \in levels, k = call.k,
         NEW n \in 0 .. Len(kLru[k]), NEW O, O = ToSet(Behind(kLru[k], n)),
         NEW I, I = ToSet(call.objects),
         kLru' = [kLru EXCEPT ![k] = Reverse(call.objects) \o Upto(@, n)],
         kLruSizes' = [kLruSizes EXCEPT ![k] = @ - Bytes(O) + Bytes(I)],
         \A x \in DOMAIN allObjects \ O :
           x \in DOMAIN allObjects' /\ allObjects'[x].size = allObjects[x].size
  PROVE  Called(levels, k, O, I)
<1> DEFINE f == Weights
           g == Weights'
           q == kLru[k]
           stay == Upto(q, n)
           A == ToSet(stay)
           front == Reverse(call.objects)
<1>1. /\ kLru \in [levels -> Seq(keys)] /\ q \in Seq(keys) /\ IsInjective(q) /\ n \in 0 .. Len(q)
      /\ \A l \in levels : \A x \in ToSet(kLru[l]) : x \in DOMAIN allObjects /\ (l # k => x \notin ToSet(q))
  BY DEF QueuesHold
<1>2. /\ call.objects \in Seq(keys) /\ \A l \in levels : I \intersect ToSet(kLru[l]) = {}
      /\ I \subseteq DOMAIN allObjects
  BY DEF CallIsOut
<1>3. kLruSizes \in [levels -> Nat] /\ \A l \in levels : kLruSizes[l] = SumFunctionOnSet(f, ToSet(kLru[l]))
  BY DEF QueuesCount, Bytes
<1>4. /\ \A x \in DOMAIN allObjects : f[x] \in Nat
      /\ \A l \in levels : /\ IsFiniteSet(ToSet(kLru[l]))
                           /\ \A y \in ToSet(kLru[l]) : f[y] \in Nat
  BY QueueWeights
<1>5. IsFiniteSet(I)
  BY <1>2, DistinctLength
<1>6. \A y \in DOMAIN allObjects \ O : g[y] = f[y]
  BY DEF Weights
<1>7. /\ \A l \in levels : (Bytes(ToSet(kLru[l])))' = SumFunctionOnSet(g, ToSet(kLru'[l]))
      /\ Bytes(O) = SumFunctionOnSet(f, O) /\ Bytes(I) = SumFunctionOnSet(f, I)
  BY DEF Bytes
<1>8. /\ \A l \in levels : l # k => kLru'[l] = kLru[l] /\ kLruSizes'[l] = kLruSizes[l]
      /\ kLru'[k] = front \o stay /\ kLruSizes'[k] = kLruSizes[k] - Bytes(O) + Bytes(I)
      /\ DOMAIN kLruSizes' = levels /\ kLruSizes' = [l \in levels |-> kLruSizes'[l]]
  BY <1>1, <1>3
<1>9. q = kLru[k] /\ k \in levels
  OBVIOUS
<1> HIDE DEF f, g, q
<1>10. stay \in Seq(keys) /\ A \union O = ToSet(q) /\ A \intersect O = {}
  BY <1>1, <1>9, SplitAt
<1> HIDE DEF stay
<1>11. front \in Seq(keys) /\ ToSet(front) = I
  BY <1>2, Reversed
<1> HIDE DEF front
<1>12. ToSet(kLru'[k]) = I \union A
  <2> DEFINE p == front \o stay
  <2>1. p = front \o stay /\ kLru'[k] = p
    BY <1>8
  <2> HIDE DEF p
  <2>2. ToSet(p) = ToSet(front) \union ToSet(stay)
    BY ONLY <1>10, <1>11, <2>1, Concatenation
  <2> QED BY <1>11, <2>1, <2>2 DEF A
<1> HIDE DEF A
<1>13. O \subseteq ToSet(kLru[k]) /\ I \intersect O = {} /\ I \intersect A = {} /\ A = ToSet(kLru[k]) \ O
  BY <1>2, <1>9, <1>10
<1>14. IsFiniteSet(ToSet(q)) /\ IsFiniteSet(A) /\ \A x \in ToSet(q) : f[x] \in Nat
  <2>1. IsFiniteSet(ToSet(q)) /\ A \subseteq ToSet(q)
    BY <1>4, <1>9, <1>13
  <2> QED BY <1>4, <1>9, <2>1, FS_Subset
<1>15. \A x \in I \union A : g[x] = f[x] /\ f[x] \in Nat
  BY <1>1, <1>2, <1>4, <1>6, <1>9, <1>13
<1>16. /\ SumFunctionOnSet(f, ToSet(q)) \in Nat /\ SumFunctionOnSet(f, A) \in Nat
       /\ SumFunctionOnSet(f, O) \in Nat
       /\ SumFunctionOnSet(f, ToSet(q)) = SumFunctionOnSet(f, A) + SumFunctionOnSet(f, O)
  <2>1. \A x \in A : f[x] = f[x]
    OBVIOUS
  <2> QED BY ONLY <1>10, <1>14, <2>1, WeighsInTwo
<1>17. /\ SumFunctionOnSet(f, I) \in Nat
       /\ SumFunctionOnSet(g, I \union A) = SumFunctionOnSet(f, I) + SumFunctionOnSet(f, A)
       /\ SumFunctionOnSet(g, I \union A) \in Nat
  <2>1. IsFiniteSet(I \union A)
    BY <1>5, <1>14, FS_Union
  <2>2. Ints(f, I \union A) /\ \A x \in I \union A : g[x] = f[x]
    BY <1>15 DEF Ints
  <2>3. SumFunctionOnSet(g, I \union A) = SumFunctionOnSet(f, I \union A)
    BY <2>1, <2>2, SumSame
  <2>4. SumFunctionOnSet(f, I \union A) = SumFunctionOnSet(f, I) + SumFunctionOnSet(f, A)
    BY <1>5, <1>13, <1>14, <2>2, SumUnion
  <2>5. SumFunctionOnSet(f, I) \in Nat /\ SumFunctionOnSet(f, I \union A) \in Nat
    BY <1>5, <1>15, <2>1, SumNat
  <2> QED BY <2>3, <2>4, <2>5
<1>18. kLruSizes[k] = SumFunctionOnSet(f, ToSet(q))
  BY <1>3, <1>9
<1>19. kLruSizes'[k] = SumFunctionOnSet(g, ToSet(kLru'[k])) /\ kLruSizes'[k] \in Nat
  <2>1. SumFunctionOnSet(g, ToSet(kLru'[k])) = Bytes(I) + SumFunctionOnSet(f, A)
    BY <1>7, <1>12, <1>17
  <2>2. kLruSizes'[k] = kLruSizes[k] - Bytes(O) + Bytes(I) /\ kLruSizes[k] = SumFunctionOnSet(f, A) + Bytes(O)
    BY <1>7, <1>8, <1>16, <1>18
  <2>3. Bytes(O) \in Nat /\ Bytes(I) \in Nat /\ SumFunctionOnSet(f, A) \in Nat
    BY <1>7, <1>16, <1>17
  <2> QED BY ONLY <2>1, <2>2, <2>3
<1>20. ASSUME NEW l \in levels, l # k
       PROVE  kLruSizes'[l] = SumFunctionOnSet(g, ToSet(kLru'[l])) /\ kLruSizes'[l] \in Nat
  <2> DEFINE G == ToSet(kLru[l])
  <2>1. \A x \in G : x \in DOMAIN allObjects \ O
    BY <1>1, <1>9, <1>13, <1>20
  <2>2. Ints(f, G) /\ IsFiniteSet(G) /\ \A x \in G : g[x] = f[x]
    BY <1>4, <1>6, <2>1 DEF Ints
  <2>3. SumFunctionOnSet(g, G) = SumFunctionOnSet(f, G)
    BY <2>2, SumSame
  <2> QED BY <1>3, <1>8, <1>20, <2>3
<1>21. QueuesCount(levels)'
  <2>1. \A l \in levels : kLruSizes'[l] = SumFunctionOnSet(g, ToSet(kLru'[l])) /\ kLruSizes'[l] \in Nat
    BY <1>19, <1>20
  <2>2. kLruSizes' \in [levels -> Nat]
    BY <1>8, <2>1
  <2> QED BY <1>7, <2>1, <2>2 DEF QueuesCount
<1>22. Bytes(O) =< kLruSizes[k]
  BY <1>7, <1>16, <1>18
<1> QED BY <1>7, <1>8, <1>12, <1>13, <1>16, <1>17, <1>21, <1>22 DEF Called

LEMMA WeighsOne ==
  ASSUME NEW f, NEW x, f[x] \in Nat
  PROVE  SumFunctionOnSet(f, {x}) = f[x]
<1>1. IsFiniteSet({}) /\ x \notin {} /\ Ints(f, {} \union {x})
  BY FS_EmptySet DEF Ints
<1>2. SumFunctionOnSet(f, {} \union {x}) = SumFunctionOnSet(f, {}) + f[x]
  BY <1>1, SumAdd
<1>3. SumFunctionOnSet(f, {}) = 0 /\ {} \union {x} = {x}
  BY SumEmpty
<1> QED BY <1>2, <1>3

-------------------------------------------------------------------------------
(* lruk.                                                                   *)

LEMMA LrukSums ==
  /\ \A q : Lruk!SizeOf(q) = Bytes(ToSet(q))
  /\ \A G : Lruk!Cardinality(G) = Cardinality(G)
  /\ KLRU_QUEUE_SIZE \in Nat /\ \A s \in Sizes : s \in Nat /\ s > 0
<1>1. \A f, G : Lruk!SumFunctionOnSet(f, G) = SumFunctionOnSet(f, G)
  BY DEF Lruk!SumFunctionOnSet, Lruk!FoldFunctionOnSet, Lruk!MapThenFoldSet,
         SumFunctionOnSet, FoldFunctionOnSet, MapThenFoldSet
<1>2. \A q : Lruk!SizeOf(q) = Bytes(ToSet(q))
  BY <1>1, LrukTerms DEF Lruk!SizeOf, Bytes, Weights
<1>3. \A G : Lruk!Cardinality(G) = Cardinality(G)
  BY DEF Lruk!Cardinality, Cardinality
<1>4. KLRU_QUEUE_SIZE \in Nat /\ \A s \in Sizes : s \in Nat /\ s > 0
  BY PolicyAssumptions DEF Lruk!QueuesAssumption
<1> QED BY <1>2, <1>3, <1>4

(* No queue is too full; what is on its way fits into the queue it goes    *)
(* to, once that is empty, unless it is a new object, and what stays in    *)
(* its queue fits without emptying it.                                     *)
LrukRoom ==
  /\ pc \in {"ready", "insert", "aborted"}
  /\ \A l \in Lruk!Levels : kLruSizes[l] =< KLRU_QUEUE_SIZE
  /\ pc # "ready" =>
       /\ call.sum = Bytes(ToSet(call.objects))
       /\ call.sum > KLRU_QUEUE_SIZE => call.k = 0
       /\ ~ call.updateWrites => call.sum + kLruSizes[call.k] =< KLRU_QUEUE_SIZE

LrukBooks ==
  /\ LrukInv /\ DOMAIN allObjects \subseteq Keys
  /\ QueuesCount(Lruk!Levels) /\ FoundInItsQueue /\ LrukRoom /\ Lruk!AbortsOnlyOversize

LEMMA LrukHaveSizes ==
  ASSUME LrukInv
  PROVE  HaveSizes
BY LrukSums DEF LrukInv, LrukItems, HaveSizes

LEMMA LrukBooksInit ==
  ASSUME Lruk!Init
  PROVE  LrukBooks
<1>1. /\ pc = "ready" /\ kLru = [k \in Lruk!Levels |-> <<>>] /\ kLruSizes = [k \in Lruk!Levels |-> 0]
      /\ DOMAIN allObjects = {}
  BY DEF Lruk!Init
<1>2. ToSet(<<>>) = {} /\ Bytes({}) = 0
  BY SumEmpty DEF ToSet, Bytes
<1>3. QueuesCount(Lruk!Levels)
  <2>1. kLruSizes \in [Lruk!Levels -> Nat]
    BY <1>1
  <2>2. \A l \in Lruk!Levels : kLruSizes[l] = Bytes(ToSet(kLru[l]))
    BY <1>1, <1>2
  <2> QED BY <2>1, <2>2 DEF QueuesCount
<1>4. FoundInItsQueue /\ Lruk!AbortsOnlyOversize
  BY <1>1 DEF FoundInItsQueue, Lruk!AbortsOnlyOversize
<1>5. LrukRoom
  BY <1>1, LrukSums DEF LrukRoom
<1> QED BY <1>1, <1>3, <1>4, <1>5, LrukInit DEF LrukBooks

(* Which objects are found where, when x goes its way alone. *)
LEMMA OthersAreFound ==
  ASSUME NEW x, FoundInItsQueue, call.objects = <<>>, ToSet(call'.objects) = {x},
         NEW levels, \A y \in DOMAIN allObjects : allObjects[y].queueNumber \in levels,
         \A l \in levels : ToSet(kLru'[l]) = ToSet(kLru[l]) \ {x},
         \A y \in DOMAIN allObjects' \ {x} : y \in DOMAIN allObjects /\ allObjects'[y] = allObjects[y]
  PROVE  FoundInItsQueue'
<1>1. ToSet(call.objects) = {}
  BY NothingInHand
<1>2. ASSUME NEW y \in DOMAIN allObjects' \ {x} PROVE y \in ToSet(kLru'[allObjects'[y].queueNumber])
  <2>1. y \in DOMAIN allObjects /\ allObjects'[y] = allObjects[y]
    BY <1>2
  <2>2. y \in ToSet(kLru[allObjects[y].queueNumber])
    BY <1>1, <2>1 DEF FoundInItsQueue
  <2> QED BY <1>2, <2>1, <2>2
<1> QED BY <1>2 DEF FoundInItsQueue

LEMMA LrukBooksHit ==
  ASSUME LrukBooks, pc = "ready", NEW r \in Lruk!Requests, Lruk!Hit(r)
  PROVE  QueuesCount(Lruk!Levels)' /\ FoundInItsQueue' /\ LrukRoom'
<1> DEFINE x == r.kid
           q == allObjects[x].queueNumber
           size == allObjects[x].size
<1>1. /\ x \in DOMAIN allObjects /\ kLru' = [kLru EXCEPT ![q] = Erase(@, {x})]
      /\ kLruSizes' = [kLruSizes EXCEPT ![q] = @ - size]
      /\ pc' = "insert" /\ call'.objects = <<x>> /\ call'.k = Min({q + 1, K_LRU - 1})
      /\ call'.sum = size /\ call'.updateWrites = (q + 1 # K_LRU) /\ allObjects' = allObjects
  BY LrukTerms DEF Lruk!Hit, Lruk!IsHit, Lruk!TakeOut, Lruk!Insert, Lruk!Promoted
<1>2. /\ LrukInv /\ QueuesHold(Keys, Lruk!Levels) /\ HaveSizes /\ QueuesCount(Lruk!Levels)
      /\ FoundInItsQueue /\ call.objects = <<>>
      /\ \A l \in Lruk!Levels : kLruSizes[l] =< KLRU_QUEUE_SIZE /\ kLruSizes[l] \in Nat
  BY LrukHaveSizes DEF LrukBooks, LrukInv, LrukRoom, QueuesCount
<1>3. /\ \A y \in DOMAIN allObjects : allObjects[y].queueNumber \in Lruk!Levels
      /\ q \in Lruk!Levels /\ size \in Nat
  BY <1>1, <1>2, LrukTerms DEF LrukInv, LrukItems, HaveSizes
<1>4. x \in ToSet(kLru[q])
  BY <1>1, <1>2, NothingInHand DEF FoundInItsQueue
<1> HIDE DEF x, q, size
<1>5. /\ QueuesCount(Lruk!Levels)' /\ \A l \in Lruk!Levels : kLruSizes'[l] =< kLruSizes[l]
      /\ kLruSizes'[q] + size = kLruSizes[q]
  <2>1. q = allObjects[x].queueNumber /\ size = allObjects[x].size
    BY DEF q, size
  <2>2. LeavesFrom(x, q)
    BY <1>1, <2>1 DEF LeavesFrom
  <2>3. \A y \in DOMAIN allObjects \ {x} : y \in DOMAIN allObjects' /\ allObjects'[y].size = allObjects[y].size
    BY <1>1
  <2>4. HasLeft(Lruk!Levels, x, q)
    BY <1>1, <1>2, <1>3, <1>4, <2>1, <2>2, <2>3, LeavesItsCount
  <2> QED BY <2>1, <2>4 DEF HasLeft
<1>6. \A l \in Lruk!Levels : ToSet(kLru'[l]) = ToSet(kLru[l]) \ {x}
  BY <1>1, <1>2, LeavesItsQueue DEF q
<1>7. ToSet(<<x>>) = {x}
  BY DEF ToSet
<1>8. FoundInItsQueue'
  BY <1>1, <1>2, <1>3, <1>6, <1>7, OthersAreFound
<1>9. (Bytes(ToSet(call.objects)))' = size
  <2>1. (Bytes(ToSet(call.objects)))' = SumFunctionOnSet(Weights', {x})
    BY <1>1, <1>7 DEF Bytes
  <2>2. Weights'[x] = size
    BY <1>1 DEF Weights, size
  <2> QED BY <1>3, <2>1, <2>2, WeighsOne
<1>10. \A l \in Lruk!Levels : kLruSizes'[l] =< KLRU_QUEUE_SIZE
  <2>1. \A l \in Lruk!Levels : kLruSizes'[l] \in Nat
    BY <1>5 DEF QueuesCount
  <2> QED BY <1>2, <1>5, <2>1, LrukSums
<1>11. size =< KLRU_QUEUE_SIZE /\ size + kLruSizes'[q] =< KLRU_QUEUE_SIZE
  <2>1. kLruSizes'[q] \in Nat
    BY <1>3, <1>5 DEF QueuesCount
  <2> QED BY <1>2, <1>3, <1>5, <2>1, LrukSums
<1>12. q + 1 = K_LRU => Min({q + 1, K_LRU - 1}) = q
  BY <1>3, LrukTerms, MinOfTwo
<1>13. LrukRoom'
  <2>1. call'.sum = (Bytes(ToSet(call.objects)))' /\ ~ (call'.sum > KLRU_QUEUE_SIZE)
    BY <1>1, <1>3, <1>9, <1>11, LrukSums
  <2>2. ~ call'.updateWrites => call'.sum + kLruSizes'[call'.k] =< KLRU_QUEUE_SIZE
    BY <1>1, <1>11, <1>12
  <2> QED BY <1>1, <1>10, <2>1, <2>2 DEF LrukRoom
<1> QED BY <1>5, <1>8, <1>13

LEMMA LrukBooksMiss ==
  ASSUME LrukBooks, pc = "ready", NEW r \in Lruk!Requests, Lruk!Miss(r)
  PROVE  QueuesCount(Lruk!Levels)' /\ FoundInItsQueue' /\ LrukRoom'
<1> DEFINE x == r.kid
           q == allObjects[x].queueNumber
           size == r.size
<1>1. /\ pc' = "insert" /\ call'.objects = <<x>> /\ call'.k = 0
      /\ call'.sum = size /\ call'.updateWrites = TRUE
      /\ allObjects' = [y \in DOMAIN allObjects \union {x} |->
                          IF y = x THEN [size |-> r.size, queueNumber |-> 0] ELSE allObjects[y]]
      /\ x \in DOMAIN allObjects =>
           /\ kLru' = [kLru EXCEPT ![q] = Erase(@, {x})]
           /\ kLruSizes' = [kLruSizes EXCEPT ![q] = @ - allObjects[x].size]
      /\ x \notin DOMAIN allObjects => kLru' = kLru /\ kLruSizes' = kLruSizes
  BY LrukTerms DEF Lruk!Miss, Lruk!TakeOut, Lruk!Insert, Lruk!Bind
<1>2. /\ LrukInv /\ QueuesHold(Keys, Lruk!Levels) /\ HaveSizes /\ QueuesCount(Lruk!Levels)
      /\ FoundInItsQueue /\ call.objects = <<>>
      /\ \A l \in Lruk!Levels : kLruSizes[l] =< KLRU_QUEUE_SIZE /\ kLruSizes[l] \in Nat
  BY LrukHaveSizes DEF LrukBooks, LrukInv, LrukRoom, QueuesCount
<1>3. /\ \A y \in DOMAIN allObjects : allObjects[y].queueNumber \in Lruk!Levels
      /\ size \in Nat
  BY <1>2, LrukTerms, LrukSums DEF LrukInv, LrukItems, Lruk!Requests
<1>4. x \in DOMAIN allObjects => x \in ToSet(kLru[q])
  BY <1>2, NothingInHand DEF FoundInItsQueue
<1>5. /\ \A y \in DOMAIN allObjects \ {x} : y \in DOMAIN allObjects' /\ allObjects'[y] = allObjects[y]
      /\ \A y \in DOMAIN allObjects' \ {x} : y \in DOMAIN allObjects /\ allObjects'[y] = allObjects[y]
      /\ Weights'[x] = size
  BY <1>1 DEF Weights
<1> HIDE DEF x, q, size
<1>6. /\ QueuesCount(Lruk!Levels)' /\ \A l \in Lruk!Levels : kLruSizes'[l] =< kLruSizes[l]
      /\ \A l \in Lruk!Levels : ToSet(kLru'[l]) = ToSet(kLru[l]) \ {x}
  <2>1. CASE x \in DOMAIN allObjects
    <3>1. /\ QueuesCount(Lruk!Levels)' /\ \A l \in Lruk!Levels : kLruSizes'[l] =< kLruSizes[l]
      <4>1. q = allObjects[x].queueNumber /\ LeavesFrom(x, q) /\ q \in Lruk!Levels
        BY <1>1, <1>3, <2>1 DEF LeavesFrom, q
      <4>2. \A y \in DOMAIN allObjects \ {x} :
              y \in DOMAIN allObjects' /\ allObjects'[y].size = allObjects[y].size
        BY <1>5
      <4>3. HasLeft(Lruk!Levels, x, q)
        BY <1>2, <1>4, <2>1, <4>1, <4>2, LeavesItsCount
      <4> QED BY <4>3 DEF HasLeft
    <3>2. \A l \in Lruk!Levels : ToSet(kLru'[l]) = ToSet(kLru[l]) \ {x}
      BY <1>1, <1>2, <2>1, LeavesItsQueue DEF q
    <3> QED BY <3>1, <3>2
  <2>2. CASE x \notin DOMAIN allObjects
    <3>1. kLru' = kLru /\ kLruSizes' = kLruSizes
      BY <1>1, <2>2
    <3>2. \A l \in Lruk!Levels : x \notin ToSet(kLru[l]) /\ ToSet(kLru[l]) \subseteq DOMAIN allObjects
      BY <1>2, <2>2 DEF QueuesHold
    <3>3. \A l \in Lruk!Levels : (Bytes(ToSet(kLru[l])))' = Bytes(ToSet(kLru[l]))
      <4> SUFFICES ASSUME NEW l \in Lruk!Levels
                   PROVE  (Bytes(ToSet(kLru[l])))' = Bytes(ToSet(kLru[l]))
        OBVIOUS
      <4>1. \A y \in ToSet(kLru[l]) : Weights'[y] = Weights[y]
        BY <1>5, <3>2 DEF Weights
      <4>2. IsFiniteSet(ToSet(kLru[l])) /\ Ints(Weights, ToSet(kLru[l]))
        BY <1>2, QueueWeights DEF Ints
      <4>3. SumFunctionOnSet(Weights', ToSet(kLru[l])) = SumFunctionOnSet(Weights, ToSet(kLru[l]))
        BY <4>1, <4>2, SumSame
      <4> QED BY <3>1, <4>3 DEF Bytes
    <3>4. QueuesCount(Lruk!Levels)'
      BY <1>2, <3>1, <3>3 DEF QueuesCount
    <3> QED BY <1>2, <3>1, <3>2, <3>4
  <2> QED BY <2>1, <2>2
<1>7. ToSet(<<x>>) = {x}
  BY DEF ToSet
<1>8. FoundInItsQueue'
  BY <1>1, <1>2, <1>3, <1>5, <1>6, <1>7, OthersAreFound
<1>9. (Bytes(ToSet(call.objects)))' = size
  <2>1. (Bytes(ToSet(call.objects)))' = SumFunctionOnSet(Weights', {x})
    BY <1>1, <1>7 DEF Bytes
  <2> QED BY <1>3, <1>5, <2>1, WeighsOne
<1>10. \A l \in Lruk!Levels : kLruSizes'[l] =< KLRU_QUEUE_SIZE
  <2>1. \A l \in Lruk!Levels : kLruSizes'[l] \in Nat
    BY <1>6 DEF QueuesCount
  <2> QED BY <1>2, <1>6, <2>1, LrukSums
<1>11. LrukRoom'
  BY <1>1, <1>9, <1>10 DEF LrukRoom
<1> QED BY <1>6, <1>8, <1>11

(* What comes fits by the choice of what goes, and what goes did fit. *)
LEMMA LrukBooksInsertCall ==
  ASSUME LrukBooks, Lruk!InsertCall
  PROVE  QueuesCount(Lruk!Levels)' /\ FoundInItsQueue' /\ LrukRoom' /\ Lruk!AbortsOnlyOversize'
<1> DEFINE k == call.k
           n == Max(Lruk!Stays(k, call.sum))
           pops == SubSeq(kLru[k], n + 1, Len(kLru[k]))
           O == ToSet(pops)
           I == ToSet(call.objects)
           placed == [x \in DOMAIN allObjects |->
                        IF x \in I THEN [allObjects[x] EXCEPT !.queueNumber = k] ELSE allObjects[x]]
<1>1. /\ pc = "insert" /\ Lruk!Stays(k, call.sum) # {}
      /\ kLru' = [kLru EXCEPT ![k] = Reverse(call.objects) \o SubSeq(@, 1, n)]
      /\ kLruSizes' = [kLruSizes EXCEPT ![k] = @ - Bytes(O) + Bytes(I)]
      /\ \/ /\ k > 0 /\ pops # <<>> /\ pc' = "insert" /\ allObjects' = placed
            /\ call'.objects = Reverse(pops) /\ call'.sum = Bytes(O) /\ call'.k = k - 1
            /\ call'.updateWrites = TRUE
         \/ /\ k = 0 \/ pops = <<>>
            /\ pc' = "ready" /\ call'.objects = <<>>
            /\ allObjects' = [x \in DOMAIN placed \ O |-> placed[x]]
  <2>1. /\ pc = "insert" /\ Lruk!Stays(k, call.sum) # {}
        /\ kLru' = [kLru EXCEPT ![k] = Reverse(call.objects) \o SubSeq(@, 1, n)]
        /\ kLruSizes' = [kLruSizes EXCEPT ![k] = @ - Lruk!SizeOf(pops) + Lruk!SizeOf(call.objects)]
        /\ \/ /\ k > 0 /\ pops # <<>> /\ allObjects' = placed
              /\ Lruk!Insert(Reverse(pops), Lruk!SizeOf(pops), k - 1, TRUE)
           \/ /\ k = 0 \/ pops = <<>>
              /\ pc' = "ready" /\ call' = Lruk!NoCall
              /\ allObjects' = Lruk!Unbind(placed, O)
    BY LrukTerms DEF Lruk!InsertCall, Lruk!Pushed, Lruk!NextLevel
  <2>2. Lruk!SizeOf(pops) = Bytes(O) /\ Lruk!SizeOf(call.objects) = Bytes(I)
    BY LrukSums
  <2> HIDE DEF placed, O, I, n, k, pops
  <2>3. kLruSizes' = [kLruSizes EXCEPT ![k] = @ - Bytes(O) + Bytes(I)]
    BY <2>1, <2>2
  <2>4. ASSUME Lruk!Insert(Reverse(pops), Lruk!SizeOf(pops), k - 1, TRUE)
        PROVE  /\ pc' = "insert" /\ call'.objects = Reverse(pops) /\ call'.sum = Bytes(O)
               /\ call'.k = k - 1 /\ call'.updateWrites = TRUE
    BY <2>2, <2>4 DEF Lruk!Insert
  <2>5. Lruk!NoCall.objects = <<>> /\ Lruk!Unbind(placed, O) = [x \in DOMAIN placed \ O |-> placed[x]]
    BY DEF Lruk!NoCall, Lruk!Unbind
  <2> QED BY <2>1, <2>3, <2>4, <2>5
<1>2. /\ LrukInv /\ QueuesHold(Keys, Lruk!Levels) /\ CallIsOut(Keys, Lruk!Levels)
      /\ HaveSizes /\ QueuesCount(Lruk!Levels)
      /\ k \in Lruk!Levels /\ kLru[k] \in Seq(Keys) /\ Len(kLru[k]) \in Nat /\ IsInjective(kLru[k])
      /\ FoundInItsQueue /\ call.sum = Bytes(I)
      /\ kLruSizes \in [Lruk!Levels -> Nat]
      /\ \A l \in Lruk!Levels : kLruSizes[l] =< KLRU_QUEUE_SIZE /\ kLruSizes[l] \in Nat
  BY <1>1, LrukHaveSizes DEF LrukBooks, LrukInv, LrukRoom, QueuesCount, QueuesHold, CallIsOut
<1>3. n \in 0 .. Len(kLru[k]) /\ call.sum + kLruSizes[k] - Bytes(O) =< KLRU_QUEUE_SIZE
  <2>1. Lruk!Stays(k, call.sum) \in SUBSET (0 .. Len(kLru[k]))
    BY DEF Lruk!Stays
  <2>2. n \in Lruk!Stays(k, call.sum)
    BY <1>1, <1>2, <2>1, GreatestElement
  <2> QED BY <2>2, LrukSums DEF Lruk!Stays
<1> HIDE DEF n
<1>4. /\ pops = Behind(kLru[k], n) /\ kLru' = [kLru EXCEPT ![k] = Reverse(call.objects) \o Upto(@, n)]
  BY <1>1 DEF Behind, Upto
<1>5. /\ \A x \in DOMAIN allObjects' : x \in DOMAIN allObjects /\ allObjects'[x] = placed[x]
      /\ \A x \in DOMAIN allObjects \ O : x \in DOMAIN allObjects' /\ allObjects'[x] = placed[x]
  BY <1>1
<1>6. \A x \in DOMAIN allObjects : placed[x].size = allObjects[x].size
  <2> SUFFICES ASSUME NEW x \in DOMAIN allObjects PROVE placed[x].size = allObjects[x].size
    OBVIOUS
  <2>1. allObjects[x] \in LrukItems
    BY <1>2 DEF LrukInv
  <2>2. CASE x \in I
    <3>1. placed[x] = [allObjects[x] EXCEPT !.queueNumber = k]
      BY <2>2
    <3> QED BY <2>1, <3>1 DEF LrukItems
  <2>3. CASE x \notin I
    BY <2>3
  <2> QED BY <2>2, <2>3
<1>7. \A x \in DOMAIN allObjects : /\ x \in I => placed[x].queueNumber = k
                                   /\ x \notin I => placed[x] = allObjects[x]
  <2> SUFFICES ASSUME NEW x \in DOMAIN allObjects
               PROVE  /\ x \in I => placed[x].queueNumber = k
                      /\ x \notin I => placed[x] = allObjects[x]
    OBVIOUS
  <2>1. allObjects[x] \in LrukItems
    BY <1>2 DEF LrukInv
  <2> QED BY <2>1 DEF LrukItems
<1>8. \A x \in DOMAIN allObjects \ O : x \in DOMAIN allObjects' /\ allObjects'[x].size = allObjects[x].size
  BY <1>5, <1>6
<1>9. O = ToSet(Behind(kLru[k], n)) /\ Behind(kLru[k], n) \in Seq(Keys)
  BY <1>2, <1>3, <1>4, SplitAt
<1>10. Reverse(pops) \in Seq(Keys) /\ ToSet(Reverse(pops)) = O
  BY <1>4, <1>9, Reversed
<1>11. k = call.k /\ I = ToSet(call.objects)
  OBVIOUS
<1>12. kLruSizes' = [kLruSizes EXCEPT ![k] = @ - Bytes(O) + Bytes(I)]
  BY <1>1
<1> HIDE DEF placed, k, pops, O, I
<1>13. /\ QueuesCount(Lruk!Levels)' /\ Bytes(O) \in Nat /\ Bytes(I) \in Nat /\ Bytes(O) =< kLruSizes[k]
       /\ kLruSizes'[k] = kLruSizes[k] - Bytes(O) + Bytes(I)
       /\ \A l \in Lruk!Levels : l # k => kLruSizes'[l] = kLruSizes[l]
       /\ O \subseteq ToSet(kLru[k]) /\ I \intersect O = {}
       /\ ToSet(kLru'[k]) = I \union (ToSet(kLru[k]) \ O)
       /\ \A l \in Lruk!Levels : l # k => kLru'[l] = kLru[l]
  <2>1. Called(Lruk!Levels, k, O, I)
    BY <1>2, <1>3, <1>4, <1>8, <1>9, <1>11, <1>12, CallCounts
  <2> QED BY <2>1 DEF Called
<1>14. ASSUME NEW x \in DOMAIN allObjects', x \notin O PROVE x \in ToSet(kLru'[allObjects'[x].queueNumber])
  <2>1. x \in DOMAIN allObjects /\ allObjects'[x] = placed[x]
    BY <1>5
  <2>2. CASE x \in I
    BY <1>7, <1>13, <2>1, <2>2
  <2>3. CASE x \notin I
    <3> DEFINE l == allObjects[x].queueNumber
    <3>1. allObjects'[x] = allObjects[x] /\ x \in ToSet(kLru[l]) /\ l \in Lruk!Levels
      BY <1>2, <1>7, <1>11, <2>1, <2>3 DEF FoundInItsQueue, LrukInv, LrukItems
    <3> HIDE DEF l
    <3>2. x \in ToSet(kLru'[l])
      BY <1>13, <1>14, <3>1
    <3> QED BY <3>1, <3>2 DEF l
  <2> QED BY <2>2, <2>3
<1>15. FoundInItsQueue'
  <2>1. ASSUME NEW x \in DOMAIN allObjects' \ ToSet(call'.objects) PROVE x \notin O
    <3>1. CASE call'.objects = Reverse(pops)
      BY <1>10, <2>1, <3>1
    <3>2. CASE allObjects' = [y \in DOMAIN placed \ O |-> placed[y]]
      BY <2>1, <3>2
    <3> QED BY <1>1, <3>1, <3>2
  <2> QED BY <1>14, <2>1 DEF FoundInItsQueue
<1>16. \A l \in Lruk!Levels : kLruSizes'[l] =< KLRU_QUEUE_SIZE
  <2>1. kLruSizes'[k] =< KLRU_QUEUE_SIZE
    BY <1>2, <1>3, <1>13, LrukSums
  <2> QED BY <1>2, <1>13, <2>1
<1>17. ASSUME pc' # "ready"
       PROVE  /\ call'.sum = (Bytes(ToSet(call.objects)))' /\ call'.updateWrites
              /\ ~ (call'.sum > KLRU_QUEUE_SIZE)
  <2>1. /\ call'.objects = Reverse(pops) /\ call'.sum = Bytes(O) /\ call'.updateWrites = TRUE
        /\ allObjects' = placed
    BY <1>1, <1>17
  <2>2. \A x \in O : x \in DOMAIN allObjects /\ x \in DOMAIN allObjects'
                     /\ allObjects'[x].size = allObjects[x].size /\ allObjects[x].size \in Nat
    <3>1. \A x \in O : x \in DOMAIN allObjects
      BY <1>2, <1>13 DEF QueuesHold
    <3>2. DOMAIN placed = DOMAIN allObjects
      BY DEF placed
    <3> QED BY <1>2, <1>5, <1>6, <2>1, <3>1, <3>2 DEF HaveSizes
  <2>3. Ints(Weights, O) /\ \A x \in O : Weights'[x] = Weights[x]
    BY <2>2 DEF Ints, Weights
  <2>4. IsFiniteSet(O)
    BY <1>9, DistinctLength
  <2>5. SumFunctionOnSet(Weights', O) = SumFunctionOnSet(Weights, O)
    BY <2>3, <2>4, SumSame
  <2>6. (Bytes(ToSet(call.objects)))' = SumFunctionOnSet(Weights', O)
    BY <1>10, <2>1 DEF Bytes
  <2>7. Bytes(O) =< KLRU_QUEUE_SIZE
    BY <1>2, <1>13, LrukSums
  <2>8. ~ (Bytes(O) > KLRU_QUEUE_SIZE)
    BY <1>13, <2>7, LrukSums
  <2> QED BY <2>1, <2>5, <2>6, <2>8 DEF Bytes
<1>18. pc' \in {"ready", "insert"}
  BY <1>1
<1>19. LrukRoom'
  BY <1>16, <1>17, <1>18 DEF LrukRoom
<1>20. Lruk!AbortsOnlyOversize'
  BY <1>18 DEF Lruk!AbortsOnlyOversize
<1> QED BY <1>13, <1>15, <1>19, <1>20

(* Once the queue is empty there is room, but for an object larger than it. *)
LEMMA LrukBooksAbort ==
  ASSUME LrukBooks, Lruk!Abort
  PROVE  LrukBooks'
<1> DEFINE k == call.k
           q == kLru[k]
           m == Len(q)
           Stay == Lruk!Stays(k, call.sum)
<1>1. /\ pc = "insert" /\ pc' = "aborted" /\ call' = call /\ kLru' = kLru /\ kLruSizes' = kLruSizes
      /\ allObjects' = allObjects
      /\ Stay # {} => ~ call.updateWrites /\ Max(Stay) < m
  BY LrukTerms DEF Lruk!Abort
<1>2. /\ k \in Lruk!Levels /\ q \in Seq(Keys) /\ m \in Nat
      /\ kLruSizes[k] = Bytes(ToSet(q)) /\ kLruSizes[k] \in Nat
      /\ call.sum > KLRU_QUEUE_SIZE => k = 0
      /\ ~ call.updateWrites => call.sum + kLruSizes[k] =< KLRU_QUEUE_SIZE
      /\ call.sum = Bytes(ToSet(call.objects))
  BY <1>1 DEF LrukBooks, LrukInv, LrukRoom, QueuesCount, QueuesHold, CallIsOut
<1>3. call.sum \in Nat
  <2>1. /\ IsFiniteSet(ToSet(call.objects))
        /\ \A x \in ToSet(call.objects) : x \in DOMAIN allObjects
    BY DistinctLength DEF LrukBooks, LrukInv, CallIsOut
  <2>2. \A x \in ToSet(call.objects) : Weights[x] \in Nat
    BY <2>1, LrukHaveSizes DEF LrukBooks, HaveSizes, Weights
  <2> QED BY <1>2, <2>1, <2>2, SumNat DEF Bytes
<1>4. Stay \in SUBSET (0 .. m)
  BY DEF Lruk!Stays
<1>5. 0 \in Stay <=> call.sum + kLruSizes[k] - kLruSizes[k] =< KLRU_QUEUE_SIZE
  <2>1. SubSeq(q, 0 + 1, m) = q /\ 0 \in 0 .. m
    BY <1>2, UncutQueue
  <2>2. Lruk!SizeOf(q) = kLruSizes[k]
    BY <1>2, LrukSums
  <2> QED BY <2>1, <2>2 DEF Lruk!Stays
<1>6. m \in Stay <=> call.sum + kLruSizes[k] - 0 =< KLRU_QUEUE_SIZE
  <2>1. SubSeq(q, m + 1, m) = <<>>
    <3>1. m \in Int /\ m + 1 \in Int /\ m < m + 1
      BY <1>2
    <3> HIDE DEF m, q
    <3> QED BY <1>2, <3>1, SubSeqEmpty
  <2>2. ToSet(<<>>) = {}
    BY DEF ToSet
  <2>3. Lruk!SizeOf(SubSeq(q, m + 1, m)) = 0
    BY <2>1, <2>2, LrukSums, SumEmpty DEF Bytes
  <2>4. m \in 0 .. m
    BY <1>2
  <2> QED BY <2>3, <2>4 DEF Lruk!Stays
<1> HIDE DEF Stay, m, q, k
<1>7. Stay = {}
  <2> SUFFICES ASSUME Stay # {} PROVE FALSE
    OBVIOUS
  <2>1. Max(Stay) < m /\ call.sum + kLruSizes[k] =< KLRU_QUEUE_SIZE
    BY <1>1, <1>2
  <2>2. m \in Stay
    BY <1>2, <1>3, <1>6, <2>1, LrukSums
  <2>3. Max(Stay) \in Stay /\ m =< Max(Stay)
    BY <1>2, <1>4, <2>2, GreatestElement
  <2>4. Max(Stay) \in 0 .. m
    BY <1>4, <2>3
  <2>5. m \in Nat
    BY <1>2
  <2> QED BY ONLY <2>1, <2>3, <2>4, <2>5
<1>8. call.sum > KLRU_QUEUE_SIZE
  BY <1>2, <1>3, <1>5, <1>7, LrukSums
<1>9. LrukInv'
  BY LrukStep DEF LrukBooks, Lruk!Next, Lruk!Proceed
<1>10. \A G : Bytes(G)' = Bytes(G)
  BY <1>1 DEF Bytes, Weights
<1>11. QueuesCount(Lruk!Levels)' /\ FoundInItsQueue' /\ DOMAIN allObjects' \subseteq Keys
  <2>1. \A l \in Lruk!Levels : (Bytes(ToSet(kLru[l])))' = Bytes(ToSet(kLru[l]))
    BY <1>1 DEF Bytes, Weights
  <2> QED BY <1>1, <2>1 DEF LrukBooks, QueuesCount, FoundInItsQueue
<1>12. LrukRoom'
  <2>1. (Bytes(ToSet(call.objects)))' = Bytes(ToSet(call.objects))
    BY <1>1 DEF Bytes, Weights
  <2> QED BY <1>1, <2>1 DEF LrukBooks, LrukRoom
<1>13. Lruk!AbortsOnlyOversize'
  BY <1>1, <1>2, <1>8 DEF Lruk!AbortsOnlyOversize, k
<1> QED BY <1>9, <1>11, <1>12, <1>13 DEF LrukBooks

LEMMA LrukBooksStep ==
  ASSUME LrukBooks, Lruk!Next \/ UNCHANGED Lruk!vars
  PROVE  LrukBooks'
<1>1. LrukInv'
  BY LrukStep DEF LrukBooks
<1>2. CASE \E r \in Lruk!Requests : Lruk!Proc(r)
  <2>1. PICK r \in Lruk!Requests : pc = "ready" /\ (Lruk!Hit(r) \/ Lruk!Miss(r))
    BY <1>2 DEF Lruk!Proc
  <2>2. QueuesCount(Lruk!Levels)' /\ FoundInItsQueue' /\ LrukRoom'
    BY <2>1, LrukBooksHit, LrukBooksMiss
  <2>3. pc' = "insert" /\ DOMAIN allObjects' \subseteq DOMAIN allObjects \union {r.kid}
    BY <2>1 DEF Lruk!Hit, Lruk!Miss, Lruk!Insert, Lruk!Bind
  <2>4. Lruk!AbortsOnlyOversize' /\ DOMAIN allObjects' \subseteq Keys
    BY <2>3 DEF LrukBooks, Lruk!AbortsOnlyOversize, Lruk!Requests
  <2> QED BY <1>1, <2>2, <2>4 DEF LrukBooks
<1>3. CASE Lruk!InsertCall
  <2>1. DOMAIN allObjects' \subseteq DOMAIN allObjects
    BY <1>3 DEF Lruk!InsertCall, Lruk!Unbind
  <2> QED BY <1>1, <1>3, <2>1, LrukBooksInsertCall DEF LrukBooks
<1>4. CASE Lruk!Abort
  BY <1>4, LrukBooksAbort
<1>5. CASE UNCHANGED Lruk!vars
  <2>1. /\ pc' = pc /\ call' = call /\ kLru' = kLru /\ kLruSizes' = kLruSizes /\ allObjects' = allObjects
    BY <1>5 DEF Lruk!vars
  <2>2. \A l \in Lruk!Levels : (Bytes(ToSet(kLru[l])))' = Bytes(ToSet(kLru[l]))
    BY <2>1 DEF Bytes, Weights
  <2>3. (Bytes(ToSet(call.objects)))' = Bytes(ToSet(call.objects))
    BY <2>1 DEF Bytes, Weights
  <2>4. QueuesCount(Lruk!Levels)' /\ FoundInItsQueue' /\ DOMAIN allObjects' \subseteq Keys
    BY <2>1, <2>2 DEF LrukBooks, QueuesCount, FoundInItsQueue
  <2>5. LrukRoom' /\ Lruk!AbortsOnlyOversize'
    BY <2>1, <2>3 DEF LrukBooks, LrukRoom, Lruk!AbortsOnlyOversize
  <2> QED BY <1>1, <2>4, <2>5 DEF LrukBooks
<1> QED BY <1>2, <1>3, <1>4, <1>5 DEF Lruk!Next, Lruk!Proceed

LEMMA LrukIsConsistent ==
  ASSUME LrukBooks
  PROVE  Lruk!Consistent /\ Lruk!TypeOK
<1>1. LrukInv /\ QueuesHold(Keys, Lruk!Levels) /\ CallIsOut(Keys, Lruk!Levels) /\ HitsEarn
      /\ QueuesCount(Lruk!Levels) /\ FoundInItsQueue /\ LrukRoom /\ DOMAIN allObjects \subseteq Keys
  BY DEF LrukBooks, LrukInv
<1>2. ASSUME NEW l \in Lruk!Levels
      PROVE  /\ Lruk!ToSet(kLru[l]) = Lruk!QueueOf(l)
             /\ Len(kLru[l]) = Lruk!Cardinality(Lruk!QueueOf(l))
             /\ kLruSizes[l] = Lruk!SizeOf(kLru[l]) /\ kLruSizes[l] =< KLRU_QUEUE_SIZE
  <2>1. kLru[l] \in Seq(Keys) /\ IsInjective(kLru[l])
    BY <1>1 DEF QueuesHold
  <2>2. ToSet(kLru[l]) = Lruk!QueueOf(l)
    <3>1. \A x \in ToSet(kLru[l]) : /\ x \in DOMAIN allObjects /\ allObjects[x].queueNumber = l
                                    /\ x \notin ToSet(call.objects)
      BY <1>1 DEF QueuesHold, CallIsOut
    <3>2. \A x \in DOMAIN allObjects \ ToSet(call.objects) : x \in ToSet(kLru[allObjects[x].queueNumber])
      BY <1>1 DEF FoundInItsQueue
    <3> QED BY <3>1, <3>2, LrukTerms DEF Lruk!QueueOf
  <2>3. Len(kLru[l]) = Cardinality(ToSet(kLru[l]))
    BY <2>1, DistinctLength
  <2>4. kLruSizes[l] = Lruk!SizeOf(kLru[l]) /\ kLruSizes[l] =< KLRU_QUEUE_SIZE
    BY <1>1, LrukSums DEF QueuesCount, LrukRoom
  <2> QED BY <2>2, <2>3, <2>4, LrukTerms, LrukSums
<1>3. Lruk!Consistent
  BY <1>2 DEF Lruk!Consistent
<1>4. Lruk!TypeOK
  <2>1. pc \in {"ready", "insert", "aborted"} /\ DOMAIN hits = DOMAIN allObjects
    BY <1>1 DEF LrukRoom, HitsEarn
  <2>2. \A x \in DOMAIN allObjects : allObjects[x] \in [size : Sizes, queueNumber : Lruk!Levels]
    BY <1>1 DEF LrukInv, LrukItems
  <2>3. kLru \in [Lruk!Levels -> Seq(Keys)] /\ kLruSizes \in [Lruk!Levels -> Nat]
    BY <1>1 DEF QueuesHold, QueuesCount
  <2>4. call.objects \in Seq(Keys) /\ call.k \in Lruk!Levels
    BY <1>1 DEF CallIsOut
  <2> QED BY <1>1, <2>1, <2>2, <2>3, <2>4 DEF Lruk!TypeOK
<1> QED BY <1>3, <1>4

-------------------------------------------------------------------------------
(* flashcachelruk.                                                         *)

LEMMA KlruSums ==
  /\ \A q : Klru!SizeOf(q) = Bytes(ToSet(q))
  /\ \A G : Klru!Cardinality(G) = Cardinality(G)
  /\ \A f, G : Klru!SumFunctionOnSet(f, G) = SumFunctionOnSet(f, G)
  /\ FC_KLRU_QUEUE_SIZE \in Nat /\ DRAM_SIZE_FC_KLRU \in Nat /\ FLASH_SIZE \in Nat
  /\ \A s \in KlruSizes : s \in Nat /\ s > 0 /\ s =< DRAM_SIZE_FC_KLRU
<1>1. \A f, G : Klru!SumFunctionOnSet(f, G) = SumFunctionOnSet(f, G)
  BY DEF Klru!SumFunctionOnSet, Klru!FoldFunctionOnSet, Klru!MapThenFoldSet,
         SumFunctionOnSet, FoldFunctionOnSet, MapThenFoldSet
<1>2. \A q : Klru!SizeOf(q) = Bytes(ToSet(q))
  BY <1>1, KlruTerms DEF Klru!SizeOf, Bytes, Weights
<1>3. \A G : Klru!Cardinality(G) = Cardinality(G)
  BY DEF Klru!Cardinality, Cardinality
<1>4. /\ FC_KLRU_QUEUE_SIZE \in Nat /\ DRAM_SIZE_FC_KLRU \in Nat /\ FLASH_SIZE \in Nat
      /\ KlruSizes \subseteq 1 .. DRAM_SIZE_FC_KLRU
  BY PolicyAssumptions DEF Klru!TiersAssumption, KlruSizes
<1> QED BY <1>1, <1>2, <1>3, <1>4

(* DRAM counts the bytes of its queues. *)
DramCounts ==
  QueuesCount(Klru!Levels) /\ dramSize = SumFunctionOnSet(kLruSizes, Klru!Levels)

(* All that is cached is in the global list; what is in DRAM is in its     *)
(* queue unless it is on its way to one, and the rest is in flash.         *)
KlruFound ==
  /\ flash \in Seq(FewKeys) /\ IsInjective(flash)
  /\ globalLru \in Seq(FewKeys) /\ IsInjective(globalLru)
  /\ ToSet(globalLru) = DOMAIN allObjects
  /\ ToSet(flash) = {x \in DOMAIN allObjects : ~ allObjects[x].isInDram}
  /\ \A x \in DOMAIN allObjects \ ToSet(call.objects) :
       allObjects[x].isInDram => x \in ToSet(kLru[allObjects[x].queueNumber])

(* The bounds: of each queue but the first, and of both tiers with what is *)
(* on its way.                                                             *)
KlruRoom ==
  /\ \A l \in Klru!Levels : l > 0 => kLruSizes[l] =< FC_KLRU_QUEUE_SIZE
  /\ dramSize + Bytes(ToSet(call.objects)) =< DRAM_SIZE_FC_KLRU
  /\ flashSize = Bytes(ToSet(flash)) /\ flashSize =< FLASH_SIZE

(* What is on its way fits into a queue, unless it is a single object, and *)
(* what stays in its queue fits without emptying it.                       *)
KlruOnItsWay ==
  /\ pc \in {"ready", "insert", "reorder", "aborted"}
  /\ newItem \in Klru!Requests \union {Klru!NoItem}
  /\ call.sum = Bytes(ToSet(call.objects))
  /\ pc \in {"reorder", "aborted"} =>
       /\ call.sum > FC_KLRU_QUEUE_SIZE => Len(call.objects) = 1
       /\ ~ call.updateWrites => call.k = 0 \/ call.sum + kLruSizes[call.k] =< FC_KLRU_QUEUE_SIZE

KlruBooks ==
  /\ KlruInv /\ DramCounts /\ KlruFound /\ KlruRoom /\ KlruOnItsWay /\ Klru!AbortsOnlyOversize

LEMMA KlruHaveSizes ==
  ASSUME KlruInv
  PROVE  HaveSizes
BY KlruSums DEF KlruInv, KlruItems, HaveSizes

LEMMA KlruLevels == IsFiniteSet(Klru!Levels) /\ 0 \in Klru!Levels /\ Klru!Levels \subseteq Nat
<1>1. Klru!Levels = 0 .. FC_K_LRU - 1 /\ FC_K_LRU \in Nat /\ FC_K_LRU # 0
  BY KlruTerms
<1> QED BY <1>1, FS_Interval

LEMMA KlruBooksInit ==
  ASSUME Klru!Init
  PROVE  KlruBooks
<1>1. /\ pc = "ready" /\ newItem = Klru!NoItem /\ call.objects = <<>> /\ call.sum = 0
      /\ kLru = [k \in Klru!Levels |-> <<>>] /\ kLruSizes = [k \in Klru!Levels |-> 0]
      /\ flash = <<>> /\ globalLru = <<>> /\ dramSize = 0 /\ flashSize = 0
      /\ DOMAIN allObjects = {}
  BY DEF Klru!Init, Klru!NoCall
<1>2. ToSet(<<>>) = {} /\ Bytes({}) = 0
  BY SumEmpty DEF ToSet, Bytes
<1>3. <<>> \in Seq(FewKeys) /\ IsInjective(<<>>)
  BY DEF IsInjective
<1>4. DramCounts
  <2>1. kLruSizes \in [Klru!Levels -> Nat]
    BY <1>1
  <2>2. \A l \in Klru!Levels : kLruSizes[l] = Bytes(ToSet(kLru[l]))
    BY <1>1, <1>2
  <2>3. SumFunctionOnSet(kLruSizes, Klru!Levels) = 0
    <3>1. \A l \in Klru!Levels : kLruSizes[l] = 0 /\ kLruSizes[l] \in Nat
      BY <1>1
    <3> QED BY <3>1, KlruLevels, SumNat
  <2> QED BY <1>1, <2>1, <2>2, <2>3 DEF QueuesCount, DramCounts
<1>5. KlruFound
  BY <1>1, <1>2, <1>3 DEF KlruFound
<1>6. KlruRoom
  <2>1. Bytes(ToSet(call.objects)) = 0 /\ Bytes(ToSet(flash)) = 0
    BY <1>1, <1>2
  <2> QED BY <1>1, <2>1, KlruSums DEF KlruRoom
<1>7. KlruOnItsWay /\ Klru!AbortsOnlyOversize
  BY <1>1, <1>2 DEF KlruOnItsWay, Klru!AbortsOnlyOversize
<1> QED BY <1>4, <1>5, <1>6, <1>7, KlruInit DEF KlruBooks

(* The sum over the queues when one queue counts otherwise. *)
LEMMA DramChanges ==
  ASSUME kLruSizes \in [Klru!Levels -> Nat], kLruSizes' \in [Klru!Levels -> Nat],
         NEW k \in Klru!Levels, \A l \in Klru!Levels : l # k => kLruSizes'[l] = kLruSizes[l],
         dramSize = SumFunctionOnSet(kLruSizes, Klru!Levels)
  PROVE  /\ SumFunctionOnSet(kLruSizes', Klru!Levels) = dramSize - kLruSizes[k] + kLruSizes'[k]
         /\ dramSize \in Nat /\ SumFunctionOnSet(kLruSizes', Klru!Levels) \in Nat
<1> DEFINE f == kLruSizes
           g == kLruSizes'
           H == Klru!Levels
<1>1. /\ IsFiniteSet(H) /\ Ints(f, H) /\ k \in H /\ g[k] \in Int
      /\ \A l \in H \ {k} : g[l] = f[l]
  BY KlruLevels DEF Ints
<1>2. (\A l \in H : f[l] \in Nat) /\ \A l \in H : g[l] \in Nat
  OBVIOUS
<1>3. dramSize = SumFunctionOnSet(f, H)
  OBVIOUS
<1> HIDE DEF f, g, H
<1>4. SumFunctionOnSet(g, H) = SumFunctionOnSet(f, H) - f[k] + g[k]
  BY ONLY <1>1, SumChange
<1>5. SumFunctionOnSet(g, H) \in Nat /\ SumFunctionOnSet(f, H) \in Nat
  BY <1>1, <1>2, SumNat
<1> QED BY <1>3, <1>4, <1>5 DEF f, g, H

(* An object leaves its queue of DRAM. *)
LEMMA KlruGivesBack ==
  ASSUME KlruInv, DramCounts, NEW x \in DOMAIN allObjects, allObjects[x].isInDram,
         x \in ToSet(kLru[allObjects[x].queueNumber]), Klru!LeaveQueue(x),
         \A y \in DOMAIN allObjects \ {x} :
           y \in DOMAIN allObjects' /\ allObjects'[y].size = allObjects[y].size
  PROVE  /\ DramCounts' /\ \A l \in Klru!Levels : kLruSizes'[l] =< kLruSizes[l]
         /\ kLruSizes'[allObjects[x].queueNumber] + allObjects[x].size =
              kLruSizes[allObjects[x].queueNumber]
         /\ dramSize' + allObjects[x].size = dramSize /\ dramSize' \in Nat
         /\ \A l \in Klru!Levels : ToSet(kLru'[l]) = ToSet(kLru[l]) \ {x}
<1> DEFINE q == allObjects[x].queueNumber
           size == allObjects[x].size
<1>1. /\ kLru' = [kLru EXCEPT ![q] = Erase(@, {x})]
      /\ kLruSizes' = [kLruSizes EXCEPT ![q] = @ - size]
      /\ dramSize' = dramSize - size
  BY KlruTerms DEF Klru!LeaveQueue, Klru!Drop
<1>2. /\ QueuesHold(FewKeys, Klru!Levels) /\ HaveSizes /\ QueuesCount(Klru!Levels)
      /\ q \in Klru!Levels /\ size \in Nat
  BY KlruHaveSizes DEF KlruInv, KlruItems, DramCounts, HaveSizes
<1>3. x \in ToSet(kLru[q])
  OBVIOUS
<1> HIDE DEF q, size
<1>4. /\ QueuesCount(Klru!Levels)' /\ \A l \in Klru!Levels : kLruSizes'[l] =< kLruSizes[l]
      /\ kLruSizes'[q] + size = kLruSizes[q]
  <2>1. q = allObjects[x].queueNumber /\ size = allObjects[x].size
    BY DEF q, size
  <2>2. LeavesFrom(x, q)
    BY <1>1, <2>1 DEF LeavesFrom
  <2>3. HasLeft(Klru!Levels, x, q)
    BY <1>2, <1>3, <2>1, <2>2, LeavesItsCount
  <2> QED BY <2>1, <2>3 DEF HasLeft
<1>5. \A l \in Klru!Levels : ToSet(kLru'[l]) = ToSet(kLru[l]) \ {x}
  BY <1>1, <1>2, LeavesItsQueue DEF q
<1>6. kLruSizes \in [Klru!Levels -> Nat] /\ kLruSizes' \in [Klru!Levels -> Nat]
  BY <1>2, <1>4 DEF QueuesCount
<1>7. /\ SumFunctionOnSet(kLruSizes', Klru!Levels) = dramSize - kLruSizes[q] + kLruSizes'[q]
      /\ dramSize \in Nat /\ SumFunctionOnSet(kLruSizes', Klru!Levels) \in Nat
  <2>1. \A l \in Klru!Levels : l # q => kLruSizes'[l] = kLruSizes[l]
    BY <1>1, <1>6
  <2> QED BY <1>2, <1>6, <2>1, DramChanges DEF DramCounts
<1>8. kLruSizes'[q] \in Nat /\ kLruSizes[q] \in Nat
  BY <1>2, <1>6
<1>9. dramSize' = SumFunctionOnSet(kLruSizes', Klru!Levels)
  BY <1>1, <1>2, <1>4, <1>7, <1>8
<1>10. dramSize' + size = dramSize /\ dramSize' \in Nat
  BY <1>1, <1>2, <1>7, <1>9
<1>11. DramCounts'
  BY <1>4, <1>9 DEF DramCounts
<1> QED BY <1>4, <1>5, <1>10, <1>11 DEF q, size

(* Flash is counted as before while its objects keep their size. *)
LEMMA FlashCounts ==
  ASSUME KlruInv, KlruFound, flash' = flash,
         \A y \in ToSet(flash) : y \in DOMAIN allObjects' /\ allObjects'[y].size = allObjects[y].size
  PROVE  (Bytes(ToSet(flash)))' = Bytes(ToSet(flash))
<1>1. HaveSizes /\ \A y \in ToSet(flash) : y \in DOMAIN allObjects
  BY KlruHaveSizes DEF KlruFound
<1>2. Ints(Weights, ToSet(flash)) /\ \A y \in ToSet(flash) : Weights'[y] = Weights[y]
  BY <1>1 DEF HaveSizes, Ints, Weights
<1>3. IsFiniteSet(ToSet(flash))
  BY DistinctLength DEF KlruFound
<1>4. SumFunctionOnSet(Weights', ToSet(flash)) = SumFunctionOnSet(Weights, ToSet(flash))
  BY <1>2, <1>3, SumSame
<1> QED BY <1>4 DEF Bytes

(* When no call is under way its objects weigh nothing. *)
LEMMA NothingWeighs ==
  /\ call.objects = <<>> => ToSet(call.objects) = {} /\ Bytes(ToSet(call.objects)) = 0
  /\ call'.objects = <<>> => ToSet(call'.objects) = {} /\ (Bytes(ToSet(call.objects)))' = 0
<1>1. ToSet(<<>>) = {} /\ Bytes({}) = 0 /\ SumFunctionOnSet(Weights', {}) = 0
  BY SumEmpty DEF ToSet, Bytes
<1>2. call'.objects = <<>> => (Bytes(ToSet(call.objects)))' = SumFunctionOnSet(Weights', {})
  BY <1>1 DEF Bytes
<1> QED BY <1>1, <1>2

(* The queues are counted as before while their objects keep their size.   *)
LEMMA QueuesSame ==
  ASSUME NEW keys, NEW levels, QueuesHold(keys, levels), HaveSizes, QueuesCount(levels),
         kLru' = kLru, kLruSizes' = kLruSizes,
         \A l \in levels : \A y \in ToSet(kLru[l]) :
           y \in DOMAIN allObjects' /\ allObjects'[y].size = allObjects[y].size
  PROVE  QueuesCount(levels)'
<1>1. ASSUME NEW l \in levels PROVE (Bytes(ToSet(kLru[l])))' = Bytes(ToSet(kLru[l]))
  <2>1. \A y \in ToSet(kLru[l]) : Weights'[y] = Weights[y]
    BY DEF QueuesHold, Weights
  <2>2. IsFiniteSet(ToSet(kLru[l])) /\ Ints(Weights, ToSet(kLru[l]))
    BY QueueWeights DEF Ints
  <2>3. SumFunctionOnSet(Weights', ToSet(kLru[l])) = SumFunctionOnSet(Weights, ToSet(kLru[l]))
    BY <2>1, <2>2, SumSame
  <2> QED BY <2>3 DEF Bytes
<1> QED BY <1>1 DEF QueuesCount

(* The object of key x leaves the cache, while no call is under way. *)
LEMMA KlruBooksTakesOut ==
  ASSUME KlruBooks, call.objects = <<>>, call' = call, NEW x \in DOMAIN allObjects, Klru!TakeOut(x)
  PROVE  DramCounts' /\ KlruFound' /\ KlruRoom'
<1> DEFINE size == allObjects[x].size
<1>1. /\ allObjects' = [y \in DOMAIN allObjects \ {x} |-> allObjects[y]]
      /\ globalLru' = Erase(globalLru, {x})
      /\ allObjects[x].isInDram => Klru!LeaveQueue(x) /\ flash' = flash /\ flashSize' = flashSize
      /\ ~ allObjects[x].isInDram => /\ flash' = Erase(flash, {x}) /\ flashSize' = flashSize - size
                                     /\ kLru' = kLru /\ kLruSizes' = kLruSizes /\ dramSize' = dramSize
  BY KlruTerms DEF Klru!TakeOut, Klru!Unbind, Klru!Drop, Klru!queueVars
<1>2. /\ KlruInv /\ QueuesHold(FewKeys, Klru!Levels) /\ HaveSizes /\ DramCounts /\ QueuesCount(Klru!Levels)
      /\ flash \in Seq(FewKeys) /\ IsInjective(flash)
      /\ globalLru \in Seq(FewKeys) /\ IsInjective(globalLru)
      /\ ToSet(globalLru) = DOMAIN allObjects
      /\ ToSet(flash) = {y \in DOMAIN allObjects : ~ allObjects[y].isInDram}
      /\ \A y \in DOMAIN allObjects :
           allObjects[y].isInDram => y \in ToSet(kLru[allObjects[y].queueNumber])
      /\ \A y \in DOMAIN allObjects : allObjects[y].queueNumber \in Klru!Levels
      /\ \A l \in Klru!Levels : \A y \in ToSet(kLru[l]) : y \in DOMAIN allObjects /\ allObjects[y].isInDram
  BY KlruHaveSizes, NothingInHand
     DEF KlruBooks, KlruInv, KlruItems, KlruFound, DramCounts, QueuesAreDram, QueuesHold
<1>3. /\ \A l \in Klru!Levels : l > 0 => kLruSizes[l] =< FC_KLRU_QUEUE_SIZE
      /\ dramSize + 0 =< DRAM_SIZE_FC_KLRU /\ dramSize \in Nat
      /\ flashSize = Bytes(ToSet(flash)) /\ flashSize =< FLASH_SIZE
      /\ kLruSizes \in [Klru!Levels -> Nat]
  <2>1. kLruSizes \in [Klru!Levels -> Nat] /\ dramSize = SumFunctionOnSet(kLruSizes, Klru!Levels)
    BY <1>2 DEF QueuesCount, DramCounts
  <2>2. dramSize \in Nat
    BY <2>1, KlruLevels, SumNat
  <2> QED BY <2>1, <2>2, NothingWeighs DEF KlruBooks, KlruRoom
<1>4. globalLru' \in Seq(FewKeys) /\ IsInjective(globalLru') /\ ToSet(globalLru') = DOMAIN allObjects'
  BY <1>1, <1>2, EraseSet, EraseDistinct
<1>5. \A y \in DOMAIN allObjects \ {x} : y \in DOMAIN allObjects' /\ allObjects'[y] = allObjects[y]
  BY <1>1
<1>6. \A y \in DOMAIN allObjects' : y \in DOMAIN allObjects \ {x}
  BY <1>1
<1>7. (Bytes(ToSet(call.objects)))' = 0 /\ ToSet(call'.objects) = {}
  BY NothingWeighs
<1>8. CASE allObjects[x].isInDram
  <2>1. Klru!LeaveQueue(x) /\ flash' = flash /\ flashSize' = flashSize
    BY <1>1, <1>8
  <2>2. x \in ToSet(kLru[allObjects[x].queueNumber])
    BY <1>2, <1>8
  <2>3. \A y \in DOMAIN allObjects \ {x} :
          y \in DOMAIN allObjects' /\ allObjects'[y].size = allObjects[y].size
    BY <1>5
  <2>4. /\ DramCounts' /\ \A l \in Klru!Levels : kLruSizes'[l] =< kLruSizes[l]
        /\ dramSize' + size = dramSize /\ dramSize' \in Nat
        /\ \A l \in Klru!Levels : ToSet(kLru'[l]) = ToSet(kLru[l]) \ {x}
    BY <1>2, <1>8, <2>1, <2>2, <2>3, KlruGivesBack
  <2>5. x \notin ToSet(flash)
    BY <1>2, <1>8
  <2>6. KlruFound'
    <3>1. \A y \in DOMAIN allObjects' :
            allObjects'[y].isInDram => y \in ToSet(kLru'[allObjects'[y].queueNumber])
      BY <1>2, <1>5, <1>6, <2>4
    <3>2. ToSet(flash') = {y \in DOMAIN allObjects' : ~ allObjects'[y].isInDram}
      BY <1>2, <1>5, <1>6, <2>1, <2>5
    <3> QED BY <1>2, <1>4, <1>7, <2>1, <3>1, <3>2 DEF KlruFound
  <2>7. KlruRoom'
    <3>1. size \in Nat /\ dramSize' =< dramSize
      BY <1>2, <1>3, <2>4 DEF HaveSizes
    <3>2. kLruSizes' \in [Klru!Levels -> Nat]
      BY <2>4 DEF DramCounts, QueuesCount
    <3>3. \A l \in Klru!Levels : l > 0 => kLruSizes'[l] =< FC_KLRU_QUEUE_SIZE
      BY <1>3, <2>4, <3>2, KlruSums
    <3>4. (Bytes(ToSet(flash)))' = Bytes(ToSet(flash))
      <4>1. \A y \in ToSet(flash) : y \in DOMAIN allObjects' /\ allObjects'[y].size = allObjects[y].size
        BY <1>2, <1>5, <2>5
      <4> QED BY <2>1, <4>1, FlashCounts DEF KlruBooks
    <3>5. dramSize' + (Bytes(ToSet(call.objects)))' =< DRAM_SIZE_FC_KLRU
      BY <1>3, <1>7, <2>4, <3>1, KlruSums
    <3> QED BY <1>3, <2>1, <3>3, <3>4, <3>5 DEF KlruRoom
  <2> QED BY <2>4, <2>6, <2>7
<1>9. CASE ~ allObjects[x].isInDram
  <2>1. /\ flash' = Erase(flash, {x}) /\ flashSize' = flashSize - size
        /\ kLru' = kLru /\ kLruSizes' = kLruSizes /\ dramSize' = dramSize
    BY <1>1, <1>9
  <2>2. flash' \in Seq(FewKeys) /\ IsInjective(flash') /\ ToSet(flash') = ToSet(flash) \ {x}
    BY <1>2, <2>1, EraseSet, EraseDistinct
  <2>3. \A l \in Klru!Levels : \A y \in ToSet(kLru[l]) :
          y \in DOMAIN allObjects' /\ allObjects'[y].size = allObjects[y].size
    BY <1>2, <1>5, <1>9
  <2>4. DramCounts'
    <3>1. QueuesCount(Klru!Levels)'
      BY <1>2, <2>1, <2>3, QueuesSame
    <3> QED BY <1>2, <2>1, <3>1 DEF DramCounts
  <2>5. KlruFound'
    <3>1. \A y \in DOMAIN allObjects' :
            allObjects'[y].isInDram => y \in ToSet(kLru'[allObjects'[y].queueNumber])
      BY <1>2, <1>5, <1>6, <2>1
    <3>2. ToSet(flash') = {y \in DOMAIN allObjects' : ~ allObjects'[y].isInDram}
      BY <1>2, <1>5, <1>6, <2>2
    <3> QED BY <1>4, <1>7, <2>2, <3>1, <3>2 DEF KlruFound
  <2>6. flashSize' = (Bytes(ToSet(flash)))' /\ flashSize' =< FLASH_SIZE
    <3> DEFINE f == Weights
               g == Weights'
               F == ToSet(flash)
    <3>1. /\ IsFiniteSet(F) /\ (\A y \in F : f[y] \in Nat) /\ (\A y \in F \ {x} : g[y] = f[y])
          /\ x \in F /\ f[x] = size
      <4>1. IsFiniteSet(F)
        BY <1>2, DistinctLength
      <4>2. \A y \in F : f[y] \in Nat
        BY <1>2 DEF HaveSizes, Weights
      <4>3. \A y \in F \ {x} : g[y] = f[y]
        BY <1>2, <1>5 DEF Weights
      <4>4. x \in F /\ f[x] = size
        BY <1>2, <1>9 DEF Weights
      <4> QED BY <4>1, <4>2, <4>3, <4>4
    <3>2. (Bytes(ToSet(flash)))' = SumFunctionOnSet(g, ToSet(flash')) /\ flashSize = SumFunctionOnSet(f, F)
      BY <1>3 DEF Bytes
    <3>3. ToSet(flash') = F \ {x}
      BY <2>2
    <3> HIDE DEF f, g, F, size
    <3>4. /\ SumFunctionOnSet(g, F \ {x}) \in Nat /\ SumFunctionOnSet(f, F) \in Nat
          /\ SumFunctionOnSet(g, F \ {x}) = SumFunctionOnSet(f, F) - (IF x \in F THEN f[x] ELSE 0)
      BY <3>1, WeighsLess
    <3>5. SumFunctionOnSet(g, F \ {x}) = flashSize - size /\ size \in Nat /\ flashSize \in Nat
      BY <3>1, <3>2, <3>4
    <3>6. flashSize' = flashSize - size /\ flashSize =< FLASH_SIZE /\ FLASH_SIZE \in Nat
      BY <1>3, <2>1, KlruSums DEF size
    <3>7. flashSize' = SumFunctionOnSet(g, ToSet(flash'))
      BY <3>3, <3>5, <3>6
    <3>8. flashSize' =< FLASH_SIZE
      BY <3>5, <3>6
    <3> QED BY <3>2, <3>7, <3>8
  <2>7. KlruRoom'
    BY <1>3, <1>7, <2>1, <2>6 DEF KlruRoom
  <2> QED BY <2>4, <2>5, <2>7
<1> QED BY <1>8, <1>9

LEMMA KlruBooksMiss ==
  ASSUME KlruBooks, pc = "ready", NEW r \in Klru!Requests, Klru!Miss(r)
  PROVE  DramCounts' /\ KlruFound' /\ KlruRoom' /\ KlruOnItsWay'
<1>1. /\ pc' = "insert" /\ newItem' = [kid |-> r.kid, size |-> r.size] /\ call' = call
      /\ IF r.kid \in DOMAIN allObjects THEN Klru!TakeOut(r.kid) ELSE UNCHANGED Klru!tierVars
  BY DEF Klru!Miss
<1>2. call.objects = <<>>
  BY DEF KlruBooks, KlruInv, NewItemIsNew
<1>3. DramCounts' /\ KlruFound' /\ KlruRoom'
  <2>1. CASE r.kid \in DOMAIN allObjects
    BY <1>1, <1>2, <2>1, KlruBooksTakesOut
  <2>2. CASE r.kid \notin DOMAIN allObjects
    <3>1. /\ kLru' = kLru /\ kLruSizes' = kLruSizes /\ dramSize' = dramSize /\ flash' = flash
          /\ flashSize' = flashSize /\ globalLru' = globalLru /\ allObjects' = allObjects
      BY <1>1, <2>2 DEF Klru!tierVars, Klru!queueVars
    <3>2. /\ (\A l \in Klru!Levels : (Bytes(ToSet(kLru[l])))' = Bytes(ToSet(kLru[l])))
          /\ (Bytes(ToSet(flash)))' = Bytes(ToSet(flash))
          /\ (Bytes(ToSet(call.objects)))' = Bytes(ToSet(call.objects))
      BY <1>1, <3>1 DEF Bytes, Weights
    <3>3. DramCounts'
      BY <3>1, <3>2 DEF KlruBooks, DramCounts, QueuesCount
    <3>4. KlruFound'
      BY <1>1, <3>1 DEF KlruBooks, KlruFound
    <3>5. KlruRoom'
      BY <1>1, <3>1, <3>2 DEF KlruBooks, KlruRoom
    <3> QED BY <3>3, <3>4, <3>5
  <2> QED BY <2>1, <2>2
<1>4. KlruOnItsWay'
  <2>1. newItem' \in Klru!Requests
    BY <1>1 DEF Klru!Requests
  <2>2. call'.sum = (Bytes(ToSet(call.objects)))'
    BY <1>1, <1>2, NothingWeighs DEF KlruBooks, KlruOnItsWay
  <2> QED BY <1>1, <2>1, <2>2 DEF KlruOnItsWay
<1> QED BY <1>3, <1>4

LEMMA KlruBooksHit ==
  ASSUME KlruBooks, pc = "ready", NEW r \in Klru!Requests, Klru!Hit(r)
  PROVE  DramCounts' /\ KlruFound' /\ KlruRoom' /\ KlruOnItsWay'
<1> DEFINE x == r.kid
           q == allObjects[x].queueNumber
           size == allObjects[x].size
<1>1. /\ x \in DOMAIN allObjects /\ globalLru' = <<x>> \o Erase(globalLru, {x})
      /\ newItem' = newItem /\ flash' = flash /\ flashSize' = flashSize /\ allObjects' = allObjects
      /\ allObjects[x].isInDram =>
           /\ Klru!LeaveQueue(x) /\ pc' = "reorder" /\ call'.objects = <<x>> /\ call'.sum = size
           /\ call'.k = Min({q + 1, FC_K_LRU - 1}) /\ call'.updateWrites = (q + 1 # FC_K_LRU)
      /\ ~ allObjects[x].isInDram =>
           /\ pc' = pc /\ call' = call /\ kLru' = kLru /\ kLruSizes' = kLruSizes /\ dramSize' = dramSize
  <2>1. /\ x \in DOMAIN allObjects /\ size = r.size /\ globalLru' = <<x>> \o Erase(globalLru, {x})
        /\ newItem' = newItem /\ flash' = flash /\ flashSize' = flashSize /\ allObjects' = allObjects
    BY KlruTerms DEF Klru!Hit, Klru!IsHit, Klru!Drop
  <2>2. allObjects[x].isInDram =>
           /\ Klru!LeaveQueue(x)
           /\ Klru!Reorder(<<x>>, r.size, Min({q + 1, FC_K_LRU - 1}), q + 1 # FC_K_LRU)
    BY KlruTerms DEF Klru!Hit
  <2>3. ~ allObjects[x].isInDram =>
           /\ pc' = pc /\ call' = call /\ kLru' = kLru /\ kLruSizes' = kLruSizes /\ dramSize' = dramSize
    BY DEF Klru!Hit, Klru!queueVars
  <2> QED BY <2>1, <2>2, <2>3 DEF Klru!Reorder
<1>2. /\ KlruInv /\ QueuesHold(FewKeys, Klru!Levels) /\ HaveSizes /\ DramCounts /\ QueuesCount(Klru!Levels)
      /\ flash \in Seq(FewKeys) /\ IsInjective(flash)
      /\ globalLru \in Seq(FewKeys) /\ IsInjective(globalLru)
      /\ ToSet(globalLru) = DOMAIN allObjects /\ x \in FewKeys
      /\ ToSet(flash) = {y \in DOMAIN allObjects : ~ allObjects[y].isInDram}
      /\ \A y \in DOMAIN allObjects :
           allObjects[y].isInDram => y \in ToSet(kLru[allObjects[y].queueNumber])
      /\ \A y \in DOMAIN allObjects : allObjects[y].queueNumber \in Klru!Levels
      /\ newItem \in Klru!Requests \union {Klru!NoItem} /\ call.objects = <<>>
  <2>1. call.objects = <<>>
    BY DEF KlruBooks, KlruInv, NewItemIsNew
  <2> QED BY <2>1, KlruHaveSizes, NothingInHand
          DEF KlruBooks, KlruInv, KlruItems, KlruFound, DramCounts, KlruOnItsWay, Klru!Requests
<1>3. /\ \A l \in Klru!Levels : l > 0 => kLruSizes[l] =< FC_KLRU_QUEUE_SIZE
      /\ dramSize + 0 =< DRAM_SIZE_FC_KLRU
      /\ flashSize = Bytes(ToSet(flash)) /\ flashSize =< FLASH_SIZE
      /\ kLruSizes \in [Klru!Levels -> Nat] /\ call.sum = Bytes(ToSet(call.objects))
  BY <1>2, NothingWeighs DEF KlruBooks, KlruRoom, KlruOnItsWay, QueuesCount
<1>4. globalLru' \in Seq(FewKeys) /\ IsInjective(globalLru') /\ ToSet(globalLru') = DOMAIN allObjects'
  <2>1. globalLru' = ToFront(globalLru, x)
    BY <1>1 DEF ToFront
  <2>2. /\ globalLru' \in Seq(FewKeys) /\ ToSet(globalLru') = {x} \union ToSet(globalLru)
        /\ IsInjective(globalLru')
    BY <1>2, <2>1, MoveToFront
  <2> QED BY <1>1, <1>2, <2>2
<1>5. (Bytes(ToSet(flash)))' = Bytes(ToSet(flash))
  BY <1>1 DEF Bytes, Weights
<1>6. size \in Nat /\ q \in Klru!Levels
  BY <1>1, <1>2 DEF HaveSizes
<1>7. CASE allObjects[x].isInDram
  <2>1. /\ Klru!LeaveQueue(x) /\ pc' = "reorder" /\ call'.objects = <<x>> /\ call'.sum = size
        /\ call'.k = Min({q + 1, FC_K_LRU - 1}) /\ call'.updateWrites = (q + 1 # FC_K_LRU)
    BY <1>1, <1>7
  <2>2. x \in ToSet(kLru[allObjects[x].queueNumber])
    BY <1>1, <1>2, <1>7
  <2>3. \A y \in DOMAIN allObjects \ {x} :
          y \in DOMAIN allObjects' /\ allObjects'[y].size = allObjects[y].size
    BY <1>1
  <2> HIDE DEF x
  <2>4. /\ DramCounts' /\ \A l \in Klru!Levels : kLruSizes'[l] =< kLruSizes[l]
        /\ kLruSizes'[allObjects[x].queueNumber] + allObjects[x].size =
             kLruSizes[allObjects[x].queueNumber]
        /\ dramSize' + allObjects[x].size = dramSize /\ dramSize' \in Nat
        /\ \A l \in Klru!Levels : ToSet(kLru'[l]) = ToSet(kLru[l]) \ {x}
    BY <1>1, <1>2, <1>7, <2>1, <2>2, <2>3, KlruGivesBack
  <2>5. kLruSizes'[q] + size = kLruSizes[q] /\ dramSize' + size = dramSize
    BY <2>4
  <2>6. ToSet(call'.objects) = {x} /\ ToSet(<<x>>) = {x}
    BY <2>1 DEF ToSet
  <2>7. (Bytes(ToSet(call.objects)))' = size
    <3>1. (Bytes(ToSet(call.objects)))' = SumFunctionOnSet(Weights', {x})
      BY <2>6 DEF Bytes
    <3>2. Weights'[x] = size
      BY <1>1 DEF Weights
    <3> QED BY <1>6, <3>1, <3>2, WeighsOne
  <2>8. KlruFound'
    <3>1. \A y \in DOMAIN allObjects' \ {x} :
            allObjects'[y].isInDram => y \in ToSet(kLru'[allObjects'[y].queueNumber])
      BY <1>1, <1>2, <2>4
    <3> QED BY <1>1, <1>2, <1>4, <2>6, <3>1 DEF KlruFound
  <2>9. kLruSizes' \in [Klru!Levels -> Nat]
    BY <2>4 DEF DramCounts, QueuesCount
  <2> HIDE DEF size, q
  <2>10. KlruRoom'
    <3>1. \A l \in Klru!Levels : l > 0 => kLruSizes'[l] =< FC_KLRU_QUEUE_SIZE
      BY <1>3, <2>4, <2>9, KlruSums
    <3>2. dramSize' + (Bytes(ToSet(call.objects)))' =< DRAM_SIZE_FC_KLRU
      BY <1>3, <1>6, <2>4, <2>5, <2>7
    <3> QED BY <1>1, <1>3, <1>5, <3>1, <3>2 DEF KlruRoom
  <2>11. KlruOnItsWay'
    <3>1. Len(call'.objects) = 1
      BY <2>1
    <3>2. ~ call'.updateWrites =>
            call'.k = 0 \/ call'.sum + kLruSizes'[call'.k] =< FC_KLRU_QUEUE_SIZE
      <4> SUFFICES ASSUME ~ call'.updateWrites
                   PROVE  call'.k = 0 \/ call'.sum + kLruSizes'[call'.k] =< FC_KLRU_QUEUE_SIZE
        OBVIOUS
      <4>1. q + 1 = FC_K_LRU
        BY <2>1
      <4>2. Min({q + 1, FC_K_LRU - 1}) = q
        BY <1>6, <4>1, KlruTerms, MinOfTwo
      <4>3. call'.k = q
        BY <2>1, <4>2
      <4>4. q \in Nat /\ kLruSizes'[q] \in Nat /\ kLruSizes[q] \in Nat
        BY <1>3, <1>6, <2>9, KlruLevels
      <4>5. q > 0 => size + kLruSizes'[q] =< FC_KLRU_QUEUE_SIZE
        BY <1>3, <1>6, <2>5, <4>4, KlruSums
      <4>6. q = 0 \/ q > 0
        BY <4>4
      <4> QED BY <2>1, <4>3, <4>5, <4>6
    <3>3. call'.sum = (Bytes(ToSet(call.objects)))' /\ pc' = "reorder"
      BY <2>1, <2>7
    <3>4. newItem' \in Klru!Requests \union {Klru!NoItem}
      BY <1>1, <1>2
    <3> QED BY <3>1, <3>2, <3>3, <3>4 DEF KlruOnItsWay
  <2> QED BY <2>4, <2>8, <2>10, <2>11
<1>8. CASE ~ allObjects[x].isInDram
  <2>1. /\ pc' = pc /\ call' = call /\ kLru' = kLru /\ kLruSizes' = kLruSizes /\ dramSize' = dramSize
        /\ allObjects' = allObjects /\ newItem' = newItem /\ flash' = flash /\ flashSize' = flashSize
    BY <1>1, <1>8
  <2>2. /\ (\A l \in Klru!Levels : (Bytes(ToSet(kLru[l])))' = Bytes(ToSet(kLru[l])))
        /\ (Bytes(ToSet(call.objects)))' = Bytes(ToSet(call.objects))
    BY <2>1 DEF Bytes, Weights
  <2>3. DramCounts'
    BY <2>1, <2>2 DEF KlruBooks, DramCounts, QueuesCount
  <2>4. KlruFound'
    BY <1>4, <2>1 DEF KlruBooks, KlruFound
  <2>5. KlruRoom' /\ KlruOnItsWay'
    BY <1>5, <2>1, <2>2 DEF KlruBooks, KlruRoom, KlruOnItsWay
  <2> QED BY <2>3, <2>4, <2>5
<1> QED BY <1>7, <1>8

(* Room is made while DRAM counts bytes: some queue has an object then.    *)
LEMMA MfuIsCached ==
  ASSUME KlruBooks, Klru!MakesRoom
  PROVE  /\ Klru!mfuKid \in DOMAIN allObjects /\ allObjects[Klru!mfuKid].isInDram
         /\ Klru!mfuKid \in ToSet(kLru[allObjects[Klru!mfuKid].queueNumber])
         /\ Klru!mfuKid \in FewKeys
<1> DEFINE Full == {k \in Klru!Levels : kLruSizes[k] > 0}
           l == Max(Full)
           q == kLru[l]
<1>1. Klru!mfuKid = Head(q)
  BY KlruTerms DEF Klru!mfuKid
<1>2. /\ pc = "insert" /\ ~ (newItem.size + dramSize =< DRAM_SIZE_FC_KLRU)
      /\ QueuesHold(FewKeys, Klru!Levels) /\ QueuesCount(Klru!Levels)
      /\ dramSize = SumFunctionOnSet(kLruSizes, Klru!Levels)
      /\ kLruSizes \in [Klru!Levels -> Nat]
      /\ newItem.size \in Nat /\ newItem.size =< DRAM_SIZE_FC_KLRU
      /\ \A k \in Klru!Levels : \A y \in ToSet(kLru[k]) : allObjects[y].isInDram
  BY KlruSums DEF Klru!MakesRoom, Klru!HasRoom, KlruBooks, KlruInv, NewItemIsNew, DramCounts,
                  QueuesCount, QueuesAreDram
<1>3. Full # {}
  <2> SUFFICES ASSUME Full = {} PROVE FALSE
    OBVIOUS
  <2>1. \A k \in Klru!Levels : kLruSizes[k] = 0 /\ kLruSizes[k] \in Nat
    BY <1>2
  <2>2. dramSize = 0
    BY <1>2, <2>1, KlruLevels, SumNat
  <2> QED BY <1>2, <2>2, KlruSums
<1>4. l \in Full
  <2>1. Full \in SUBSET (0 .. FC_K_LRU - 1) /\ FC_K_LRU - 1 \in Nat
    BY KlruTerms
  <2> QED BY <1>3, <2>1, GreatestElement
<1>5. l \in Klru!Levels /\ kLruSizes[l] > 0
  BY <1>4
<1> HIDE DEF l, Full
<1>6. q \in Seq(FewKeys) /\ kLruSizes[l] = Bytes(ToSet(q))
  BY <1>2, <1>5 DEF QueuesHold, QueuesCount
<1>7. q # <<>>
  <2>1. ToSet(<<>>) = {} /\ Bytes({}) = 0
    BY SumEmpty DEF Bytes, ToSet
  <2>2. kLruSizes[l] # 0
    BY <1>5
  <2> QED BY <1>6, <2>1, <2>2
<1>8. Head(q) \in ToSet(q) /\ Head(q) \in FewKeys
  <2> HIDE DEF q
  <2>1. Head(q) = q[1] /\ 1 \in DOMAIN q /\ q[1] \in FewKeys
    BY <1>6, <1>7
  <2> QED BY <2>1 DEF ToSet
<1>9. \A y \in ToSet(q) : y \in DOMAIN allObjects /\ allObjects[y].queueNumber = l /\ allObjects[y].isInDram
  BY <1>2, <1>5 DEF QueuesHold
<1> QED BY <1>1, <1>8, <1>9

LEMMA KlruBooksEvict ==
  ASSUME KlruBooks, Klru!EvictGlobalLru
  PROVE  DramCounts' /\ KlruFound' /\ KlruRoom' /\ KlruOnItsWay'
<1> DEFINE x == Last(globalLru)
<1>1. /\ Klru!MakesRoom /\ Klru!TakeOut(x) /\ pc = "insert" /\ pc' = pc
      /\ newItem' = newItem /\ call' = call
  <2>1. Klru!Last(globalLru) = x
    BY DEF Klru!Last, Last
  <2> QED BY <2>1 DEF Klru!EvictGlobalLru, Klru!MakesRoom
<1>2. x \in DOMAIN allObjects
  <2>1. globalLru \in Seq(FewKeys) /\ ToSet(globalLru) = DOMAIN allObjects
    BY DEF KlruBooks, KlruFound
  <2>2. globalLru # <<>>
    <3>1. ToSet(<<>>) = {}
      BY DEF ToSet
    <3> QED BY <1>1, <2>1, <3>1, MfuIsCached
  <2>3. ToSet(globalLru) = ToSet(Front(globalLru)) \union {x}
    BY <2>1, <2>2, FrontAndLast
  <2> QED BY <2>1, <2>3
<1> HIDE DEF x
<1>3. call.objects = <<>>
  BY <1>1 DEF KlruBooks, KlruInv, NewItemIsNew
<1>4. DramCounts' /\ KlruFound' /\ KlruRoom'
  BY <1>1, <1>2, <1>3, KlruBooksTakesOut
<1>5. KlruOnItsWay'
  <2>1. call'.sum = (Bytes(ToSet(call.objects)))'
    BY <1>1, <1>3, NothingWeighs DEF KlruBooks, KlruOnItsWay
  <2>2. newItem' \in Klru!Requests \union {Klru!NoItem}
    BY <1>1 DEF KlruBooks, KlruOnItsWay
  <2> QED BY <1>1, <2>1, <2>2 DEF KlruOnItsWay
<1> QED BY <1>4, <1>5

LEMMA KlruBooksMoveToFlash ==
  ASSUME KlruBooks, Klru!MoveToFlash
  PROVE  DramCounts' /\ KlruFound' /\ KlruRoom' /\ KlruOnItsWay'
<1> DEFINE x == Klru!mfuKid
           size == allObjects[x].size
<1>1. /\ Klru!MakesRoom /\ pc = "insert" /\ pc' = pc /\ newItem' = newItem /\ call' = call
      /\ flashSize + size =< FLASH_SIZE /\ Klru!LeaveQueue(x)
      /\ flash' = <<x>> \o flash /\ flashSize' = flashSize + size
      /\ allObjects' = [allObjects EXCEPT ![x].isInDram = FALSE] /\ globalLru' = globalLru
  BY DEF Klru!MoveToFlash, Klru!MakesRoom, Klru!FitsInFlash
<1>2. /\ x \in DOMAIN allObjects /\ allObjects[x].isInDram
      /\ x \in ToSet(kLru[allObjects[x].queueNumber]) /\ x \in FewKeys
  BY <1>1, MfuIsCached
<1> HIDE DEF x
<1>3. /\ KlruInv /\ HaveSizes /\ DramCounts
      /\ flash \in Seq(FewKeys) /\ IsInjective(flash)
      /\ globalLru \in Seq(FewKeys) /\ IsInjective(globalLru)
      /\ ToSet(globalLru) = DOMAIN allObjects
      /\ ToSet(flash) = {y \in DOMAIN allObjects : ~ allObjects[y].isInDram}
      /\ \A y \in DOMAIN allObjects :
           allObjects[y].isInDram => y \in ToSet(kLru[allObjects[y].queueNumber])
      /\ \A y \in DOMAIN allObjects : allObjects[y] \in KlruItems
      /\ newItem \in Klru!Requests \union {Klru!NoItem} /\ call.objects = <<>>
  <2>1. call.objects = <<>>
    BY <1>1 DEF KlruBooks, KlruInv, NewItemIsNew
  <2> QED BY <2>1, KlruHaveSizes, NothingInHand
          DEF KlruBooks, KlruInv, KlruItems, KlruFound, KlruOnItsWay
<1>4. /\ \A l \in Klru!Levels : l > 0 => kLruSizes[l] =< FC_KLRU_QUEUE_SIZE
      /\ dramSize + 0 =< DRAM_SIZE_FC_KLRU
      /\ flashSize = Bytes(ToSet(flash)) /\ flashSize =< FLASH_SIZE
      /\ kLruSizes \in [Klru!Levels -> Nat] /\ call.sum = 0
  BY <1>3, NothingWeighs DEF KlruBooks, KlruRoom, KlruOnItsWay, QueuesCount, DramCounts
<1>5. /\ DOMAIN allObjects' = DOMAIN allObjects /\ ~ allObjects'[x].isInDram
      /\ \A y \in DOMAIN allObjects : y # x => allObjects'[y] = allObjects[y]
      /\ \A y \in DOMAIN allObjects : allObjects'[y].size = allObjects[y].size
  <2>1. DOMAIN allObjects' = DOMAIN allObjects
    BY <1>1
  <2>2. \A y \in DOMAIN allObjects : y # x => allObjects'[y] = allObjects[y]
    BY <1>1
  <2>3. allObjects'[x] = [allObjects[x] EXCEPT !.isInDram = FALSE] /\ allObjects[x] \in KlruItems
    BY <1>1, <1>2, <1>3
  <2>4. allObjects'[x].size = allObjects[x].size /\ ~ allObjects'[x].isInDram
    BY <2>3 DEF KlruItems
  <2> QED BY <2>1, <2>2, <2>4
<1>6. size \in Nat
  BY <1>2, <1>3 DEF HaveSizes
<1>7. /\ DramCounts' /\ \A l \in Klru!Levels : kLruSizes'[l] =< kLruSizes[l]
      /\ dramSize' + size = dramSize /\ dramSize' \in Nat
      /\ \A l \in Klru!Levels : ToSet(kLru'[l]) = ToSet(kLru[l]) \ {x}
  <2>1. \A y \in DOMAIN allObjects \ {x} :
          y \in DOMAIN allObjects' /\ allObjects'[y].size = allObjects[y].size
    BY <1>5
  <2> QED BY <1>1, <1>2, <1>3, <2>1, KlruGivesBack
<1>8. (Bytes(ToSet(call.objects)))' = 0 /\ ToSet(call'.objects) = {}
  BY <1>1, <1>3, NothingWeighs
<1>9. x \notin ToSet(flash)
  BY <1>2, <1>3
<1>10. flash' \in Seq(FewKeys) /\ IsInjective(flash') /\ ToSet(flash') = {x} \union ToSet(flash)
  BY <1>1, <1>2, <1>3, <1>9, PushFront
<1>11. KlruFound'
  <2>1. \A y \in DOMAIN allObjects' :
          allObjects'[y].isInDram => y \in ToSet(kLru'[allObjects'[y].queueNumber])
    <3> SUFFICES ASSUME NEW y \in DOMAIN allObjects', allObjects'[y].isInDram
                 PROVE  y \in ToSet(kLru'[allObjects'[y].queueNumber])
      OBVIOUS
    <3>1. y # x /\ y \in DOMAIN allObjects /\ allObjects'[y] = allObjects[y]
      BY <1>5
    <3>2. y \in ToSet(kLru[allObjects[y].queueNumber]) /\ allObjects[y].queueNumber \in Klru!Levels
      BY <1>3, <3>1 DEF KlruItems
    <3> QED BY <1>7, <3>1, <3>2
  <2>2. ToSet(flash') = {y \in DOMAIN allObjects' : ~ allObjects'[y].isInDram}
    BY <1>2, <1>3, <1>5, <1>10
  <2> QED BY <1>1, <1>3, <1>5, <1>8, <1>10, <2>1, <2>2 DEF KlruFound
<1>12. flashSize' = (Bytes(ToSet(flash)))'
  <2> DEFINE f == Weights
             g == Weights'
             F == ToSet(flash)
  <2>1. /\ IsFiniteSet(F) /\ (\A y \in F : f[y] \in Nat) /\ (\A y \in F : g[y] = f[y])
        /\ x \notin F /\ g[x] = size /\ g[x] \in Nat
    <3>1. IsFiniteSet(F)
      BY <1>3, DistinctLength
    <3>2. \A y \in F : f[y] \in Nat
      BY <1>3 DEF HaveSizes, Weights
    <3>3. \A y \in F : g[y] = f[y]
      BY <1>3, <1>5 DEF Weights
    <3>4. x \notin F /\ g[x] = size /\ g[x] \in Nat
      BY <1>2, <1>5, <1>6, <1>9 DEF Weights
    <3> QED BY <3>1, <3>2, <3>3, <3>4
  <2>2. (Bytes(ToSet(flash)))' = SumFunctionOnSet(g, ToSet(flash')) /\ flashSize = SumFunctionOnSet(f, F)
    BY <1>4 DEF Bytes
  <2>3. ToSet(flash') = {x} \union F
    BY <1>10
  <2> HIDE DEF f, g, F, size
  <2>4. SumFunctionOnSet(g, {x} \union F) = SumFunctionOnSet(f, F) + g[x]
    BY <2>1, WeighsMore
  <2> QED BY <1>1, <2>1, <2>2, <2>3, <2>4 DEF size
<1>13. KlruRoom'
  <2>1. kLruSizes' \in [Klru!Levels -> Nat]
    BY <1>7 DEF DramCounts, QueuesCount
  <2> HIDE DEF size
  <2>2. \A l \in Klru!Levels : l > 0 => kLruSizes'[l] =< FC_KLRU_QUEUE_SIZE
    BY <1>4, <1>7, <2>1, KlruSums
  <2>3. dramSize' + (Bytes(ToSet(call.objects)))' =< DRAM_SIZE_FC_KLRU
    BY <1>4, <1>6, <1>7, <1>8, KlruSums
  <2>4. flashSize' =< FLASH_SIZE
    BY <1>1
  <2> QED BY <1>12, <2>2, <2>3, <2>4 DEF KlruRoom
<1>14. KlruOnItsWay'
  BY <1>1, <1>3, <1>4, <1>8 DEF KlruOnItsWay
<1> QED BY <1>7, <1>11, <1>13, <1>14

LEMMA KlruBooksInsert ==
  ASSUME KlruBooks, Klru!Insert
  PROVE  DramCounts' /\ KlruFound' /\ KlruRoom' /\ KlruOnItsWay'
<1> DEFINE x == newItem.kid
           size == newItem.size
           p == <<x>> \o kLru[0]
           f == Weights
           g == Weights'
<1>1. /\ pc = "insert" /\ pc' = "ready" /\ newItem' = Klru!NoItem /\ call' = call
      /\ size + dramSize =< DRAM_SIZE_FC_KLRU /\ dramSize' = dramSize + size
      /\ globalLru' = <<x>> \o globalLru
      /\ kLru' = [kLru EXCEPT ![0] = p] /\ kLruSizes' = [kLruSizes EXCEPT ![0] = @ + size]
      /\ allObjects' = [y \in DOMAIN allObjects \union {x} |->
                          IF y = x THEN [size |-> size, isInDram |-> TRUE, queueNumber |-> 0]
                          ELSE allObjects[y]]
      /\ flash' = flash /\ flashSize' = flashSize
  BY DEF Klru!Insert, Klru!HasRoom, Klru!Bind
<1>2. /\ x \in FewKeys /\ size \in KlruSizes /\ size \in Nat /\ x \notin DOMAIN allObjects /\ call.objects = <<>>
  BY <1>1, KlruSums DEF KlruBooks, KlruInv, NewItemIsNew
<1> HIDE DEF x, size
<1>3. /\ KlruInv /\ HaveSizes /\ DramCounts
      /\ QueuesHold(FewKeys, Klru!Levels) /\ QueuesCount(Klru!Levels)
      /\ flash \in Seq(FewKeys) /\ IsInjective(flash)
      /\ globalLru \in Seq(FewKeys) /\ IsInjective(globalLru)
      /\ ToSet(globalLru) = DOMAIN allObjects
      /\ ToSet(flash) = {y \in DOMAIN allObjects : ~ allObjects[y].isInDram}
      /\ \A y \in DOMAIN allObjects :
           allObjects[y].isInDram => y \in ToSet(kLru[allObjects[y].queueNumber])
      /\ \A y \in DOMAIN allObjects : allObjects[y].queueNumber \in Klru!Levels
  BY <1>2, KlruHaveSizes, NothingInHand DEF KlruBooks, KlruInv, KlruItems, KlruFound, DramCounts
<1>4. /\ \A l \in Klru!Levels : l > 0 => kLruSizes[l] =< FC_KLRU_QUEUE_SIZE
      /\ flashSize = Bytes(ToSet(flash)) /\ flashSize =< FLASH_SIZE
      /\ kLruSizes \in [Klru!Levels -> Nat] /\ call.sum = 0
      /\ \A l \in Klru!Levels : kLruSizes[l] = SumFunctionOnSet(f, ToSet(kLru[l]))
      /\ dramSize = SumFunctionOnSet(kLruSizes, Klru!Levels)
  BY <1>2, NothingWeighs DEF KlruBooks, KlruRoom, KlruOnItsWay, QueuesCount, DramCounts, Bytes
<1>5. /\ kLru \in [Klru!Levels -> Seq(FewKeys)] /\ \A l \in Klru!Levels : IsInjective(kLru[l])
      /\ \A l \in Klru!Levels : \A y \in ToSet(kLru[l]) : y \in DOMAIN allObjects
      /\ 0 \in Klru!Levels
  BY <1>3, KlruLevels DEF QueuesHold
<1>6. p \in Seq(FewKeys) /\ ToSet(p) = {x} \union ToSet(kLru[0]) /\ IsInjective(p)
  <2>1. kLru[0] \in Seq(FewKeys) /\ IsInjective(kLru[0]) /\ x \notin ToSet(kLru[0])
    BY <1>2, <1>5
  <2> QED BY <1>2, <2>1, PushFront
<1> HIDE DEF p
<1>7. /\ kLru'[0] = p /\ kLruSizes'[0] = kLruSizes[0] + size
      /\ \A l \in Klru!Levels : l # 0 => kLru'[l] = kLru[l] /\ kLruSizes'[l] = kLruSizes[l]
      /\ DOMAIN kLruSizes' = Klru!Levels /\ kLruSizes' = [l \in Klru!Levels |-> kLruSizes'[l]]
  BY <1>1, <1>4, <1>5
<1>8. /\ DOMAIN allObjects' = DOMAIN allObjects \union {x}
      /\ allObjects'[x] = [size |-> size, isInDram |-> TRUE, queueNumber |-> 0]
      /\ \A y \in DOMAIN allObjects : allObjects'[y] = allObjects[y] /\ y # x
  BY <1>1, <1>2
<1>9. /\ \A y \in DOMAIN allObjects : g[y] = f[y] /\ f[y] \in Nat
      /\ g[x] = size
  BY <1>3, <1>8 DEF HaveSizes, Weights
<1>10. \A l \in Klru!Levels : (Bytes(ToSet(kLru[l])))' = SumFunctionOnSet(g, ToSet(kLru'[l]))
  BY DEF Bytes
<1> HIDE DEF f, g
<1>11. ASSUME NEW l \in Klru!Levels
       PROVE  kLruSizes'[l] = SumFunctionOnSet(g, ToSet(kLru'[l])) /\ kLruSizes'[l] \in Nat
  <2> DEFINE G == ToSet(kLru[l])
  <2>1. /\ IsFiniteSet(G) /\ (\A y \in G : f[y] \in Nat) /\ (\A y \in G : g[y] = f[y])
        /\ x \notin G /\ g[x] \in Nat
    <3>1. kLru[l] \in Seq(FewKeys)
      BY <1>5
    <3>2. IsFiniteSet(G)
      BY <3>1, DistinctLength
    <3> QED BY <1>2, <1>5, <1>9, <3>2
  <2>2. kLruSizes[l] = SumFunctionOnSet(f, G)
    BY <1>4
  <2>3. (l = 0 => ToSet(kLru'[l]) = {x} \union G) /\ (l # 0 => ToSet(kLru'[l]) = G)
    BY <1>6, <1>7
  <2> HIDE DEF G
  <2>4. /\ SumFunctionOnSet(f, G) \in Nat
        /\ SumFunctionOnSet(g, {x} \union G) = SumFunctionOnSet(f, G) + g[x]
    BY <2>1, WeighsMore
  <2>5. SumFunctionOnSet(g, G) = SumFunctionOnSet(f, G)
    <3>1. Ints(f, G)
      BY <2>1 DEF Ints
    <3> QED BY <2>1, <3>1, SumSame
  <2>6. CASE l = 0
    <3>1. kLruSizes'[l] = SumFunctionOnSet(f, G) + size
      BY <1>7, <2>2, <2>6
    <3>2. SumFunctionOnSet(g, ToSet(kLru'[l])) = SumFunctionOnSet(f, G) + size
      BY <1>9, <2>3, <2>4, <2>6
    <3> QED BY <1>2, <2>4, <3>1, <3>2
  <2>7. CASE l # 0
    BY <1>7, <2>2, <2>3, <2>4, <2>5, <2>7
  <2> QED BY <2>6, <2>7
<1>12. kLruSizes' \in [Klru!Levels -> Nat]
  BY <1>7, <1>11
<1>13. QueuesCount(Klru!Levels)'
  BY <1>10, <1>11, <1>12 DEF QueuesCount
<1>14. dramSize' = SumFunctionOnSet(kLruSizes', Klru!Levels) /\ dramSize \in Nat
  <2>1. /\ SumFunctionOnSet(kLruSizes', Klru!Levels) = dramSize - kLruSizes[0] + kLruSizes'[0]
        /\ dramSize \in Nat
    <3>1. \A l \in Klru!Levels : l # 0 => kLruSizes'[l] = kLruSizes[l]
      BY <1>7
    <3> QED BY <1>4, <1>5, <1>12, <3>1, DramChanges
  <2>2. kLruSizes[0] \in Nat /\ kLruSizes'[0] = kLruSizes[0] + size
    BY <1>4, <1>5, <1>7
  <2> QED BY <1>1, <1>2, <2>1, <2>2
<1>15. DramCounts'
  BY <1>13, <1>14 DEF DramCounts
<1>16. (Bytes(ToSet(call.objects)))' = 0 /\ ToSet(call'.objects) = {}
  BY <1>1, <1>2, NothingWeighs
<1>17. KlruFound'
  <2>1. globalLru' \in Seq(FewKeys) /\ IsInjective(globalLru') /\ ToSet(globalLru') = {x} \union ToSet(globalLru)
    BY <1>1, <1>2, <1>3, PushFront
  <2>2. \A y \in DOMAIN allObjects' :
          allObjects'[y].isInDram => y \in ToSet(kLru'[allObjects'[y].queueNumber])
    <3> SUFFICES ASSUME NEW y \in DOMAIN allObjects', allObjects'[y].isInDram
                 PROVE  y \in ToSet(kLru'[allObjects'[y].queueNumber])
      OBVIOUS
    <3>1. CASE y = x
      BY <1>6, <1>7, <1>8, <3>1
    <3>2. CASE y # x
      <4> DEFINE l == allObjects[y].queueNumber
      <4>1. y \in DOMAIN allObjects /\ allObjects'[y] = allObjects[y]
        BY <1>8, <3>2
      <4>2. y \in ToSet(kLru[l]) /\ l \in Klru!Levels
        BY <1>3, <4>1
      <4> HIDE DEF l
      <4>3. y \in ToSet(kLru'[l])
        BY <1>6, <1>7, <4>2
      <4> QED BY <4>1, <4>3 DEF l
    <3> QED BY <3>1, <3>2
  <2>3. ToSet(flash') = {y \in DOMAIN allObjects' : ~ allObjects'[y].isInDram}
    BY <1>1, <1>3, <1>8
  <2> QED BY <1>1, <1>3, <1>8, <1>16, <2>1, <2>2, <2>3 DEF KlruFound
<1>18. KlruRoom'
  <2>1. \A l \in Klru!Levels : l > 0 => kLruSizes'[l] =< FC_KLRU_QUEUE_SIZE
    BY <1>4, <1>7, KlruLevels
  <2>2. (Bytes(ToSet(flash)))' = Bytes(ToSet(flash))
    <3>1. \A y \in ToSet(flash) : y \in DOMAIN allObjects' /\ allObjects'[y].size = allObjects[y].size
      BY <1>3, <1>8
    <3> QED BY <1>1, <3>1, FlashCounts DEF KlruBooks
  <2>3. dramSize' + (Bytes(ToSet(call.objects)))' =< DRAM_SIZE_FC_KLRU
    BY <1>1, <1>2, <1>14, <1>16, KlruSums
  <2> QED BY <1>1, <1>4, <2>1, <2>2, <2>3 DEF KlruRoom
<1>19. KlruOnItsWay'
  BY <1>1, <1>4, <1>16 DEF KlruOnItsWay
<1> QED BY <1>15, <1>17, <1>18, <1>19

(* One call pops the objects behind the n-th of its queue, and then what   *)
(* comes fits.                                                             *)
LEMMA KlruPops ==
  ASSUME KlruInv, Klru!ReorderCall
  PROVE  \E n \in 0 .. Len(kLru[call.k]) :
           /\ Klru!Popped(call.k, call.sum) = Behind(kLru[call.k], n)
           /\ kLru' = [kLru EXCEPT ![call.k] = Reverse(call.objects) \o Upto(@, n)]
           /\ call.k = 0 => Klru!Popped(call.k, call.sum) = <<>>
           /\ call.k # 0 => call.sum + kLruSizes[call.k] - Bytes(ToSet(Behind(kLru[call.k], n)))
                              =< FC_KLRU_QUEUE_SIZE
<1> DEFINE k == call.k
           q == kLru[k]
           m == Len(q)
           pops == Klru!Popped(k, call.sum)
           n == IF k = 0 THEN m ELSE Max(Klru!Stays(k, call.sum))
<1>1. /\ k # 0 => Klru!Stays(k, call.sum) # {}
      /\ kLru' = [kLru EXCEPT ![k] = Reverse(call.objects) \o SubSeq(@, 1, Len(@) - Len(pops))]
  BY KlruTerms DEF Klru!ReorderCall, Klru!AssertionsHold
<1>2. q \in Seq(FewKeys) /\ m \in Nat
  BY DEF KlruInv, CallIsOut, QueuesHold
<1>3. CASE k = 0
  <2>1. pops = <<>> /\ n = m
    BY <1>3 DEF Klru!Popped
  <2>2. SubSeq(q, m + 1, m) = <<>>
    <3>1. m \in Int /\ m + 1 \in Int /\ m < m + 1
      BY <1>2
    <3> HIDE DEF m, q
    <3> QED BY <1>2, <3>1, SubSeqEmpty
  <2>3. pops = Behind(q, m)
    BY <2>1, <2>2 DEF Behind
  <2>4. m - Len(pops) = m
    BY <1>2, <2>1
  <2>5. SubSeq(q, 1, m - Len(pops)) = Upto(q, m)
    BY <2>4 DEF Upto
  <2>6. kLru' = [kLru EXCEPT ![k] = Reverse(call.objects) \o Upto(@, m)]
    BY <1>1, <2>5
  <2>7. m \in 0 .. m
    BY <1>2
  <2> HIDE DEF pops, m
  <2> QED BY <1>3, <2>1, <2>3, <2>6, <2>7 DEF pops, m
<1>4. CASE k # 0
  <2>1. Klru!Stays(k, call.sum) \in SUBSET (0 .. m)
    BY DEF Klru!Stays
  <2>2. n = Max(Klru!Stays(k, call.sum)) /\ n \in 0 .. m /\ n \in Klru!Stays(k, call.sum)
    BY <1>1, <1>2, <1>4, <2>1, GreatestElement
  <2>3. pops = Behind(q, n)
    BY <1>4, <2>2, KlruTerms DEF Klru!Popped, Behind
  <2>4. call.sum + kLruSizes[k] - Bytes(ToSet(Behind(q, n))) =< FC_KLRU_QUEUE_SIZE
    <3>1. call.sum + kLruSizes[k] - Klru!SizeOf(Behind(q, n)) =< FC_KLRU_QUEUE_SIZE
      BY <2>2 DEF Klru!Stays, Behind
    <3> QED BY <3>1, KlruSums
  <2> HIDE DEF n, m, q, pops
  <2>5. Len(Behind(q, n)) = m - n
    BY <1>2, <2>2, SplitAt DEF m
  <2>6. m - Len(pops) = n
    BY <1>2, <2>2, <2>3, <2>5
  <2>7. SubSeq(q, 1, Len(q) - Len(pops)) = Upto(q, n)
    BY <2>6 DEF Upto, m
  <2>8. kLru' = [kLru EXCEPT ![k] = Reverse(call.objects) \o Upto(@, n)]
    BY <1>1, <2>7 DEF q
  <2> QED BY <1>4, <2>2, <2>3, <2>4, <2>8 DEF q, m, pops
<1> QED BY <1>3, <1>4

LEMMA KlruBooksReorderCall ==
  ASSUME KlruBooks, Klru!ReorderCall
  PROVE  DramCounts' /\ KlruFound' /\ KlruRoom' /\ KlruOnItsWay'
<1> DEFINE k == call.k
           pops == Klru!Popped(k, call.sum)
           O == ToSet(pops)
           I == ToSet(call.objects)
<1>1. PICK n \in 0 .. Len(kLru[k]) :
        /\ pops = Behind(kLru[k], n)
        /\ kLru' = [kLru EXCEPT ![k] = Reverse(call.objects) \o Upto(@, n)]
        /\ k = 0 => pops = <<>>
        /\ k # 0 => call.sum + kLruSizes[k] - Bytes(O) =< FC_KLRU_QUEUE_SIZE
  <2>1. KlruInv
    BY DEF KlruBooks
  <2>2. PICK n \in 0 .. Len(kLru[call.k]) :
           /\ Klru!Popped(call.k, call.sum) = Behind(kLru[call.k], n)
           /\ kLru' = [kLru EXCEPT ![call.k] = Reverse(call.objects) \o Upto(@, n)]
           /\ call.k = 0 => Klru!Popped(call.k, call.sum) = <<>>
           /\ call.k # 0 => call.sum + kLruSizes[call.k] - Bytes(ToSet(Behind(kLru[call.k], n)))
                              =< FC_KLRU_QUEUE_SIZE
    BY <2>1, KlruPops
  <2> QED BY <2>2
<1>2. /\ pc = "reorder" /\ newItem' = newItem /\ flash' = flash /\ flashSize' = flashSize
      /\ globalLru' = globalLru
      /\ kLruSizes' = [kLruSizes EXCEPT ![k] = @ - Bytes(O) + Bytes(I)]
      /\ dramSize' = dramSize - Bytes(O) + Bytes(I)
      /\ allObjects' = [x \in DOMAIN allObjects |->
                          IF x \in I THEN [allObjects[x] EXCEPT !.queueNumber = k] ELSE allObjects[x]]
      /\ \/ /\ pops # <<>> /\ pc' = "reorder" /\ call'.objects = Reverse(pops)
            /\ call'.sum = Bytes(O) /\ call'.updateWrites = TRUE
         \/ pops = <<>> /\ pc' = "ready" /\ call'.objects = <<>> /\ call'.sum = 0
  <2>1. /\ pc = "reorder" /\ newItem' = newItem /\ flash' = flash /\ flashSize' = flashSize
        /\ globalLru' = globalLru
        /\ kLruSizes' = [kLruSizes EXCEPT ![k] = @ - Klru!SizeOf(pops) + Klru!SizeOf(call.objects)]
        /\ dramSize' = dramSize - Klru!SizeOf(pops) + Klru!SizeOf(call.objects)
        /\ allObjects' = [x \in DOMAIN allObjects |->
                            IF x \in I THEN [allObjects[x] EXCEPT !.queueNumber = k] ELSE allObjects[x]]
        /\ \/ pops # <<>> /\ Klru!Reorder(Reverse(pops), Klru!SizeOf(pops), k - 1, TRUE)
           \/ pops = <<>> /\ pc' = "ready" /\ call' = Klru!NoCall
    BY KlruTerms DEF Klru!ReorderCall
  <2>2. Klru!SizeOf(pops) = Bytes(O) /\ Klru!SizeOf(call.objects) = Bytes(I)
    BY KlruSums
  <2> HIDE DEF O, I, k, pops
  <2>3. ASSUME Klru!Reorder(Reverse(pops), Klru!SizeOf(pops), k - 1, TRUE)
        PROVE  /\ pc' = "reorder" /\ call'.objects = Reverse(pops) /\ call'.sum = Bytes(O)
               /\ call'.updateWrites = TRUE
    BY <2>2, <2>3 DEF Klru!Reorder
  <2>4. Klru!NoCall.objects = <<>> /\ Klru!NoCall.sum = 0
    BY DEF Klru!NoCall
  <2> QED BY <2>1, <2>2, <2>3, <2>4
<1>3. /\ KlruInv /\ QueuesHold(FewKeys, Klru!Levels) /\ CallIsOut(FewKeys, Klru!Levels)
      /\ HaveSizes /\ DramCounts /\ QueuesCount(Klru!Levels) /\ KlruFound
      /\ k \in Klru!Levels /\ kLru[k] \in Seq(FewKeys) /\ IsInjective(kLru[k])
      /\ call.sum = Bytes(I) /\ kLruSizes \in [Klru!Levels -> Nat]
      /\ dramSize = SumFunctionOnSet(kLruSizes, Klru!Levels)
      /\ \A l \in Klru!Levels : l > 0 => kLruSizes[l] =< FC_KLRU_QUEUE_SIZE
      /\ dramSize + Bytes(I) =< DRAM_SIZE_FC_KLRU
      /\ flashSize = Bytes(ToSet(flash)) /\ flashSize =< FLASH_SIZE
      /\ \A x \in DOMAIN allObjects : allObjects[x] \in KlruItems
  BY KlruHaveSizes DEF KlruBooks, KlruInv, KlruRoom, KlruOnItsWay, DramCounts, QueuesCount,
                       QueuesHold, CallIsOut
<1>4. /\ DOMAIN allObjects' = DOMAIN allObjects
      /\ \A x \in DOMAIN allObjects : /\ allObjects'[x].size = allObjects[x].size
                                      /\ allObjects'[x].isInDram = allObjects[x].isInDram
                                      /\ x \in I => allObjects'[x].queueNumber = k
                                      /\ x \notin I => allObjects'[x] = allObjects[x]
  <2>1. ASSUME NEW x \in DOMAIN allObjects
        PROVE  /\ allObjects'[x].size = allObjects[x].size
               /\ allObjects'[x].isInDram = allObjects[x].isInDram
               /\ x \in I => allObjects'[x].queueNumber = k
               /\ x \notin I => allObjects'[x] = allObjects[x]
    <3>1. allObjects[x] \in KlruItems
      BY <1>3
    <3>2. CASE x \in I
      <4>1. allObjects'[x] = [allObjects[x] EXCEPT !.queueNumber = k]
        BY <1>2, <3>2
      <4> QED BY <3>1, <3>2, <4>1 DEF KlruItems
    <3>3. CASE x \notin I
      BY <1>2, <3>3
    <3> QED BY <3>2, <3>3
  <2> QED BY <1>2, <2>1
<1>5. /\ Behind(kLru[k], n) \in Seq(FewKeys) /\ Reverse(pops) \in Seq(FewKeys)
      /\ ToSet(Reverse(pops)) = O /\ O = ToSet(Behind(kLru[k], n))
  <2>1. pops = Behind(kLru[k], n) /\ kLru[k] \in Seq(FewKeys) /\ n \in 0 .. Len(kLru[k])
    BY <1>1, <1>3
  <2>2. Behind(kLru[k], n) \in Seq(FewKeys)
    BY <2>1, SplitAt
  <2> HIDE DEF pops
  <2>3. pops \in Seq(FewKeys)
    BY <2>1, <2>2
  <2> QED BY <2>1, <2>2, <2>3, Reversed
<1>6. k = call.k /\ I = ToSet(call.objects) /\ (pops = <<>> => O = {} /\ Bytes(O) = 0)
  <2>1. ToSet(<<>>) = {} /\ Bytes({}) = 0
    BY SumEmpty DEF ToSet, Bytes
  <2>2. k = call.k /\ I = ToSet(call.objects) /\ O = ToSet(pops)
    OBVIOUS
  <2> HIDE DEF k, pops, O, I
  <2> QED BY <2>1, <2>2
<1> HIDE DEF k, pops, O, I
<1>7. /\ QueuesCount(Klru!Levels)' /\ Bytes(O) \in Nat /\ Bytes(I) \in Nat /\ Bytes(O) =< kLruSizes[k]
      /\ kLruSizes'[k] = kLruSizes[k] - Bytes(O) + Bytes(I)
      /\ \A l \in Klru!Levels : l # k => kLruSizes'[l] = kLruSizes[l]
      /\ O \subseteq ToSet(kLru[k]) /\ I \intersect O = {}
      /\ ToSet(kLru'[k]) = I \union (ToSet(kLru[k]) \ O)
      /\ \A l \in Klru!Levels : l # k => kLru'[l] = kLru[l]
  <2>1. \A x \in DOMAIN allObjects \ O :
           x \in DOMAIN allObjects' /\ allObjects'[x].size = allObjects[x].size
    BY <1>4
  <2>2. Called(Klru!Levels, k, O, I)
    BY <1>1, <1>2, <1>3, <1>5, <1>6, <2>1, CallCounts
  <2> QED BY <2>2 DEF Called
<1>8. kLruSizes' \in [Klru!Levels -> Nat]
  BY <1>7 DEF QueuesCount
<1>9. DramCounts' /\ dramSize \in Nat /\ kLruSizes[k] \in Nat
  <2>1. /\ SumFunctionOnSet(kLruSizes', Klru!Levels) = dramSize - kLruSizes[k] + kLruSizes'[k]
        /\ dramSize \in Nat
    BY <1>3, <1>7, <1>8, DramChanges
  <2>2. kLruSizes[k] \in Nat
    BY <1>3
  <2>3. dramSize' = SumFunctionOnSet(kLruSizes', Klru!Levels)
    BY <1>2, <1>7, <2>1, <2>2
  <2> QED BY <1>7, <2>1, <2>2, <2>3 DEF DramCounts
<1>10. pops # <<>> => (Bytes(ToSet(call.objects)))' = Bytes(O)
  <2> SUFFICES ASSUME pops # <<>> PROVE (Bytes(ToSet(call.objects)))' = Bytes(O)
    OBVIOUS
  <2>1. call'.objects = Reverse(pops)
    BY <1>2
  <2>2. \A x \in O : x \in DOMAIN allObjects /\ x \in DOMAIN allObjects'
    BY <1>3, <1>4, <1>7 DEF QueuesHold
  <2>3. Ints(Weights, O) /\ \A x \in O : Weights'[x] = Weights[x]
    BY <1>3, <1>4, <2>2 DEF Ints, Weights, HaveSizes
  <2>4. IsFiniteSet(O)
    BY <1>5, DistinctLength
  <2>5. SumFunctionOnSet(Weights', O) = SumFunctionOnSet(Weights, O)
    BY <2>3, <2>4, SumSame
  <2>6. (Bytes(ToSet(call.objects)))' = SumFunctionOnSet(Weights', O)
    BY <1>5, <2>1 DEF Bytes
  <2> QED BY <2>5, <2>6 DEF Bytes
<1>11. pops = <<>> => (Bytes(ToSet(call.objects)))' = 0 /\ ToSet(call'.objects) = {}
  BY <1>2, NothingWeighs
<1>12. ToSet(call'.objects) = O
  BY <1>2, <1>5, <1>6, <1>11
<1>13. KlruFound'
  <2>1. /\ flash \in Seq(FewKeys) /\ IsInjective(flash)
        /\ globalLru \in Seq(FewKeys) /\ IsInjective(globalLru)
        /\ ToSet(globalLru) = DOMAIN allObjects
        /\ ToSet(flash) = {x \in DOMAIN allObjects : ~ allObjects[x].isInDram}
        /\ \A x \in DOMAIN allObjects \ I :
             allObjects[x].isInDram => x \in ToSet(kLru[allObjects[x].queueNumber])
    BY <1>3, <1>6 DEF KlruFound
  <2>2. ASSUME NEW x \in DOMAIN allObjects' \ O, allObjects'[x].isInDram
        PROVE  x \in ToSet(kLru'[allObjects'[x].queueNumber])
    <3>1. x \in DOMAIN allObjects /\ allObjects[x].isInDram
      BY <1>4, <2>2
    <3>2. CASE x \in I
      BY <1>4, <1>7, <3>1, <3>2
    <3>3. CASE x \notin I
      <4> DEFINE l == allObjects[x].queueNumber
      <4>1. allObjects'[x] = allObjects[x] /\ x \in ToSet(kLru[l]) /\ l \in Klru!Levels
        BY <1>3, <1>4, <2>1, <3>1, <3>3 DEF KlruItems
      <4> HIDE DEF l
      <4>2. x \in ToSet(kLru'[l])
        BY <1>7, <2>2, <4>1
      <4> QED BY <4>1, <4>2 DEF l
    <3> QED BY <3>2, <3>3
  <2>3. ToSet(flash') = {x \in DOMAIN allObjects' : ~ allObjects'[x].isInDram}
    BY <1>2, <1>4, <2>1
  <2> QED BY <1>2, <1>4, <1>12, <2>1, <2>2, <2>3 DEF KlruFound
<1>14. KlruRoom'
  <2>1. ASSUME NEW l \in Klru!Levels, l > 0 PROVE kLruSizes'[l] =< FC_KLRU_QUEUE_SIZE
    <3>1. CASE l = k
      <4>1. call.sum + kLruSizes[k] - Bytes(O) =< FC_KLRU_QUEUE_SIZE
        BY <1>1, <2>1, <3>1
      <4> QED BY <1>3, <1>7, <1>9, <3>1, <4>1, KlruSums
    <3>2. CASE l # k
      BY <1>3, <1>7, <2>1, <3>2
    <3> QED BY <3>1, <3>2
  <2>2. dramSize' + (Bytes(ToSet(call.objects)))' =< DRAM_SIZE_FC_KLRU
    <3>1. dramSize' = dramSize - Bytes(O) + Bytes(I) /\ dramSize + Bytes(I) =< DRAM_SIZE_FC_KLRU
      BY <1>2, <1>3
    <3>2. (Bytes(ToSet(call.objects)))' = Bytes(O)
      BY <1>6, <1>10, <1>11
    <3>3. dramSize' + Bytes(O) = dramSize + Bytes(I)
      BY <1>7, <1>9, <3>1
    <3> QED BY <3>1, <3>2, <3>3
  <2>3. (Bytes(ToSet(flash)))' = Bytes(ToSet(flash))
    <3>1. \A y \in ToSet(flash) : y \in DOMAIN allObjects' /\ allObjects'[y].size = allObjects[y].size
      BY <1>3, <1>4 DEF KlruFound
    <3> QED BY <1>2, <3>1, FlashCounts DEF KlruBooks
  <2> QED BY <1>2, <1>3, <2>1, <2>2, <2>3 DEF KlruRoom
<1>15. KlruOnItsWay'
  <2>1. newItem' \in Klru!Requests \union {Klru!NoItem}
    BY <1>2 DEF KlruBooks, KlruOnItsWay
  <2>2. CASE pops # <<>>
    <3>1. pc' = "reorder" /\ call'.sum = Bytes(O) /\ call'.updateWrites = TRUE
      BY <1>2, <2>2
    <3>2. ~ (call'.sum > FC_KLRU_QUEUE_SIZE)
      <4>1. k > 0
        BY <1>1, <1>3, <2>2, KlruLevels
      <4>2. Bytes(O) =< kLruSizes[k] /\ kLruSizes[k] =< FC_KLRU_QUEUE_SIZE
        BY <1>3, <1>7, <4>1
      <4> QED BY <1>7, <1>9, <3>1, <4>2, KlruSums
    <3> QED BY <1>10, <2>1, <2>2, <3>1, <3>2 DEF KlruOnItsWay
  <2>3. CASE pops = <<>>
    BY <1>2, <1>11, <2>1, <2>3 DEF KlruOnItsWay
  <2> QED BY <2>2, <2>3
<1> QED BY <1>9, <1>13, <1>14, <1>15

(* There is always room in DRAM, and in a queue for what was in one.       *)
LEMMA KlruBooksAbort ==
  ASSUME KlruBooks, Klru!Abort
  PROVE  KlruBooks'
<1> DEFINE k == call.k
           q == kLru[k]
           m == Len(q)
           Stay == Klru!Stays(k, call.sum)
<1>1. /\ pc = "reorder" /\ pc' = "aborted" /\ call' = call /\ kLru' = kLru /\ kLruSizes' = kLruSizes
      /\ allObjects' = allObjects /\ newItem' = newItem /\ flash' = flash /\ flashSize' = flashSize
      /\ globalLru' = globalLru /\ dramSize' = dramSize
      /\ ~ Klru!AssertionsHold(call)
  BY DEF Klru!Abort, Klru!tierVars, Klru!queueVars
<1>2. /\ k \in Klru!Levels /\ q \in Seq(FewKeys) /\ m \in Nat /\ k \in Nat
      /\ kLruSizes[k] = Bytes(ToSet(q)) /\ kLruSizes[k] \in Nat
      /\ call.sum = Bytes(ToSet(call.objects))
      /\ call.sum > FC_KLRU_QUEUE_SIZE => Len(call.objects) = 1
      /\ ~ call.updateWrites => k = 0 \/ call.sum + kLruSizes[k] =< FC_KLRU_QUEUE_SIZE
      /\ dramSize + call.sum =< DRAM_SIZE_FC_KLRU
  <2>1. k \in Klru!Levels /\ k \in Nat
    BY KlruLevels DEF KlruBooks, KlruInv, CallIsOut
  <2>2. q \in Seq(FewKeys) /\ m \in Nat
    BY <2>1 DEF KlruBooks, KlruInv, QueuesHold
  <2>3. kLruSizes[k] = Bytes(ToSet(q)) /\ kLruSizes[k] \in Nat
    BY <2>1 DEF KlruBooks, DramCounts, QueuesCount
  <2>4. /\ call.sum = Bytes(ToSet(call.objects))
        /\ call.sum > FC_KLRU_QUEUE_SIZE => Len(call.objects) = 1
        /\ ~ call.updateWrites => k = 0 \/ call.sum + kLruSizes[k] =< FC_KLRU_QUEUE_SIZE
    BY <1>1 DEF KlruBooks, KlruOnItsWay
  <2>5. dramSize + Bytes(ToSet(call.objects)) =< DRAM_SIZE_FC_KLRU
    BY DEF KlruBooks, KlruRoom
  <2> QED BY <2>1, <2>2, <2>3, <2>4, <2>5
<1>3. call.sum \in Nat /\ dramSize \in Nat
  <2>1. /\ IsFiniteSet(ToSet(call.objects))
        /\ \A x \in ToSet(call.objects) : x \in DOMAIN allObjects
    BY DistinctLength DEF KlruBooks, KlruInv, CallIsOut
  <2>2. \A x \in ToSet(call.objects) : Weights[x] \in Nat
    BY <2>1, KlruHaveSizes DEF KlruBooks, HaveSizes, Weights
  <2>3. dramSize \in Nat
    BY KlruLevels, SumNat DEF KlruBooks, DramCounts, QueuesCount
  <2> QED BY <1>2, <2>1, <2>2, <2>3, SumNat DEF Bytes
<1>4. Stay \in SUBSET (0 .. m)
  BY DEF Klru!Stays
<1>5. 0 \in Stay <=> call.sum + kLruSizes[k] - kLruSizes[k] =< FC_KLRU_QUEUE_SIZE
  <2>1. SubSeq(q, 0 + 1, m) = q /\ 0 \in 0 .. m
    BY <1>2, UncutQueue
  <2>2. Klru!SizeOf(q) = kLruSizes[k]
    BY <1>2, KlruSums
  <2> QED BY <2>1, <2>2 DEF Klru!Stays
<1>6. SubSeq(q, m + 1, m) = <<>>
  <2>1. m \in Int /\ m + 1 \in Int /\ m < m + 1
    BY <1>2
  <2> HIDE DEF m, q
  <2> QED BY <1>2, <2>1, SubSeqEmpty
<1>7. m \in Stay <=> call.sum + kLruSizes[k] - 0 =< FC_KLRU_QUEUE_SIZE
  <2>1. ToSet(<<>>) = {}
    BY DEF ToSet
  <2>2. Klru!SizeOf(SubSeq(q, m + 1, m)) = 0
    BY <1>6, <2>1, KlruSums, SumEmpty DEF Bytes
  <2>3. m \in 0 .. m
    BY <1>2
  <2> QED BY <2>2, <2>3 DEF Klru!Stays
<1>8. k # 0 => Stay = {} \/ (~ call.updateWrites /\ SubSeq(q, Max(Stay) + 1, m) # <<>>)
  BY <1>1, KlruTerms DEF Klru!AssertionsHold, Klru!Popped
<1>9. k # 0
  <2> SUFFICES ASSUME k = 0 PROVE FALSE
    OBVIOUS
  <2>1. call.sum + dramSize =< DRAM_SIZE_FC_KLRU
    BY <1>2, <1>3, KlruSums
  <2>2. Klru!Popped(call.k, call.sum) = <<>>
    BY DEF Klru!Popped
  <2> QED BY <1>1, <2>1, <2>2 DEF Klru!AssertionsHold
<1> HIDE DEF Stay, m, q, k
<1>10. Stay = {}
  <2> SUFFICES ASSUME Stay # {} PROVE FALSE
    OBVIOUS
  <2>1. SubSeq(q, Max(Stay) + 1, m) # <<>> /\ call.sum + kLruSizes[k] =< FC_KLRU_QUEUE_SIZE
    BY <1>2, <1>8, <1>9
  <2>2. m \in Stay
    BY <1>2, <1>3, <1>7, <2>1, KlruSums
  <2>3. Max(Stay) \in Stay /\ m =< Max(Stay)
    BY <1>2, <1>4, <2>2, GreatestElement
  <2>4. Max(Stay) \in 0 .. m
    BY <1>4, <2>3
  <2>5. Max(Stay) = m
    BY <1>2, <2>3, <2>4
  <2> QED BY <1>6, <2>1, <2>5
<1>11. call.sum > FC_KLRU_QUEUE_SIZE
  BY <1>2, <1>3, <1>5, <1>10, KlruSums
<1>12. KlruInv'
  BY KlruStep DEF KlruBooks, Klru!Next, Klru!Proceed
<1>13. /\ (\A l \in Klru!Levels : (Bytes(ToSet(kLru[l])))' = Bytes(ToSet(kLru[l])))
       /\ (Bytes(ToSet(flash)))' = Bytes(ToSet(flash))
       /\ (Bytes(ToSet(call.objects)))' = Bytes(ToSet(call.objects))
  BY <1>1 DEF Bytes, Weights
<1>14. DramCounts'
  BY <1>1, <1>13 DEF KlruBooks, DramCounts, QueuesCount
<1>15. KlruFound'
  BY <1>1 DEF KlruBooks, KlruFound
<1>16. KlruRoom' /\ KlruOnItsWay'
  BY <1>1, <1>13 DEF KlruBooks, KlruRoom, KlruOnItsWay
<1>17. Klru!AbortsOnlyOversize'
  BY <1>1, <1>2, <1>11 DEF Klru!AbortsOnlyOversize
<1> QED BY <1>12, <1>14, <1>15, <1>16, <1>17 DEF KlruBooks

LEMMA KlruBooksStep ==
  ASSUME KlruBooks, Klru!Next \/ UNCHANGED Klru!vars
  PROVE  KlruBooks'
<1>1. KlruInv'
  BY KlruStep DEF KlruBooks
<1>2. CASE \E r \in Klru!Requests : Klru!Proc(r)
  <2>1. PICK r \in Klru!Requests : pc = "ready" /\ (Klru!Hit(r) \/ Klru!Miss(r))
    BY <1>2 DEF Klru!Proc
  <2>2. DramCounts' /\ KlruFound' /\ KlruRoom' /\ KlruOnItsWay'
    BY <2>1, KlruBooksHit, KlruBooksMiss
  <2>3. pc' # "aborted"
    BY <2>1 DEF Klru!Hit, Klru!Miss, Klru!Reorder
  <2> QED BY <1>1, <2>2, <2>3 DEF KlruBooks, Klru!AbortsOnlyOversize
<1>3. CASE Klru!Insert
  <2>1. pc' # "aborted"
    BY <1>3 DEF Klru!Insert
  <2> QED BY <1>1, <1>3, <2>1, KlruBooksInsert DEF KlruBooks, Klru!AbortsOnlyOversize
<1>4. CASE Klru!MoveToFlash
  <2>1. pc' # "aborted"
    BY <1>4 DEF Klru!MoveToFlash, Klru!MakesRoom
  <2> QED BY <1>1, <1>4, <2>1, KlruBooksMoveToFlash DEF KlruBooks, Klru!AbortsOnlyOversize
<1>5. CASE Klru!EvictGlobalLru
  <2>1. pc' # "aborted"
    BY <1>5 DEF Klru!EvictGlobalLru, Klru!MakesRoom
  <2> QED BY <1>1, <1>5, <2>1, KlruBooksEvict DEF KlruBooks, Klru!AbortsOnlyOversize
<1>6. CASE Klru!ReorderCall
  <2>1. pc' # "aborted"
    BY <1>6 DEF Klru!ReorderCall, Klru!Reorder
  <2> QED BY <1>1, <1>6, <2>1, KlruBooksReorderCall DEF KlruBooks, Klru!AbortsOnlyOversize
<1>7. CASE Klru!Abort
  BY <1>7, KlruBooksAbort
<1>8. CASE UNCHANGED Klru!vars
  <2>1. /\ pc' = pc /\ call' = call /\ kLru' = kLru /\ kLruSizes' = kLruSizes
        /\ allObjects' = allObjects /\ newItem' = newItem /\ flash' = flash /\ flashSize' = flashSize
        /\ globalLru' = globalLru /\ dramSize' = dramSize
    BY <1>8 DEF Klru!vars, Klru!tierVars, Klru!queueVars
  <2>2. /\ (\A l \in Klru!Levels : (Bytes(ToSet(kLru[l])))' = Bytes(ToSet(kLru[l])))
        /\ (Bytes(ToSet(flash)))' = Bytes(ToSet(flash))
        /\ (Bytes(ToSet(call.objects)))' = Bytes(ToSet(call.objects))
    BY <2>1 DEF Bytes, Weights
  <2>3. DramCounts'
    BY <2>1, <2>2 DEF KlruBooks, DramCounts, QueuesCount
  <2>4. KlruFound'
    BY <2>1 DEF KlruBooks, KlruFound
  <2>5. KlruRoom' /\ KlruOnItsWay' /\ Klru!AbortsOnlyOversize'
    BY <2>1, <2>2 DEF KlruBooks, KlruRoom, KlruOnItsWay, Klru!AbortsOnlyOversize
  <2> QED BY <1>1, <2>3, <2>4, <2>5 DEF KlruBooks
<1> QED BY <1>2, <1>3, <1>4, <1>5, <1>6, <1>7, <1>8 DEF Klru!Next, Klru!Proceed

LEMMA KlruIsConsistent ==
  ASSUME KlruBooks
  PROVE  Klru!Consistent /\ Klru!TypeOK
<1>1. /\ KlruInv /\ QueuesHold(FewKeys, Klru!Levels) /\ CallIsOut(FewKeys, Klru!Levels) /\ HitsEarn
      /\ QueuesAreDram /\ QueuesCount(Klru!Levels) /\ KlruFound /\ KlruRoom /\ KlruOnItsWay /\ DramCounts
      /\ kLruSizes \in [Klru!Levels -> Nat]
  BY DEF KlruBooks, KlruInv, DramCounts, QueuesCount
<1>2. ASSUME NEW q \in Seq(FewKeys), IsInjective(q), NEW G, ToSet(q) = G PROVE Klru!IsListOf(q, G)
  <2>1. Len(q) = Cardinality(ToSet(q))
    BY <1>2, DistinctLength
  <2> QED BY <1>2, <2>1, KlruTerms, KlruSums DEF Klru!IsListOf
<1>3. ASSUME NEW l \in Klru!Levels
      PROVE  /\ Klru!IsListOf(kLru[l], Klru!QueueOf(l)) /\ kLruSizes[l] = Klru!SizeOf(kLru[l])
             /\ l > 0 => kLruSizes[l] =< FC_KLRU_QUEUE_SIZE
  <2>1. kLru[l] \in Seq(FewKeys) /\ IsInjective(kLru[l])
    BY <1>1 DEF QueuesHold
  <2>2. ToSet(kLru[l]) = Klru!QueueOf(l)
    <3>1. \A x \in ToSet(kLru[l]) : /\ x \in DOMAIN allObjects /\ allObjects[x].queueNumber = l
                                    /\ allObjects[x].isInDram /\ x \notin ToSet(call.objects)
      BY <1>1 DEF QueuesHold, CallIsOut, QueuesAreDram
    <3>2. \A x \in DOMAIN allObjects \ ToSet(call.objects) :
            allObjects[x].isInDram => x \in ToSet(kLru[allObjects[x].queueNumber])
      BY <1>1 DEF KlruFound
    <3> QED BY <3>1, <3>2, KlruTerms DEF Klru!QueueOf
  <2>3. kLruSizes[l] = Klru!SizeOf(kLru[l]) /\ (l > 0 => kLruSizes[l] =< FC_KLRU_QUEUE_SIZE)
    BY <1>1, KlruSums DEF QueuesCount, KlruRoom
  <2> QED BY <1>2, <2>1, <2>2, <2>3
<1>4. /\ Klru!IsListOf(flash, {x \in DOMAIN allObjects : ~ allObjects[x].isInDram})
      /\ Klru!IsListOf(globalLru, DOMAIN allObjects)
  BY <1>1, <1>2 DEF KlruFound
<1>5. /\ dramSize = Klru!SumFunctionOnSet(kLruSizes, Klru!Levels)
      /\ dramSize + Klru!SizeOf(call.objects) =< DRAM_SIZE_FC_KLRU
      /\ flashSize = Klru!SizeOf(flash) /\ flashSize =< FLASH_SIZE
  BY <1>1, KlruSums DEF KlruRoom, DramCounts
<1>6. Klru!Consistent
  BY <1>3, <1>4, <1>5 DEF Klru!Consistent
<1>7. Klru!TypeOK
  <2>1. /\ pc \in {"ready", "insert", "reorder", "aborted"} /\ DOMAIN hits = DOMAIN allObjects
        /\ newItem \in Klru!Requests \union {Klru!NoItem}
    BY <1>1 DEF KlruOnItsWay, HitsEarn
  <2>2. \A x \in DOMAIN allObjects :
          allObjects[x] \in [size : UpTo(DRAM_SIZE_FC_KLRU), isInDram : BOOLEAN, queueNumber : Klru!Levels]
    BY <1>1 DEF KlruInv, KlruItems, KlruSizes
  <2>3. kLru \in [Klru!Levels -> Seq(FewKeys)] /\ kLruSizes \in [Klru!Levels -> Nat]
    BY <1>1 DEF QueuesHold
  <2>4. /\ call.objects \in Seq(FewKeys) /\ call.k \in Klru!Levels
        /\ flash \in Seq(FewKeys) /\ globalLru \in Seq(FewKeys)
    BY <1>1 DEF CallIsOut, KlruFound
  <2>5. DOMAIN allObjects \subseteq FewKeys
    BY <1>1, <2>4 DEF KlruFound, ToSet
  <2>6. dramSize \in Nat /\ flashSize \in Nat
    <3>1. dramSize \in Nat
      BY <1>1, KlruLevels, SumNat DEF DramCounts
    <3>2. IsFiniteSet(ToSet(flash)) /\ \A x \in ToSet(flash) : Weights[x] \in Nat
      BY <1>1, KlruHaveSizes, DistinctLength DEF KlruFound, HaveSizes, Weights
    <3> QED BY <1>1, <3>1, <3>2, SumNat DEF KlruRoom, Bytes
  <2> QED BY <2>1, <2>2, <2>3, <2>4, <2>5, <2>6 DEF Klru!TypeOK
<1> QED BY <1>6, <1>7
===============================================================================
