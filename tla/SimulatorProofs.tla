---------------------------- MODULE SimulatorProofs ----------------------------
(***************************************************************************)
(* Promises of five policies of lsm-sim.cpp, for every trace and every     *)
(* size of their queues: the two tiers of victimcache are one LRU list cut *)
(* in two, in the K queues of lruk and of flashcachelruk an object is only *)
(* as high up as it was hit, clock gives a used object a second chance,    *)
(* and flashcache evicts the oldest object.  None depends on the bytes     *)
(* that the queues count: whatever the loops evict to make room, they take *)
(* it from one end of a queue and put it at one end of another.            *)
(*                                                                         *)
(* Then the books that victimcache and flashcache keep by hand, in lists,  *)
(* hash tables and byte counts.  SimulatorQueues has those of lruk and     *)
(* flashcachelruk, SimulatorBooks the others and what the books are for.   *)
(***************************************************************************)
EXTENDS Simulator, QueueTheorems

-------------------------------------------------------------------------------
(* victimcache.                                                            *)

(* The operators of the instance are those of the library modules. *)
LEMMA VictimTerms ==
  /\ \A q, G : Victim!Erase(q, G) = Erase(q, G) /\ Victim!Keep(q, G) = Keep(q, G)
  /\ \A q : /\ Victim!ToSet(q) = ToSet(q) /\ Victim!Front(q) = Front(q)
            /\ Victim!Last(q) = Last(q)
  /\ \A M : Victim!Max(M) = Max(M)
<1>1. \A q, G : Victim!Erase(q, G) = Erase(q, G)
  BY DEF Victim!Erase, Erase
<1>2. \A q : Victim!ToSet(q) = ToSet(q)
  BY DEF Victim!ToSet, ToSet
<1>3. \A q, G : Victim!Keep(q, G) = Keep(q, G)
  BY <1>1, <1>2 DEF Victim!Keep, Keep
<1>4. \A q : Victim!Front(q) = Front(q) /\ Victim!Last(q) = Last(q)
  BY DEF Victim!Front, Front, Victim!Last, Last
<1>5. \A M : Victim!Max(M) = Max(M)
  BY DEF Victim!Max, Max
<1> QED BY <1>1, <1>2, <1>3, <1>4, <1>5

Items == [size : UpTo(DRAM_SIZE), isInDram : BOOLEAN]

(* The hash table knows each object of the tiers, and in which it is. *)
TableKnows ==
  /\ \A k \in DOMAIN allObjects : allObjects[k] \in Items
  /\ \A k \in ToSet(dram) : k \in DOMAIN allObjects /\ allObjects[k].isInDram
  /\ \A k \in ToSet(flash) : k \in DOMAIN allObjects /\ ~ allObjects[k].isInDram

(* Both tiers are in the order of the last use, DRAM before flash. *)
InOrderOfUse ==
  /\ ToSet(dram) \union ToSet(flash) \subseteq ToSet(recency)
  /\ \A x, y : Before(dram, x, y) => Before(recency, x, y)
  /\ \A x, y : Before(flash, x, y) => Before(recency, x, y)
  /\ \A x, y : x \in ToSet(dram) /\ y \in ToSet(flash) => Before(recency, x, y)

(* The requested object is in neither tier when it is put into DRAM. *)
ItemIsOut ==
  pc = "insert" => /\ item.kid \in Keys /\ item.size \in UpTo(DRAM_SIZE)
                   /\ item.kid \notin ToSet(dram) \union ToSet(flash)

VictimInv ==
  /\ dram \in Seq(Keys) /\ flash \in Seq(Keys) /\ recency \in Seq(Keys)
  /\ IsInjective(dram) /\ IsInjective(flash) /\ IsInjective(recency)
  /\ TableKnows /\ InOrderOfUse /\ ItemIsOut

LEMMA VictimInit ==
  ASSUME Victim!Init
  PROVE  VictimInv
<1>1. /\ dram = <<>> /\ flash = <<>> /\ recency = <<>> /\ pc = "ready"
      /\ DOMAIN allObjects = {}
  BY DEF Victim!Init
<1>2. <<>> \in Seq(Keys) /\ DOMAIN <<>> = {}
  OBVIOUS
<1>3. ToSet(<<>>) = {} /\ IsInjective(<<>>) /\ \A x, y : ~ Before(<<>>, x, y)
  BY <1>2 DEF ToSet, IsInjective, Before
<1> QED BY <1>1, <1>2, <1>3 DEF VictimInv, TableKnows, InOrderOfUse, ItemIsOut

(* The tier the object is in loses it, and no object moves. *)
LEMMA VictimTakesOut ==
  ASSUME VictimInv, NEW r \in Victim!Requests, Victim!Proc(r)
  PROVE  /\ dram' = Erase(dram, {r.kid}) \/ (dram' = dram /\ r.kid \notin ToSet(dram))
         /\ flash' = Erase(flash, {r.kid}) \/ (flash' = flash /\ r.kid \notin ToSet(flash))
         /\ pc' = "insert" /\ item'.kid = r.kid /\ item'.size = r.size /\ recency' = recency
         /\ \A k \in DOMAIN allObjects \ {r.kid} :
              k \in DOMAIN allObjects' /\ allObjects'[k] = allObjects[k]
         /\ \A k \in DOMAIN allObjects' : k \in DOMAIN allObjects /\ allObjects'[k] = allObjects[k]
<1>1. /\ pc' = "insert" /\ item'.kid = r.kid /\ item'.size = r.size /\ recency' = recency
  BY DEF Victim!Proc
<1>2. allObjects' = allObjects \/ allObjects' = [x \in DOMAIN allObjects \ {r.kid} |-> allObjects[x]]
  BY DEF Victim!Proc, Victim!Unbind
<1>3. CASE r.kid \notin DOMAIN allObjects
  <2>1. dram' = dram /\ flash' = flash
    BY <1>3 DEF Victim!Proc
  <2>2. r.kid \notin ToSet(dram) /\ r.kid \notin ToSet(flash)
    BY <1>3 DEF VictimInv, TableKnows
  <2> QED BY <1>1, <1>2, <2>1, <2>2
<1>4. CASE r.kid \in DOMAIN allObjects
  <2>1. Victim!TakeOut(r.kid)
    BY <1>4 DEF Victim!Proc
  <2>2. CASE allObjects[r.kid].isInDram
    <3>1. dram' = Erase(dram, {r.kid}) /\ flash' = flash
      BY <2>1, <2>2, VictimTerms DEF Victim!TakeOut, Victim!Drop
    <3>2. r.kid \notin ToSet(flash)
      BY <2>2 DEF VictimInv, TableKnows
    <3> QED BY <1>1, <1>2, <3>1, <3>2
  <2>3. CASE ~ allObjects[r.kid].isInDram
    <3>1. flash' = Erase(flash, {r.kid}) /\ dram' = dram
      BY <2>1, <2>3, VictimTerms DEF Victim!TakeOut, Victim!Drop
    <3>2. r.kid \notin ToSet(dram)
      BY <2>3 DEF VictimInv, TableKnows
    <3> QED BY <1>1, <1>2, <3>1, <3>2
  <2> QED BY <2>2, <2>3
<1> QED BY <1>3, <1>4

(* A queue without one element: what is left, and in which order. *)
LEMMA WithoutOne ==
  ASSUME NEW X, NEW q \in Seq(X), IsInjective(q), NEW k,
         NEW p, p = Erase(q, {k}) \/ (p = q /\ k \notin ToSet(q))
  PROVE  /\ p \in Seq(X) /\ IsInjective(p) /\ ToSet(p) = ToSet(q) \ {k}
         /\ \A x, y : Before(p, x, y) => Before(q, x, y)
<1>1. CASE p = q /\ k \notin ToSet(q)
  BY <1>1
<1>2. CASE p = Erase(q, {k})
  <2>1. p \in Seq(X) /\ IsInjective(p) /\ ToSet(p) = ToSet(q) \ {k}
    BY <1>2, EraseSet, EraseDistinct
  <2>2. ASSUME NEW x, NEW y, Before(p, x, y) PROVE Before(q, x, y)
    <3>1. x \notin {k} /\ y \notin {k}
      BY <2>1, <2>2, BeforeIsOrder
    <3> QED BY <1>2, <2>2, <3>1, EraseOrder
  <2> QED BY <2>1, <2>2
<1> QED BY <1>1, <1>2

LEMMA VictimProc ==
  ASSUME VictimInv, NEW r \in Victim!Requests, Victim!Proc(r)
  PROVE  VictimInv'
<1>1. /\ dram' = Erase(dram, {r.kid}) \/ (dram' = dram /\ r.kid \notin ToSet(dram))
      /\ flash' = Erase(flash, {r.kid}) \/ (flash' = flash /\ r.kid \notin ToSet(flash))
      /\ pc' = "insert" /\ item'.kid = r.kid /\ item'.size = r.size /\ recency' = recency
  BY VictimTakesOut
<1>2. /\ \A k \in DOMAIN allObjects \ {r.kid} :
              k \in DOMAIN allObjects' /\ allObjects'[k] = allObjects[k]
      /\ \A k \in DOMAIN allObjects' : k \in DOMAIN allObjects /\ allObjects'[k] = allObjects[k]
  BY VictimTakesOut
<1>3. r.kid \in Keys /\ r.size \in UpTo(DRAM_SIZE)
  BY DEF Victim!Requests
<1>4. /\ dram' \in Seq(Keys) /\ IsInjective(dram') /\ ToSet(dram') = ToSet(dram) \ {r.kid}
      /\ \A x, y : Before(dram', x, y) => Before(dram, x, y)
  BY <1>1, WithoutOne DEF VictimInv
<1>5. /\ flash' \in Seq(Keys) /\ IsInjective(flash') /\ ToSet(flash') = ToSet(flash) \ {r.kid}
      /\ \A x, y : Before(flash', x, y) => Before(flash, x, y)
  BY <1>1, WithoutOne DEF VictimInv
<1>6. TableKnows'
  BY <1>2, <1>4, <1>5 DEF VictimInv, TableKnows
<1>7. InOrderOfUse'
  BY <1>1, <1>4, <1>5 DEF VictimInv, InOrderOfUse
<1>8. ItemIsOut'
  BY <1>1, <1>3, <1>4, <1>5 DEF ItemIsOut
<1> QED BY <1>1, <1>4, <1>5, <1>6, <1>7, <1>8 DEF VictimInv

(* The oldest object of DRAM becomes the newest of flash, in front of      *)
(* those that may stay.                                                    *)
LEMMA VictimDemote ==
  ASSUME VictimInv, Victim!Demote
  PROVE  VictimInv'
<1> DEFINE victim == Last(dram)
           size   == allObjects[victim].size
           n      == Max(Victim!FlashStays(size))
           stay   == Upto(flash, n)
           gone   == Behind(flash, n)
<1>1. /\ dram # <<>> /\ Victim!FlashStays(size) # {} /\ pc = "insert"
      /\ pc' = pc /\ item' = item /\ recency' = recency /\ dram' = Front(dram)
      /\ flash' = <<victim>> \o stay
      /\ allObjects' = [x \in DOMAIN allObjects \ ToSet(gone) |->
                          [allObjects EXCEPT ![victim].isInDram = FALSE][x]]
  BY VictimTerms DEF Victim!Demote, Victim!AtFront, Victim!Unbind, Upto, Behind
<1>2. n \in 0 .. Len(flash)
  <2>1. Victim!FlashStays(size) \in SUBSET (0 .. Len(flash)) /\ Len(flash) \in Nat
    BY DEF Victim!FlashStays, VictimInv
  <2> QED BY <1>1, <2>1, GreatestElement
<1> HIDE DEF n, size
<1>3. /\ stay \in Seq(Keys) /\ IsInjective(stay)
      /\ ToSet(stay) \union ToSet(gone) = ToSet(flash) /\ ToSet(stay) \intersect ToSet(gone) = {}
      /\ \A x, y : Before(stay, x, y) => Before(flash, x, y)
  BY <1>2, SplitAt DEF VictimInv
<1> HIDE DEF stay, gone
<1>4. /\ Front(dram) \in Seq(Keys) /\ victim \in Keys /\ IsInjective(Front(dram))
      /\ ToSet(dram) = ToSet(Front(dram)) \union {victim} /\ victim \notin ToSet(Front(dram))
      /\ \A x, y : Before(Front(dram), x, y) => Before(dram, x, y)
      /\ \A x \in ToSet(Front(dram)) : Before(dram, x, victim)
  BY <1>1, FrontAndLast DEF VictimInv
<1> HIDE DEF victim
<1>5. victim \in ToSet(dram) /\ victim \in DOMAIN allObjects /\ victim \notin ToSet(flash)
  BY <1>4 DEF VictimInv, TableKnows
<1> DEFINE p == <<victim>> \o stay
<1>6. /\ p \in Seq(Keys) /\ ToSet(p) = {victim} \union ToSet(stay) /\ IsInjective(p)
      /\ \A x, y : Before(p, x, y) <=> (x = victim /\ y \in ToSet(stay)) \/ Before(stay, x, y)
  BY <1>3, <1>4, <1>5, PushFront
<1> HIDE DEF p
<1>7. flash' = p
  BY <1>1 DEF p
<1>8. TableKnows'
  <2>1. DOMAIN allObjects' = DOMAIN allObjects \ ToSet(gone)
    BY <1>1
  <2>2. \A x \in DOMAIN allObjects' : x # victim => allObjects'[x] = allObjects[x]
    BY <1>1
  <2>3. allObjects'[victim] = [allObjects[victim] EXCEPT !.isInDram = FALSE]
    BY <1>1, <1>3, <1>5
  <2>4. allObjects[victim] \in Items
    BY <1>5 DEF VictimInv, TableKnows
  <2>5. allObjects'[victim] \in Items /\ ~ allObjects'[victim].isInDram
    BY <2>3, <2>4 DEF Items
  <2>6. \A x \in DOMAIN allObjects' : allObjects'[x] \in Items
    BY <2>1, <2>2, <2>5 DEF VictimInv, TableKnows
  <2>7. \A x \in ToSet(dram') : x \in DOMAIN allObjects' /\ allObjects'[x].isInDram
    <3> SUFFICES ASSUME NEW x \in ToSet(dram') PROVE x \in DOMAIN allObjects' /\ allObjects'[x].isInDram
      OBVIOUS
    <3>1. x \in ToSet(dram) /\ x # victim
      BY <1>1, <1>4
    <3>2. x \in DOMAIN allObjects /\ allObjects[x].isInDram /\ x \notin ToSet(flash)
      BY <3>1 DEF VictimInv, TableKnows
    <3> QED BY <1>3, <2>1, <2>2, <3>1, <3>2
  <2>8. \A x \in ToSet(flash') : x \in DOMAIN allObjects' /\ ~ allObjects'[x].isInDram
    <3> SUFFICES ASSUME NEW x \in ToSet(flash') PROVE x \in DOMAIN allObjects' /\ ~ allObjects'[x].isInDram
      OBVIOUS
    <3>1. CASE x = victim
      BY <1>3, <1>5, <2>1, <2>5, <3>1
    <3>2. CASE x # victim
      <4>1. x \in ToSet(stay) /\ x \in ToSet(flash)
        BY <1>3, <1>6, <1>7, <3>2
      <4>2. x \in DOMAIN allObjects /\ ~ allObjects[x].isInDram
        BY <4>1 DEF VictimInv, TableKnows
      <4> QED BY <1>3, <2>1, <2>2, <3>2, <4>1, <4>2
    <3> QED BY <3>1, <3>2
  <2> QED BY <2>6, <2>7, <2>8 DEF TableKnows
<1>9. InOrderOfUse'
  <2>1. ToSet(dram') \subseteq ToSet(dram) /\ \A x, y : Before(dram', x, y) => Before(dram, x, y)
    BY <1>1, <1>4
  <2>2. \A x \in ToSet(flash') : x = victim \/ x \in ToSet(flash)
    BY <1>3, <1>6, <1>7
  <2>3. /\ ToSet(dram) \union ToSet(flash) \subseteq ToSet(recency) /\ recency' = recency
        /\ \A x, y : Before(dram, x, y) => Before(recency, x, y)
        /\ \A x, y : Before(flash, x, y) => Before(recency, x, y)
        /\ \A x, y : x \in ToSet(dram) /\ y \in ToSet(flash) => Before(recency, x, y)
    BY <1>1 DEF VictimInv, InOrderOfUse
  <2>4. ASSUME NEW x, NEW y, Before(flash', x, y) PROVE Before(recency, x, y)
    <3>1. (x = victim /\ y \in ToSet(flash)) \/ Before(flash, x, y)
      BY <1>3, <1>6, <1>7, <2>4
    <3> QED BY <1>5, <2>3, <3>1
  <2>5. ASSUME NEW x, NEW y, x \in ToSet(dram'), y \in ToSet(flash') PROVE Before(recency, x, y)
    <3>1. x \in ToSet(dram) /\ x \in ToSet(Front(dram))
      BY <1>1, <2>1, <2>5
    <3>2. CASE y = victim
      BY <1>4, <2>3, <3>1, <3>2
    <3>3. CASE y \in ToSet(flash)
      BY <2>3, <3>1, <3>3
    <3> QED BY <2>2, <2>5, <3>2, <3>3
  <2>6. ToSet(dram') \union ToSet(flash') \subseteq ToSet(recency')
    BY <1>5, <2>1, <2>2, <2>3
  <2> QED BY <2>1, <2>3, <2>4, <2>5, <2>6 DEF InOrderOfUse
<1>10. ItemIsOut'
  <2>1. item'.kid = item.kid /\ item'.size = item.size
    BY <1>1
  <2>2. item.kid \in Keys /\ item.size \in UpTo(DRAM_SIZE) /\ item.kid \notin ToSet(dram) \union ToSet(flash)
    BY <1>1 DEF VictimInv, ItemIsOut
  <2>3. ToSet(dram') \union ToSet(flash') \subseteq ToSet(dram) \union ToSet(flash)
    BY <1>1, <1>3, <1>4, <1>6, <1>7
  <2> QED BY <2>1, <2>2, <2>3 DEF ItemIsOut
<1> QED BY <1>1, <1>4, <1>6, <1>7, <1>8, <1>9, <1>10 DEF VictimInv

(* The requested object becomes the newest of DRAM, and of all. *)
LEMMA VictimInsert ==
  ASSUME VictimInv, Victim!Insert
  PROVE  VictimInv'
<1> DEFINE k == item.kid
           p == <<k>> \o dram
           q == ToFront(recency, k)
<1>1. /\ pc = "insert" /\ pc' = "ready" /\ flash' = flash
      /\ dram' = p /\ recency' = q
      /\ allObjects' = [x \in DOMAIN allObjects \union {k} |->
                          IF x = k THEN [size |-> item.size, isInDram |-> TRUE] ELSE allObjects[x]]
  BY VictimTerms DEF Victim!Insert, Victim!Drop, Victim!Bind, ToFront
<1>2. k \in Keys /\ k \notin ToSet(dram) /\ k \notin ToSet(flash) /\ item.size \in UpTo(DRAM_SIZE)
  BY <1>1 DEF VictimInv, ItemIsOut
<1> HIDE DEF k
<1>3. /\ p \in Seq(Keys) /\ ToSet(p) = {k} \union ToSet(dram) /\ IsInjective(p)
      /\ \A x, y : Before(p, x, y) <=> (x = k /\ y \in ToSet(dram)) \/ Before(dram, x, y)
  BY <1>2, PushFront DEF VictimInv
<1>4. /\ q \in Seq(Keys) /\ ToSet(q) = {k} \union ToSet(recency) /\ IsInjective(q)
      /\ \A x, y : x # k /\ y # k => (Before(q, x, y) <=> Before(recency, x, y))
      /\ \A y \in ToSet(recency) \ {k} : Before(q, k, y)
  BY <1>2, MoveToFront DEF VictimInv
<1> HIDE DEF p, q
<1>5. TableKnows'
  <2>1. DOMAIN allObjects' = DOMAIN allObjects \union {k}
    BY <1>1
  <2>2. \A x \in DOMAIN allObjects : x # k => allObjects'[x] = allObjects[x]
    BY <1>1
  <2>3. allObjects'[k] = [size |-> item.size, isInDram |-> TRUE]
    BY <1>1
  <2>4. allObjects'[k] \in Items /\ allObjects'[k].isInDram
    BY <1>2, <2>3 DEF Items
  <2>5. \A x \in DOMAIN allObjects' : allObjects'[x] \in Items
    BY <2>1, <2>2, <2>4 DEF VictimInv, TableKnows
  <2>6. \A x \in ToSet(dram') : x \in DOMAIN allObjects' /\ allObjects'[x].isInDram
    BY <1>1, <1>3, <2>1, <2>2, <2>4 DEF VictimInv, TableKnows
  <2>7. \A x \in ToSet(flash') : x \in DOMAIN allObjects' /\ ~ allObjects'[x].isInDram
    BY <1>1, <1>2, <2>1, <2>2 DEF VictimInv, TableKnows
  <2> QED BY <2>5, <2>6, <2>7 DEF TableKnows
<1>6. InOrderOfUse'
  <2>1. /\ ToSet(dram) \union ToSet(flash) \subseteq ToSet(recency)
        /\ \A x, y : Before(dram, x, y) => Before(recency, x, y)
        /\ \A x, y : Before(flash, x, y) => Before(recency, x, y)
        /\ \A x, y : x \in ToSet(dram) /\ y \in ToSet(flash) => Before(recency, x, y)
    BY DEF VictimInv, InOrderOfUse
  <2>2. \A x, y : Before(dram, x, y) => x # k /\ y # k
    BY <1>2, BeforeIsOrder DEF VictimInv
  <2>3. \A x, y : Before(flash, x, y) => x # k /\ y # k
    BY <1>2, BeforeIsOrder DEF VictimInv
  <2>4. ASSUME NEW x, NEW y, Before(p, x, y) PROVE Before(q, x, y)
    <3>1. CASE x = k /\ y \in ToSet(dram)
      BY <1>2, <1>4, <2>1, <3>1
    <3>2. CASE Before(dram, x, y)
      BY <1>4, <2>1, <2>2, <3>2
    <3> QED BY <1>3, <2>4, <3>1, <3>2
  <2>5. ASSUME NEW x, NEW y, Before(flash, x, y) PROVE Before(q, x, y)
    BY <1>4, <2>1, <2>3, <2>5
  <2>6. ASSUME NEW x, NEW y, x \in ToSet(p), y \in ToSet(flash) PROVE Before(q, x, y)
    <3>1. y # k /\ y \in ToSet(recency)
      BY <1>2, <2>1, <2>6
    <3>2. CASE x = k
      BY <1>4, <3>1, <3>2
    <3>3. CASE x # k
      BY <1>3, <1>4, <2>1, <2>6, <3>1, <3>3
    <3> QED BY <3>2, <3>3
  <2>7. ToSet(p) \union ToSet(flash) \subseteq ToSet(q)
    BY <1>3, <1>4, <2>1
  <2> QED BY <1>1, <2>4, <2>5, <2>6, <2>7 DEF InOrderOfUse
<1>7. ItemIsOut'
  BY <1>1 DEF ItemIsOut
<1> QED BY <1>1, <1>3, <1>4, <1>5, <1>6, <1>7 DEF VictimInv

(* What is in this order is what recency has of it. *)
LEMMA OneList ==
  ASSUME VictimInv
  PROVE  Victim!TiersAreOneLru
<1> DEFINE both == dram \o flash
           G == ToSet(both)
           kept == Keep(recency, G)
<1>1. /\ dram \in Seq(Keys) /\ flash \in Seq(Keys) /\ recency \in Seq(Keys)
      /\ IsInjective(dram) /\ IsInjective(flash) /\ IsInjective(recency)
      /\ ToSet(dram) \intersect ToSet(flash) = {}
      /\ ToSet(dram) \union ToSet(flash) \subseteq ToSet(recency)
  BY DEF VictimInv, TableKnows, InOrderOfUse
<1>2. /\ both \in Seq(Keys) /\ IsInjective(both) /\ G = ToSet(dram) \union ToSet(flash)
      /\ \A x, y : Before(both, x, y) =>
           Before(dram, x, y) \/ Before(flash, x, y) \/ (x \in ToSet(dram) /\ y \in ToSet(flash))
  <2>1. both = dram \o flash /\ G = ToSet(both)
    OBVIOUS
  <2> HIDE DEF both, G
  <2>2. /\ both \in Seq(Keys) /\ ToSet(both) = ToSet(dram) \union ToSet(flash) /\ IsInjective(both)
        /\ \A x, y : Before(both, x, y) =>
             Before(dram, x, y) \/ Before(flash, x, y) \/ (x \in ToSet(dram) /\ y \in ToSet(flash))
    BY ONLY <1>1, <2>1, Concatenation
  <2> QED BY <2>1, <2>2
<1>3. \A x, y : Before(both, x, y) => x \in G /\ y \in G
  BY <1>2, BeforeIsOrder
<1> HIDE DEF both, G
<1>4. kept \in Seq(Keys) /\ ToSet(kept) = G
  <2>1. kept \in Seq(Keys) /\ ToSet(kept) = ToSet(recency) \intersect G
    BY <1>1, KeepSet
  <2> QED BY <1>1, <1>2, <2>1
<1>5. IsInjective(kept)
  BY <1>1, EraseDistinct DEF Keep
<1>6. ASSUME NEW x, NEW y, Before(both, x, y) PROVE Before(kept, x, y)
  <2>1. Before(recency, x, y)
    BY <1>2, <1>6 DEF VictimInv, InOrderOfUse
  <2>2. x \notin ToSet(recency) \ G /\ y \notin ToSet(recency) \ G
    BY <1>3, <1>6
  <2> QED BY <1>1, <2>1, <2>2, EraseOrder DEF Keep
<1> HIDE DEF kept
<1>7. both = kept
  BY <1>2, <1>4, <1>5, <1>6, SameOrder DEF G
<1> QED BY <1>7, VictimTerms DEF Victim!TiersAreOneLru, both, kept, G

LEMMA VictimStep ==
  ASSUME VictimInv, Victim!Next \/ UNCHANGED Victim!vars
  PROVE  VictimInv'
<1>1. CASE \E r \in Victim!Requests : Victim!Proc(r)
  BY <1>1, VictimProc
<1>2. CASE Victim!Demote
  BY <1>2, VictimDemote
<1>3. CASE Victim!Crash
  <2>1. /\ pc' = "crashed" /\ dram' = dram /\ flash' = flash /\ recency' = recency
        /\ allObjects' = allObjects /\ item' = item
    BY <1>3 DEF Victim!Crash
  <2> QED BY <2>1 DEF VictimInv, TableKnows, InOrderOfUse, ItemIsOut
<1>4. CASE Victim!Insert
  BY <1>4, VictimInsert
<1>5. CASE UNCHANGED Victim!vars
  <2>1. /\ pc' = pc /\ dram' = dram /\ flash' = flash /\ recency' = recency
        /\ allObjects' = allObjects /\ item' = item
    BY <1>5 DEF Victim!vars
  <2> QED BY <2>1 DEF VictimInv, TableKnows, InOrderOfUse, ItemIsOut
<1> QED BY <1>1, <1>2, <1>3, <1>4, <1>5 DEF Victim!Next, Victim!Proceed

-------------------------------------------------------------------------------
(* The queues of lruk and of flashcachelruk, which share their variables.  *)

(* Each object is once in the queue the hash table names, and nowhere else. *)
QueuesHold(keys, levels) ==
  /\ kLru \in [levels -> Seq(keys)]
  /\ \A l \in levels : IsInjective(kLru[l])
  /\ \A l \in levels : \A x \in ToSet(kLru[l]) :
       x \in DOMAIN allObjects /\ allObjects[x].queueNumber = l

(* It was hit at least as often as it was lifted. *)
HitsEarn ==
  /\ DOMAIN hits = DOMAIN allObjects
  /\ \A x \in DOMAIN allObjects : hits[x] \in Nat /\ allObjects[x].queueNumber =< hits[x]

(* What the next call puts into a queue is in none, and has earned it. *)
CallIsOut(keys, levels) ==
  /\ call.objects \in Seq(keys) /\ IsInjective(call.objects) /\ call.k \in levels
  /\ \A x \in ToSet(call.objects) :
       /\ x \in DOMAIN allObjects /\ call.k =< hits[x]
       /\ \A l \in levels : x \notin ToSet(kLru[l])

LEMMA LeavesItsQueue ==
  ASSUME NEW keys, NEW levels, QueuesHold(keys, levels), NEW x,
         kLru' = [kLru EXCEPT ![allObjects[x].queueNumber] = Erase(@, {x})]
  PROVE  /\ kLru' \in [levels -> Seq(keys)]
         /\ \A l \in levels : IsInjective(kLru'[l]) /\ ToSet(kLru'[l]) = ToSet(kLru[l]) \ {x}
<1>1. kLru \in [levels -> Seq(keys)] /\ \A l \in levels : IsInjective(kLru[l])
  BY DEF QueuesHold
<1>2. ASSUME NEW l \in levels
      PROVE  /\ kLru'[l] \in Seq(keys) /\ IsInjective(kLru'[l])
             /\ ToSet(kLru'[l]) = ToSet(kLru[l]) \ {x}
  <2>1. kLru'[l] = Erase(kLru[l], {x}) \/ (kLru'[l] = kLru[l] /\ x \notin ToSet(kLru[l]))
    <3>1. CASE l = allObjects[x].queueNumber
      BY <1>1, <3>1
    <3>2. CASE l # allObjects[x].queueNumber
      BY <1>1, <3>2 DEF QueuesHold
    <3> QED BY <3>1, <3>2
  <2> DEFINE p == kLru'[l]
             q == kLru[l]
  <2>2. q \in Seq(keys) /\ IsInjective(q)
    BY <1>1
  <2>3. p = Erase(q, {x}) \/ (p = q /\ x \notin ToSet(q))
    BY <2>1
  <2> HIDE DEF p, q
  <2>4. p \in Seq(keys) /\ IsInjective(p) /\ ToSet(p) = ToSet(q) \ {x}
    BY ONLY <2>2, <2>3, WithoutOne
  <2> QED BY <2>4 DEF p, q
<1>3. DOMAIN kLru' = levels /\ kLru' = [l \in levels |-> kLru'[l]]
  BY <1>1
<1> QED BY <1>2, <1>3

(* One call: objects come to the front of queue k, where n may stay. *)
LEMMA CallMoves ==
  ASSUME NEW keys, NEW levels, QueuesHold(keys, levels), CallIsOut(keys, levels),
         NEW n \in 0 .. Len(kLru[call.k]),
         kLru' = [kLru EXCEPT ![call.k] = Reverse(call.objects) \o Upto(@, n)]
  PROVE  LET popped == Behind(kLru[call.k], n)
         IN /\ kLru' \in [levels -> Seq(keys)]
            /\ \A l \in levels : IsInjective(kLru'[l])
            /\ \A l \in levels : \A x \in ToSet(kLru'[l]) :
                 /\ x \in ToSet(kLru[l]) \/ (l = call.k /\ x \in ToSet(call.objects))
                 /\ x \notin ToSet(popped)
            /\ Reverse(popped) \in Seq(keys) /\ IsInjective(Reverse(popped))
            /\ ToSet(Reverse(popped)) = ToSet(popped) /\ ToSet(popped) \subseteq ToSet(kLru[call.k])
<1> DEFINE k == call.k
           q == kLru[k]
           stay == Upto(q, n)
           popped == Behind(q, n)
           front == Reverse(call.objects)
           p == front \o stay
<1>1. /\ kLru \in [levels -> Seq(keys)] /\ \A l \in levels : IsInjective(kLru[l])
      /\ k \in levels /\ q \in Seq(keys) /\ IsInjective(q) /\ n \in 0 .. Len(q)
  BY DEF QueuesHold, CallIsOut
<1>2. /\ call.objects \in Seq(keys) /\ IsInjective(call.objects)
      /\ \A l \in levels : ToSet(call.objects) \intersect ToSet(kLru[l]) = {}
  BY DEF CallIsOut
<1>3. \A l \in levels : kLru'[l] = IF l = k THEN p ELSE kLru[l]
  BY <1>1
<1>4. DOMAIN kLru' = levels /\ kLru' = [l \in levels |-> kLru'[l]]
  BY <1>1
<1>5. \A l \in levels : l # k => ToSet(kLru[l]) \intersect ToSet(q) = {}
  BY <1>1 DEF QueuesHold
<1>6. ToSet(call.objects) \intersect ToSet(q) = {}
  BY <1>1, <1>2
<1> HIDE DEF q, k
<1>7. /\ stay \in Seq(keys) /\ popped \in Seq(keys) /\ IsInjective(stay) /\ IsInjective(popped)
      /\ ToSet(stay) \union ToSet(popped) = ToSet(q) /\ ToSet(stay) \intersect ToSet(popped) = {}
  BY <1>1, SplitAt
<1> HIDE DEF stay, popped
<1>8. front \in Seq(keys) /\ ToSet(front) = ToSet(call.objects) /\ IsInjective(front)
  BY <1>2, Reversed
<1> HIDE DEF front
<1>9. p \in Seq(keys) /\ ToSet(p) = ToSet(call.objects) \union ToSet(stay) /\ IsInjective(p)
  <2>1. ToSet(front) \intersect ToSet(stay) = {}
    BY <1>6, <1>7, <1>8
  <2>2. /\ front \in Seq(keys) /\ IsInjective(front) /\ stay \in Seq(keys) /\ IsInjective(stay)
        /\ p = front \o stay
    BY <1>7, <1>8
  <2> HIDE DEF p
  <2>3. /\ p \in Seq(keys) /\ ToSet(p) = ToSet(front) \union ToSet(stay)
        /\ IsInjective(p)
    BY ONLY <2>1, <2>2, Concatenation
  <2> QED BY <1>8, <2>3
<1> HIDE DEF p
<1>10. /\ Reverse(popped) \in Seq(keys) /\ IsInjective(Reverse(popped))
       /\ ToSet(Reverse(popped)) = ToSet(popped)
  BY <1>7, Reversed
<1>11. kLru' \in [levels -> Seq(keys)] /\ \A l \in levels : IsInjective(kLru'[l])
  BY <1>1, <1>3, <1>4, <1>9
<1>12. ASSUME NEW l \in levels, NEW x \in ToSet(kLru'[l])
       PROVE  /\ x \in ToSet(kLru[l]) \/ (l = k /\ x \in ToSet(call.objects))
              /\ x \notin ToSet(popped)
  <2>1. CASE l = k
    <3>1. x \in ToSet(call.objects) \/ x \in ToSet(stay)
      BY <1>3, <1>9, <1>12, <2>1
    <3>2. kLru[l] = q
      BY <2>1 DEF q
    <3> QED BY <1>6, <1>7, <2>1, <3>1, <3>2
  <2>2. CASE l # k
    BY <1>3, <1>5, <1>7, <1>12, <2>2
  <2> QED BY <2>1, <2>2
<1> QED BY <1>7, <1>10, <1>11, <1>12 DEF popped, q, k

LEMMA MinOfTwo ==
  ASSUME NEW i \in Nat, NEW j \in Nat
  PROVE  Min({i, j}) = IF i =< j THEN i ELSE j
<1> DEFINE m == IF i =< j THEN i ELSE j
<1>1. m \in {i, j} /\ \A y \in {i, j} : m =< y
  OBVIOUS
<1>2. ASSUME NEW x \in {i, j}, \A y \in {i, j} : x =< y PROVE x = m
  <2>1. x =< i /\ x =< j /\ (x = i \/ x = j)
    BY <1>2
  <2> QED BY <2>1
<1> HIDE DEF m
<1>3. Min({i, j}) = m
  BY <1>1, <1>2 DEF Min
<1> QED BY <1>3 DEF m

-------------------------------------------------------------------------------
(* lruk.                                                                   *)

LEMMA LrukTerms ==
  /\ \A q, G : Lruk!Erase(q, G) = Erase(q, G)
  /\ \A q : Lruk!ToSet(q) = ToSet(q) /\ Lruk!Reverse(q) = Reverse(q)
  /\ \A M : Lruk!Max(M) = Max(M) /\ Lruk!Min(M) = Min(M)
  /\ K_LRU \in Nat /\ K_LRU # 0 /\ Lruk!Levels = 0 .. K_LRU - 1
<1>1. \A q, G : Lruk!Erase(q, G) = Erase(q, G)
  BY DEF Lruk!Erase, Erase
<1>2. \A q : Lruk!ToSet(q) = ToSet(q) /\ Lruk!Reverse(q) = Reverse(q)
  BY DEF Lruk!ToSet, ToSet, Lruk!Reverse, Reverse
<1>3. \A M : Lruk!Max(M) = Max(M) /\ Lruk!Min(M) = Min(M)
  BY DEF Lruk!Max, Max, Lruk!Min, Min
<1>4. K_LRU \in Nat /\ K_LRU # 0 /\ Lruk!Levels = 0 .. K_LRU - 1
  BY PolicyAssumptions DEF Lruk!QueuesAssumption, Lruk!Levels
<1> QED BY <1>1, <1>2, <1>3, <1>4

LrukItems == [size : Sizes, queueNumber : Lruk!Levels]

LrukInv ==
  /\ \A x \in DOMAIN allObjects : allObjects[x] \in LrukItems
  /\ QueuesHold(Keys, Lruk!Levels) /\ HitsEarn /\ CallIsOut(Keys, Lruk!Levels)
  /\ pc = "ready" => call.objects = <<>>

LEMMA LrukInit ==
  ASSUME Lruk!Init
  PROVE  LrukInv
<1>1. /\ pc = "ready" /\ call.objects = <<>> /\ call.k = 0 /\ kLru = [k \in Lruk!Levels |-> <<>>]
      /\ DOMAIN allObjects = {} /\ DOMAIN hits = {}
  BY DEF Lruk!Init, Lruk!NoCall
<1>2. <<>> \in Seq(Keys) /\ DOMAIN <<>> = {}
  OBVIOUS
<1>3. ToSet(<<>>) = {} /\ IsInjective(<<>>)
  BY <1>2 DEF ToSet, IsInjective
<1>4. 0 \in Lruk!Levels
  BY LrukTerms
<1> QED BY <1>1, <1>2, <1>3, <1>4 DEF LrukInv, QueuesHold, HitsEarn, CallIsOut

(* A hit lifts the object by one queue, and is one more hit. *)
LEMMA LrukHit ==
  ASSUME LrukInv, NEW r \in Lruk!Requests, Lruk!Hit(r)
  PROVE  LrukInv'
<1> DEFINE x == r.kid
           qN == allObjects[x].queueNumber
           up == Min({qN + 1, K_LRU - 1})
           count == Min({hits[x] + 1, K_LRU - 1})
<1>1. /\ x \in DOMAIN allObjects /\ kLru' = [kLru EXCEPT ![qN] = Erase(@, {x})]
      /\ pc' = "insert" /\ call'.objects = <<x>> /\ call'.k = up
      /\ hits' = [hits EXCEPT ![x] = count] /\ allObjects' = allObjects
  BY LrukTerms DEF Lruk!Hit, Lruk!IsHit, Lruk!TakeOut, Lruk!Insert, Lruk!Promoted
<1>2. x \in Keys
  BY DEF Lruk!Requests
<1>3. qN \in 0 .. K_LRU - 1 /\ hits[x] \in Nat /\ qN =< hits[x] /\ DOMAIN hits = DOMAIN allObjects
  <2>1. allObjects[x] \in LrukItems
    BY <1>1 DEF LrukInv
  <2>2. qN \in 0 .. K_LRU - 1
    BY <2>1, LrukTerms DEF LrukItems
  <2> QED BY <1>1, <2>2 DEF LrukInv, HitsEarn
<1>4. QueuesHold(Keys, Lruk!Levels)
  BY DEF LrukInv
<1> HIDE DEF x
<1>5. /\ kLru' \in [Lruk!Levels -> Seq(Keys)]
      /\ \A l \in Lruk!Levels : IsInjective(kLru'[l]) /\ ToSet(kLru'[l]) = ToSet(kLru[l]) \ {x}
  BY <1>1, <1>4, LeavesItsQueue
<1> HIDE DEF qN
<1>6. up \in 0 .. K_LRU - 1 /\ count \in Nat /\ qN =< count /\ up =< count
  <2>1. /\ K_LRU \in Nat /\ K_LRU # 0 /\ K_LRU - 1 \in Nat
        /\ qN \in Nat /\ qN + 1 \in Nat /\ qN =< K_LRU - 1 /\ hits[x] + 1 \in Nat
    BY <1>3, LrukTerms
  <2>2. /\ up = IF qN + 1 =< K_LRU - 1 THEN qN + 1 ELSE K_LRU - 1
        /\ count = IF hits[x] + 1 =< K_LRU - 1 THEN hits[x] + 1 ELSE K_LRU - 1
    BY <2>1, MinOfTwo
  <2> HIDE DEF up, count
  <2> QED BY <1>3, <2>1, <2>2
<1> HIDE DEF up, count
<1>7. QueuesHold(Keys, Lruk!Levels)'
  BY <1>1, <1>4, <1>5 DEF QueuesHold
<1>8. HitsEarn'
  <2>1. DOMAIN hits' = DOMAIN allObjects'
    BY <1>1, <1>3
  <2>2. ASSUME NEW y \in DOMAIN allObjects' PROVE hits'[y] \in Nat /\ allObjects'[y].queueNumber =< hits'[y]
    <3>1. CASE y = x
      BY <1>1, <1>3, <1>6, <3>1 DEF qN
    <3>2. CASE y # x
      BY <1>1, <1>3, <2>2, <3>2 DEF LrukInv, HitsEarn
    <3> QED BY <3>1, <3>2
  <2> QED BY <2>1, <2>2 DEF HitsEarn
<1>9. CallIsOut(Keys, Lruk!Levels)'
  <2>1. call'.objects \in Seq(Keys) /\ IsInjective(call'.objects) /\ ToSet(call'.objects) = {x}
    <3>1. <<x>> \in Seq(Keys) /\ DOMAIN <<x>> = {1} /\ <<x>>[1] = x
      BY <1>2
    <3> QED BY <1>1, <3>1 DEF IsInjective, ToSet
  <2>2. call'.k \in Lruk!Levels /\ call'.k =< hits'[x] /\ x \in DOMAIN allObjects'
    BY <1>1, <1>3, <1>6, LrukTerms
  <2> QED BY <1>5, <2>1, <2>2 DEF CallIsOut
<1> QED BY <1>1, <1>7, <1>8, <1>9 DEF LrukInv

(* A miss puts the object into queue 0, with no hits. *)
LEMMA LrukMiss ==
  ASSUME LrukInv, NEW r \in Lruk!Requests, Lruk!Miss(r)
  PROVE  LrukInv'
<1> DEFINE x == r.kid
<1>1. /\ pc' = "insert" /\ call'.objects = <<x>> /\ call'.k = 0
      /\ DOMAIN allObjects' = DOMAIN allObjects \union {x}
      /\ DOMAIN hits' = DOMAIN hits \union {x}
      /\ allObjects'[x] = [size |-> r.size, queueNumber |-> 0] /\ hits'[x] = 0
      /\ \A y \in DOMAIN allObjects : y # x => allObjects'[y] = allObjects[y]
      /\ \A y \in DOMAIN hits : y # x => hits'[y] = hits[y]
  BY DEF Lruk!Miss, Lruk!Insert, Lruk!Bind
<1>2. x \in Keys /\ r.size \in Sizes
  BY DEF Lruk!Requests
<1>3. /\ kLru' \in [Lruk!Levels -> Seq(Keys)]
      /\ \A l \in Lruk!Levels : IsInjective(kLru'[l]) /\ ToSet(kLru'[l]) = ToSet(kLru[l]) \ {x}
  <2>1. CASE x \in DOMAIN allObjects
    <3>1. kLru' = [kLru EXCEPT ![allObjects[x].queueNumber] = Erase(@, {x})]
      BY <2>1, LrukTerms DEF Lruk!Miss, Lruk!TakeOut
    <3> HIDE DEF x
    <3> QED BY <3>1, LeavesItsQueue DEF LrukInv
  <2>2. CASE x \notin DOMAIN allObjects
    <3>1. kLru' = kLru
      BY <2>2 DEF Lruk!Miss
    <3> QED BY <2>2, <3>1 DEF LrukInv, QueuesHold
  <2> QED BY <2>1, <2>2
<1> HIDE DEF x
<1>4. 0 \in Lruk!Levels
  BY LrukTerms
<1>5. \A y \in DOMAIN allObjects' : allObjects'[y] \in LrukItems
  BY <1>1, <1>2, <1>4 DEF LrukInv, LrukItems
<1>6. QueuesHold(Keys, Lruk!Levels)'
  BY <1>1, <1>3 DEF LrukInv, QueuesHold
<1>7. HitsEarn'
  <2>1. DOMAIN hits' = DOMAIN allObjects'
    BY <1>1 DEF LrukInv, HitsEarn
  <2>2. ASSUME NEW y \in DOMAIN allObjects' PROVE hits'[y] \in Nat /\ allObjects'[y].queueNumber =< hits'[y]
    <3>1. CASE y = x
      BY <1>1, <3>1
    <3>2. CASE y # x
      BY <1>1, <2>1, <2>2, <3>2 DEF LrukInv, HitsEarn
    <3> QED BY <3>1, <3>2
  <2> QED BY <2>1, <2>2 DEF HitsEarn
<1>8. CallIsOut(Keys, Lruk!Levels)'
  <2>1. call'.objects \in Seq(Keys) /\ IsInjective(call'.objects) /\ ToSet(call'.objects) = {x}
    <3>1. <<x>> \in Seq(Keys) /\ DOMAIN <<x>> = {1} /\ <<x>>[1] = x
      BY <1>2
    <3> QED BY <1>1, <3>1 DEF IsInjective, ToSet
  <2>2. call'.k \in Lruk!Levels /\ call'.k =< hits'[x] /\ x \in DOMAIN allObjects'
    BY <1>1, <1>4
  <2> QED BY <1>3, <2>1, <2>2 DEF CallIsOut
<1> QED BY <1>1, <1>5, <1>6, <1>7, <1>8 DEF LrukInv

(* One call of insert: what is pushed out goes to the next call, one queue *)
(* down, or leaves the cache.                                              *)
LEMMA LrukInsertCall ==
  ASSUME LrukInv, Lruk!InsertCall
  PROVE  LrukInv'
<1> DEFINE k == call.k
           n == Max(Lruk!Stays(k, call.sum))
           popped == Behind(kLru[k], n)
           in == ToSet(call.objects)
           placed == [x \in DOMAIN allObjects |->
                        IF x \in in THEN [allObjects[x] EXCEPT !.queueNumber = k] ELSE allObjects[x]]
<1>1. /\ Lruk!Stays(k, call.sum) # {}
      /\ kLru' = [kLru EXCEPT ![k] = Reverse(call.objects) \o Upto(@, n)]
      /\ \/ /\ k > 0 /\ pc' = "insert" /\ call'.objects = Reverse(popped) /\ call'.k = k - 1
            /\ allObjects' = placed /\ hits' = hits
         \/ /\ pc' = "ready" /\ call' = Lruk!NoCall
            /\ allObjects' = [x \in DOMAIN placed \ ToSet(popped) |-> placed[x]]
            /\ hits' = [x \in DOMAIN hits \ ToSet(popped) |-> hits[x]]
  <2> DEFINE pops == SubSeq(kLru[k], n + 1, Len(kLru[k]))
  <2>1. /\ Lruk!Stays(k, call.sum) # {}
        /\ kLru' = [kLru EXCEPT ![k] = Reverse(call.objects) \o SubSeq(@, 1, n)]
        /\ \/ /\ k > 0 /\ Lruk!Insert(Reverse(pops), Lruk!SizeOf(pops), k - 1, TRUE)
              /\ allObjects' = placed /\ hits' = hits
           \/ /\ pc' = "ready" /\ call' = Lruk!NoCall
              /\ allObjects' = Lruk!Unbind(placed, ToSet(pops))
              /\ hits' = Lruk!Unbind(hits, ToSet(pops))
    BY LrukTerms DEF Lruk!InsertCall, Lruk!Pushed, Lruk!NextLevel
  <2>2. pops = popped /\ \A q : SubSeq(q, 1, n) = Upto(q, n)
    BY DEF Upto, Behind
  <2>3. SubSeq(kLru[k], 1, n) = Upto(kLru[k], n)
    BY <2>2
  <2> HIDE DEF n, pops, popped, placed, k
  <2>4. kLru' = [kLru EXCEPT ![k] = Reverse(call.objects) \o Upto(@, n)]
    BY <2>1, <2>3
  <2>5. ASSUME k > 0, Lruk!Insert(Reverse(pops), Lruk!SizeOf(pops), k - 1, TRUE)
        PROVE  pc' = "insert" /\ call'.objects = Reverse(popped) /\ call'.k = k - 1
    BY <2>2, <2>5 DEF Lruk!Insert
  <2>6. /\ Lruk!Unbind(placed, ToSet(pops)) = [x \in DOMAIN placed \ ToSet(popped) |-> placed[x]]
        /\ Lruk!Unbind(hits, ToSet(pops)) = [x \in DOMAIN hits \ ToSet(popped) |-> hits[x]]
    BY <2>2 DEF Lruk!Unbind
  <2> QED BY <2>1, <2>4, <2>5, <2>6
<1>2. /\ QueuesHold(Keys, Lruk!Levels) /\ CallIsOut(Keys, Lruk!Levels) /\ HitsEarn
      /\ k \in Lruk!Levels /\ kLru[k] \in Seq(Keys) /\ Len(kLru[k]) \in Nat
  BY DEF LrukInv, CallIsOut, QueuesHold
<1>3. n \in 0 .. Len(kLru[k])
  <2>1. Lruk!Stays(k, call.sum) \in SUBSET (0 .. Len(kLru[k]))
    BY DEF Lruk!Stays
  <2> QED BY <1>1, <1>2, <2>1, GreatestElement
<1> HIDE DEF n
<1>4. /\ kLru' \in [Lruk!Levels -> Seq(Keys)]
      /\ \A l \in Lruk!Levels : IsInjective(kLru'[l])
      /\ \A l \in Lruk!Levels : \A x \in ToSet(kLru'[l]) :
           /\ x \in ToSet(kLru[l]) \/ (l = k /\ x \in in)
           /\ x \notin ToSet(popped)
      /\ Reverse(popped) \in Seq(Keys) /\ IsInjective(Reverse(popped))
      /\ ToSet(Reverse(popped)) = ToSet(popped) /\ ToSet(popped) \subseteq ToSet(kLru[k])
  BY <1>1, <1>2, <1>3, CallMoves
<1>5. /\ \A x \in in : x \in DOMAIN allObjects /\ k =< hits[x]
      /\ \A l \in Lruk!Levels : \A x \in ToSet(kLru[l]) :
            x \notin in /\ x \in DOMAIN allObjects /\ allObjects[x].queueNumber = l
  BY <1>2 DEF QueuesHold, CallIsOut
<1> HIDE DEF popped, in
<1>6. /\ DOMAIN placed = DOMAIN allObjects
      /\ \A x \in DOMAIN allObjects : placed[x] \in LrukItems /\ placed[x].queueNumber =< hits[x]
      /\ \A x \in DOMAIN allObjects : x \in in => placed[x].queueNumber = k
      /\ \A x \in DOMAIN allObjects : x \notin in => placed[x] = allObjects[x]
  <2>1. DOMAIN placed = DOMAIN allObjects
    OBVIOUS
  <2>2. ASSUME NEW x \in DOMAIN allObjects
        PROVE  /\ placed[x] \in LrukItems /\ placed[x].queueNumber =< hits[x]
               /\ x \in in => placed[x].queueNumber = k
               /\ x \notin in => placed[x] = allObjects[x]
    <3>1. allObjects[x] \in LrukItems /\ allObjects[x].queueNumber =< hits[x]
      BY DEF LrukInv, HitsEarn
    <3>2. CASE x \in in
      <4>1. placed[x] = [allObjects[x] EXCEPT !.queueNumber = k]
        BY <3>2
      <4>2. placed[x] \in LrukItems /\ placed[x].queueNumber = k
        BY <1>2, <3>1, <4>1 DEF LrukItems
      <4> QED BY <1>5, <3>2, <4>2
    <3>3. CASE x \notin in
      BY <3>1, <3>3
    <3> QED BY <3>2, <3>3
  <2> QED BY <2>1, <2>2
<1> HIDE DEF placed
<1>7. /\ \A x \in DOMAIN allObjects' : x \in DOMAIN allObjects /\ allObjects'[x] = placed[x] /\ hits'[x] = hits[x]
      /\ DOMAIN hits' = DOMAIN allObjects'
      /\ \A x \in DOMAIN allObjects : x \notin ToSet(popped) => x \in DOMAIN allObjects'
  BY <1>1, <1>2, <1>6 DEF HitsEarn
<1>8. \A x \in DOMAIN allObjects' : allObjects'[x] \in LrukItems
  BY <1>6, <1>7
<1>9. QueuesHold(Keys, Lruk!Levels)'
  <2>1. ASSUME NEW l \in Lruk!Levels, NEW x \in ToSet(kLru'[l])
        PROVE  x \in DOMAIN allObjects' /\ allObjects'[x].queueNumber = l
    <3>1. CASE x \in ToSet(kLru[l])
      BY <1>4, <1>5, <1>6, <1>7, <2>1, <3>1
    <3>2. CASE l = k /\ x \in in
      BY <1>4, <1>5, <1>6, <1>7, <2>1, <3>2
    <3> QED BY <1>4, <2>1, <3>1, <3>2
  <2> QED BY <1>4, <2>1 DEF QueuesHold
<1>10. HitsEarn'
  <2>1. \A x \in DOMAIN allObjects : hits[x] \in Nat
    BY <1>2 DEF HitsEarn
  <2> QED BY <1>6, <1>7, <2>1 DEF HitsEarn
<1>11. CASE call' = Lruk!NoCall
  <2>1. call'.objects = <<>> /\ call'.k = 0
    BY <1>11 DEF Lruk!NoCall
  <2>2. <<>> \in Seq(Keys) /\ ToSet(<<>>) = {} /\ IsInjective(<<>>)
    BY DEF ToSet, IsInjective
  <2>3. CallIsOut(Keys, Lruk!Levels)'
    BY <2>1, <2>2, LrukTerms DEF CallIsOut
  <2> QED BY <1>8, <1>9, <1>10, <2>1, <2>3 DEF LrukInv
<1>12. CASE /\ k > 0 /\ pc' = "insert" /\ call'.objects = Reverse(popped) /\ call'.k = k - 1
            /\ allObjects' = placed /\ hits' = hits
  <2>1. call'.k \in Lruk!Levels /\ k \in Nat
    BY <1>2, <1>12, LrukTerms
  <2>2. ASSUME NEW x \in ToSet(call'.objects)
        PROVE  /\ x \in DOMAIN allObjects' /\ call'.k =< hits'[x]
               /\ \A l \in Lruk!Levels : x \notin ToSet(kLru'[l])
    <3>1. x \in ToSet(popped) /\ x \in ToSet(kLru[k])
      BY <1>4, <1>12, <2>2
    <3>2. x \in DOMAIN allObjects /\ allObjects[x].queueNumber = k /\ k =< hits[x] /\ hits[x] \in Nat
      BY <1>2, <1>5, <3>1 DEF HitsEarn
    <3>3. k - 1 =< hits[x]
      BY <2>1, <3>2
    <3> QED BY <1>4, <1>6, <1>12, <3>1, <3>2, <3>3
  <2>3. CallIsOut(Keys, Lruk!Levels)'
    BY <1>4, <1>12, <2>1, <2>2 DEF CallIsOut
  <2> QED BY <1>8, <1>9, <1>10, <1>12, <2>3 DEF LrukInv
<1> QED BY <1>1, <1>11, <1>12

LEMMA LrukStep ==
  ASSUME LrukInv, Lruk!Next \/ UNCHANGED Lruk!vars
  PROVE  LrukInv'
<1>1. ASSUME NEW r \in Lruk!Requests, Lruk!Proc(r) PROVE LrukInv'
  BY <1>1, LrukHit, LrukMiss DEF Lruk!Proc
<1>2. CASE Lruk!InsertCall
  BY <1>2, LrukInsertCall
<1>3. ASSUME /\ kLru' = kLru /\ allObjects' = allObjects /\ hits' = hits /\ call' = call
             /\ pc' = pc \/ pc' = "aborted"
      PROVE  LrukInv'
  BY <1>3 DEF LrukInv, QueuesHold, HitsEarn, CallIsOut
<1>4. CASE Lruk!Abort
  BY <1>3, <1>4 DEF Lruk!Abort
<1>5. CASE UNCHANGED Lruk!vars
  BY <1>3, <1>5 DEF Lruk!vars
<1> QED BY <1>1, <1>2, <1>4, <1>5 DEF Lruk!Next, Lruk!Proceed

-------------------------------------------------------------------------------
(* flashcachelruk.                                                         *)

LEMMA KlruTerms ==
  /\ \A q, G : Klru!Erase(q, G) = Erase(q, G)
  /\ \A q : Klru!ToSet(q) = ToSet(q) /\ Klru!Reverse(q) = Reverse(q)
  /\ \A M : Klru!Max(M) = Max(M) /\ Klru!Min(M) = Min(M)
  /\ FC_K_LRU \in Nat /\ FC_K_LRU # 0 /\ Klru!Levels = 0 .. FC_K_LRU - 1
<1>1. \A q, G : Klru!Erase(q, G) = Erase(q, G)
  BY DEF Klru!Erase, Erase
<1>2. \A q : Klru!ToSet(q) = ToSet(q) /\ Klru!Reverse(q) = Reverse(q)
  BY DEF Klru!ToSet, ToSet, Klru!Reverse, Reverse
<1>3. \A M : Klru!Max(M) = Max(M) /\ Klru!Min(M) = Min(M)
  BY DEF Klru!Max, Max, Klru!Min, Min
<1>4. FC_K_LRU \in Nat /\ FC_K_LRU # 0 /\ Klru!Levels = 0 .. FC_K_LRU - 1
  BY PolicyAssumptions DEF Klru!TiersAssumption, Klru!Levels
<1> QED BY <1>1, <1>2, <1>3, <1>4

KlruSizes == UpTo(DRAM_SIZE_FC_KLRU)
KlruItems == [size : KlruSizes, isInDram : BOOLEAN, queueNumber : Klru!Levels]

(* What is in the queues, or on its way to one, is in DRAM. *)
QueuesAreDram ==
  /\ \A l \in Klru!Levels : \A x \in ToSet(kLru[l]) : allObjects[x].isInDram
  /\ \A x \in ToSet(call.objects) : allObjects[x].isInDram

(* Room is made for an object that is not cached, and nothing else moves. *)
NewItemIsNew ==
  /\ pc \in {"ready", "insert"} => call.objects = <<>>
  /\ pc = "insert" => /\ newItem.kid \in FewKeys /\ newItem.size \in KlruSizes
                      /\ newItem.kid \notin DOMAIN allObjects

KlruInv ==
  /\ \A x \in DOMAIN allObjects : allObjects[x] \in KlruItems
  /\ QueuesHold(FewKeys, Klru!Levels) /\ HitsEarn /\ CallIsOut(FewKeys, Klru!Levels)
  /\ QueuesAreDram /\ NewItemIsNew

LEMMA KlruInit ==
  ASSUME Klru!Init
  PROVE  KlruInv
<1>1. /\ pc = "ready" /\ call.objects = <<>> /\ call.k = 0 /\ kLru = [k \in Klru!Levels |-> <<>>]
      /\ DOMAIN allObjects = {} /\ DOMAIN hits = {}
  BY DEF Klru!Init, Klru!NoCall
<1>2. <<>> \in Seq(FewKeys) /\ DOMAIN <<>> = {}
  OBVIOUS
<1>3. ToSet(<<>>) = {} /\ IsInjective(<<>>)
  BY <1>2 DEF ToSet, IsInjective
<1>4. 0 \in Klru!Levels
  BY KlruTerms
<1>5. QueuesHold(FewKeys, Klru!Levels) /\ HitsEarn /\ CallIsOut(FewKeys, Klru!Levels)
  BY <1>1, <1>2, <1>3, <1>4 DEF QueuesHold, HitsEarn, CallIsOut
<1>6. QueuesAreDram /\ NewItemIsNew
  BY <1>1, <1>3 DEF QueuesAreDram, NewItemIsNew
<1> QED BY <1>1, <1>5, <1>6 DEF KlruInv

(* When no call is under way. *)
LEMMA NothingInHand ==
  ASSUME NEW keys, NEW levels, call.objects = <<>>
  PROVE  /\ ToSet(call.objects) = {} /\ call.objects \in Seq(keys) /\ IsInjective(call.objects)
         /\ CallIsOut(keys, levels) <=> call.k \in levels
<1>1. <<>> \in Seq(keys) /\ DOMAIN <<>> = {}
  OBVIOUS
<1>2. ToSet(<<>>) = {} /\ IsInjective(<<>>)
  BY <1>1 DEF ToSet, IsInjective
<1> QED BY <1>1, <1>2 DEF CallIsOut

(* The queues when an object has left its own, and what the hash table     *)
(* says of the others is kept.                                             *)
LEMMA KlruLeaves ==
  ASSUME QueuesHold(FewKeys, Klru!Levels), NEW x, Klru!LeaveQueue(x)
  PROVE  /\ kLru' \in [Klru!Levels -> Seq(FewKeys)]
         /\ \A l \in Klru!Levels : IsInjective(kLru'[l]) /\ ToSet(kLru'[l]) = ToSet(kLru[l]) \ {x}
<1>1. kLru' = [kLru EXCEPT ![allObjects[x].queueNumber] = Erase(@, {x})]
  BY KlruTerms DEF Klru!LeaveQueue, Klru!Drop
<1> QED BY <1>1, LeavesItsQueue

LEMMA KlruHit ==
  ASSUME KlruInv, pc = "ready", NEW r \in Klru!Requests, Klru!Hit(r)
  PROVE  KlruInv'
<1> DEFINE x == r.kid
           qN == allObjects[x].queueNumber
           up == Min({qN + 1, FC_K_LRU - 1})
           count == Min({hits[x] + 1, FC_K_LRU - 1})
<1>1. /\ x \in DOMAIN allObjects /\ allObjects' = allObjects /\ hits' = [hits EXCEPT ![x] = count]
      /\ newItem' = newItem
      /\ allObjects[x].isInDram =>
           Klru!LeaveQueue(x) /\ pc' = "reorder" /\ call'.objects = <<x>> /\ call'.k = up
      /\ ~ allObjects[x].isInDram => kLru' = kLru /\ pc' = pc /\ call' = call
  <2>1. /\ x \in DOMAIN allObjects /\ allObjects' = allObjects /\ newItem' = newItem
        /\ hits' = [hits EXCEPT ![x] = Klru!Min({@ + 1, FC_K_LRU - 1})]
    BY DEF Klru!Hit, Klru!IsHit
  <2>2. hits' = [hits EXCEPT ![x] = count]
    BY <2>1, KlruTerms
  <2>3. CASE allObjects[x].isInDram
    <3>1. /\ Klru!LeaveQueue(x)
          /\ Klru!Reorder(<<x>>, r.size, Klru!Min({qN + 1, FC_K_LRU - 1}), qN + 1 # FC_K_LRU)
      BY <2>3 DEF Klru!Hit
    <3>2. pc' = "reorder" /\ call'.objects = <<x>> /\ call'.k = Klru!Min({qN + 1, FC_K_LRU - 1})
      BY <3>1 DEF Klru!Reorder
    <3>3. call'.k = up
      BY <3>2, KlruTerms
    <3> QED BY <2>1, <2>2, <2>3, <3>1, <3>2, <3>3
  <2>4. CASE ~ allObjects[x].isInDram
    <3>1. kLru' = kLru /\ pc' = pc /\ call' = call
      BY <2>4 DEF Klru!Hit, Klru!queueVars
    <3> QED BY <2>1, <2>2, <2>4, <3>1
  <2> QED BY <2>3, <2>4
<1>2. x \in FewKeys
  BY DEF Klru!Requests
<1>3. qN \in 0 .. FC_K_LRU - 1 /\ hits[x] \in Nat /\ qN =< hits[x] /\ DOMAIN hits = DOMAIN allObjects
  <2>1. allObjects[x] \in KlruItems
    BY <1>1 DEF KlruInv
  <2>2. qN \in 0 .. FC_K_LRU - 1
    BY <2>1, KlruTerms DEF KlruItems
  <2> QED BY <1>1, <2>2 DEF KlruInv, HitsEarn
<1>4. QueuesHold(FewKeys, Klru!Levels) /\ call.objects = <<>> /\ call.k \in Klru!Levels
  BY DEF KlruInv, NewItemIsNew, CallIsOut
<1> HIDE DEF x, qN
<1>5. up \in 0 .. FC_K_LRU - 1 /\ count \in Nat /\ qN =< count /\ up =< count
  <2>1. /\ FC_K_LRU \in Nat /\ FC_K_LRU # 0 /\ FC_K_LRU - 1 \in Nat
        /\ qN \in Nat /\ qN + 1 \in Nat /\ qN =< FC_K_LRU - 1 /\ hits[x] + 1 \in Nat
    BY <1>3, KlruTerms
  <2>2. /\ up = IF qN + 1 =< FC_K_LRU - 1 THEN qN + 1 ELSE FC_K_LRU - 1
        /\ count = IF hits[x] + 1 =< FC_K_LRU - 1 THEN hits[x] + 1 ELSE FC_K_LRU - 1
    BY <2>1, MinOfTwo
  <2> HIDE DEF up, count
  <2> QED BY <1>3, <2>1, <2>2
<1> HIDE DEF up, count
<1>6. HitsEarn'
  <2>1. DOMAIN hits' = DOMAIN allObjects'
    BY <1>1, <1>3
  <2>2. ASSUME NEW y \in DOMAIN allObjects' PROVE hits'[y] \in Nat /\ allObjects'[y].queueNumber =< hits'[y]
    <3>1. CASE y = x
      BY <1>1, <1>3, <1>5, <3>1 DEF qN
    <3>2. CASE y # x
      BY <1>1, <1>3, <2>2, <3>2 DEF KlruInv, HitsEarn
    <3> QED BY <3>1, <3>2
  <2> QED BY <2>1, <2>2 DEF HitsEarn
<1>7. \A y \in DOMAIN allObjects' : allObjects'[y] \in KlruItems
  BY <1>1 DEF KlruInv
<1>8. CASE allObjects[x].isInDram
  <2>1. /\ kLru' \in [Klru!Levels -> Seq(FewKeys)]
        /\ \A l \in Klru!Levels : IsInjective(kLru'[l]) /\ ToSet(kLru'[l]) = ToSet(kLru[l]) \ {x}
    BY <1>1, <1>4, <1>8, KlruLeaves
  <2>2. QueuesHold(FewKeys, Klru!Levels)'
    BY <1>1, <1>4, <2>1 DEF QueuesHold
  <2>3. call'.objects \in Seq(FewKeys) /\ IsInjective(call'.objects) /\ ToSet(call'.objects) = {x}
    <3>1. <<x>> \in Seq(FewKeys) /\ DOMAIN <<x>> = {1} /\ <<x>>[1] = x
      BY <1>2
    <3>2. IsInjective(<<x>>) /\ ToSet(<<x>>) = {x}
      BY <3>1 DEF IsInjective, ToSet
    <3>3. call'.objects = <<x>>
      BY <1>1, <1>8
    <3> QED BY <3>1, <3>2, <3>3
  <2>4. CallIsOut(FewKeys, Klru!Levels)'
    <3>1. call'.k \in Klru!Levels /\ call'.k =< hits'[x] /\ x \in DOMAIN allObjects'
      BY <1>1, <1>3, <1>5, <1>8, KlruTerms
    <3> QED BY <2>1, <2>3, <3>1 DEF CallIsOut
  <2>5. QueuesAreDram'
    BY <1>1, <1>8, <2>1, <2>3 DEF KlruInv, QueuesAreDram
  <2>6. NewItemIsNew'
    BY <1>1, <1>8 DEF NewItemIsNew
  <2> QED BY <1>6, <1>7, <2>2, <2>4, <2>5, <2>6 DEF KlruInv
<1>9. CASE ~ allObjects[x].isInDram
  <2>1. kLru' = kLru /\ call' = call /\ pc' = "ready"
    BY <1>1, <1>9
  <2>2. QueuesHold(FewKeys, Klru!Levels)' /\ QueuesAreDram' /\ NewItemIsNew'
    BY <1>1, <1>4, <2>1 DEF KlruInv, QueuesHold, QueuesAreDram, NewItemIsNew
  <2>3. CallIsOut(FewKeys, Klru!Levels)'
    <3>1. call'.objects = <<>> /\ call'.k \in Klru!Levels /\ ToSet(<<>>) = {}
      BY <1>4, <2>1, NothingInHand
    <3>2. <<>> \in Seq(FewKeys) /\ IsInjective(<<>>)
      BY DEF IsInjective
    <3> QED BY <3>1, <3>2 DEF CallIsOut
  <2> QED BY <1>6, <1>7, <2>2, <2>3 DEF KlruInv
<1> QED BY <1>8, <1>9

(* The object of key x leaves the cache. *)
LEMMA KlruTakesOut ==
  ASSUME KlruInv, NEW x, Klru!TakeOut(x), call.objects = <<>>
  PROVE  /\ \A y \in DOMAIN allObjects' : allObjects'[y] \in KlruItems
         /\ QueuesHold(FewKeys, Klru!Levels)' /\ HitsEarn'
         /\ \A l \in Klru!Levels : \A y \in ToSet(kLru'[l]) : allObjects'[y].isInDram
         /\ DOMAIN allObjects' = DOMAIN allObjects \ {x}
<1>1. /\ allObjects' = [y \in DOMAIN allObjects \ {x} |-> allObjects[y]]
      /\ hits' = [y \in DOMAIN hits \ {x} |-> hits[y]]
      /\ IF allObjects[x].isInDram THEN Klru!LeaveQueue(x) ELSE kLru' = kLru
  BY DEF Klru!TakeOut, Klru!Unbind, Klru!queueVars
<1>2. /\ kLru' \in [Klru!Levels -> Seq(FewKeys)]
      /\ \A l \in Klru!Levels : IsInjective(kLru'[l]) /\ ToSet(kLru'[l]) = ToSet(kLru[l]) \ {x}
  <2>1. CASE allObjects[x].isInDram
    BY <1>1, <2>1, KlruLeaves DEF KlruInv
  <2>2. CASE ~ allObjects[x].isInDram
    <3>1. kLru' = kLru /\ \A l \in Klru!Levels : x \notin ToSet(kLru[l])
      BY <1>1, <2>2 DEF KlruInv, QueuesAreDram
    <3> QED BY <3>1 DEF KlruInv, QueuesHold
  <2> QED BY <2>1, <2>2
<1>3. QueuesHold(FewKeys, Klru!Levels)'
  BY <1>1, <1>2 DEF KlruInv, QueuesHold
<1>4. HitsEarn'
  BY <1>1 DEF KlruInv, HitsEarn
<1>5. \A l \in Klru!Levels : \A y \in ToSet(kLru'[l]) : allObjects'[y].isInDram
  BY <1>1, <1>2 DEF KlruInv, QueuesHold, QueuesAreDram
<1> QED BY <1>1, <1>3, <1>4, <1>5 DEF KlruInv

LEMMA KlruMiss ==
  ASSUME KlruInv, pc = "ready", NEW r \in Klru!Requests, Klru!Miss(r)
  PROVE  KlruInv'
<1> DEFINE x == r.kid
<1>1. /\ pc' = "insert" /\ newItem'.kid = x /\ newItem'.size = r.size /\ call' = call
      /\ call.objects = <<>> /\ call.k \in Klru!Levels /\ x \in FewKeys /\ r.size \in KlruSizes
  BY DEF Klru!Miss, Klru!Requests, KlruInv, NewItemIsNew, CallIsOut, KlruSizes
<1>2. /\ \A y \in DOMAIN allObjects' : allObjects'[y] \in KlruItems
      /\ QueuesHold(FewKeys, Klru!Levels)' /\ HitsEarn'
      /\ \A l \in Klru!Levels : \A y \in ToSet(kLru'[l]) : allObjects'[y].isInDram
      /\ DOMAIN allObjects' = DOMAIN allObjects \ {x}
  <2>1. CASE x \in DOMAIN allObjects
    <3>1. Klru!TakeOut(x)
      BY <2>1 DEF Klru!Miss
    <3> HIDE DEF x
    <3> QED BY <1>1, <3>1, KlruTakesOut
  <2>2. CASE x \notin DOMAIN allObjects
    <3>1. kLru' = kLru /\ allObjects' = allObjects /\ hits' = hits
      BY <2>2 DEF Klru!Miss, Klru!tierVars, Klru!queueVars
    <3>2. /\ \A y \in DOMAIN allObjects' : allObjects'[y] \in KlruItems
          /\ DOMAIN allObjects' = DOMAIN allObjects \ {x}
      BY <2>2, <3>1 DEF KlruInv
    <3>3. QueuesHold(FewKeys, Klru!Levels)'
      BY <3>1 DEF KlruInv, QueuesHold
    <3>4. HitsEarn'
      BY <3>1 DEF KlruInv, HitsEarn
    <3>5. \A l \in Klru!Levels : \A y \in ToSet(kLru'[l]) : allObjects'[y].isInDram
      BY <3>1 DEF KlruInv, QueuesAreDram
    <3> QED BY <3>2, <3>3, <3>4, <3>5
  <2> QED BY <2>1, <2>2
<1>3. call'.objects = <<>> /\ call'.k \in Klru!Levels /\ ToSet(<<>>) = {}
  BY <1>1, NothingInHand
<1>4. CallIsOut(FewKeys, Klru!Levels)'
  <2>1. <<>> \in Seq(FewKeys) /\ IsInjective(<<>>)
    BY DEF IsInjective
  <2> QED BY <1>3, <2>1 DEF CallIsOut
<1>5. QueuesAreDram' /\ NewItemIsNew'
  BY <1>1, <1>2, <1>3 DEF QueuesAreDram, NewItemIsNew
<1> QED BY <1>2, <1>4, <1>5 DEF KlruInv

(* The new object enters queue 0 with no hits. *)
LEMMA KlruInsert ==
  ASSUME KlruInv, Klru!Insert
  PROVE  KlruInv'
<1> DEFINE x == newItem.kid
           p == <<x>> \o kLru[0]
<1>1. /\ pc' = "ready" /\ kLru' = [kLru EXCEPT ![0] = p] /\ call' = call
      /\ DOMAIN allObjects' = DOMAIN allObjects \union {x}
      /\ DOMAIN hits' = DOMAIN hits \union {x}
      /\ allObjects'[x] = [size |-> newItem.size, isInDram |-> TRUE, queueNumber |-> 0]
      /\ hits'[x] = 0
      /\ \A y \in DOMAIN allObjects : y # x => allObjects'[y] = allObjects[y]
      /\ \A y \in DOMAIN hits : y # x => hits'[y] = hits[y]
  BY DEF Klru!Insert, Klru!Bind
<1>2. /\ x \in FewKeys /\ newItem.size \in KlruSizes /\ x \notin DOMAIN allObjects
      /\ call.objects = <<>> /\ call.k \in Klru!Levels /\ 0 \in Klru!Levels
  BY KlruTerms DEF Klru!Insert, KlruInv, NewItemIsNew, CallIsOut
<1> HIDE DEF x
<1>3. /\ kLru \in [Klru!Levels -> Seq(FewKeys)] /\ \A l \in Klru!Levels : IsInjective(kLru[l])
      /\ \A l \in Klru!Levels : x \notin ToSet(kLru[l])
  BY <1>2 DEF KlruInv, QueuesHold
<1>4. p \in Seq(FewKeys) /\ ToSet(p) = {x} \union ToSet(kLru[0]) /\ IsInjective(p)
  <2>1. kLru[0] \in Seq(FewKeys) /\ IsInjective(kLru[0]) /\ x \notin ToSet(kLru[0])
    BY <1>2, <1>3
  <2> QED BY <1>2, <2>1, PushFront
<1> HIDE DEF p
<1>5. /\ kLru' \in [Klru!Levels -> Seq(FewKeys)] /\ \A l \in Klru!Levels : IsInjective(kLru'[l])
      /\ \A l \in Klru!Levels : \A y \in ToSet(kLru'[l]) : y \in ToSet(kLru[l]) \/ (l = 0 /\ y = x)
  BY <1>1, <1>2, <1>3, <1>4
<1>6. \A y \in DOMAIN allObjects' : allObjects'[y] \in KlruItems
  <2>1. ASSUME NEW y \in DOMAIN allObjects' PROVE allObjects'[y] \in KlruItems
    <3>1. CASE y = x
      <4>1. [size |-> newItem.size, isInDram |-> TRUE, queueNumber |-> 0] \in KlruItems
        BY <1>2 DEF KlruItems
      <4> QED BY <1>1, <3>1, <4>1
    <3>2. CASE y # x
      BY <1>1, <2>1, <3>2 DEF KlruInv
    <3> QED BY <3>1, <3>2
  <2> QED BY <2>1
<1>7. QueuesHold(FewKeys, Klru!Levels)'
  <2>1. ASSUME NEW l \in Klru!Levels, NEW y \in ToSet(kLru'[l])
        PROVE  y \in DOMAIN allObjects' /\ allObjects'[y].queueNumber = l
    <3>1. CASE y \in ToSet(kLru[l])
      BY <1>1, <1>3, <3>1 DEF KlruInv, QueuesHold
    <3>2. CASE l = 0 /\ y = x
      BY <1>1, <3>2
    <3> QED BY <1>5, <2>1, <3>1, <3>2
  <2> QED BY <1>5, <2>1 DEF QueuesHold
<1>8. HitsEarn'
  <2>1. DOMAIN hits' = DOMAIN allObjects'
    BY <1>1 DEF KlruInv, HitsEarn
  <2>2. ASSUME NEW y \in DOMAIN allObjects' PROVE hits'[y] \in Nat /\ allObjects'[y].queueNumber =< hits'[y]
    <3>1. CASE y = x
      BY <1>1, <3>1
    <3>2. CASE y # x
      BY <1>1, <2>1, <2>2, <3>2 DEF KlruInv, HitsEarn
    <3> QED BY <3>1, <3>2
  <2> QED BY <2>1, <2>2 DEF HitsEarn
<1>9. call'.objects = <<>> /\ call'.k \in Klru!Levels /\ ToSet(<<>>) = {}
  BY <1>1, <1>2, NothingInHand
<1>10. CallIsOut(FewKeys, Klru!Levels)'
  <2>1. <<>> \in Seq(FewKeys) /\ IsInjective(<<>>)
    BY DEF IsInjective
  <2> QED BY <1>9, <2>1 DEF CallIsOut
<1>11. QueuesAreDram'
  <2>1. ASSUME NEW l \in Klru!Levels, NEW y \in ToSet(kLru'[l]) PROVE allObjects'[y].isInDram
    <3>1. CASE y \in ToSet(kLru[l])
      BY <1>1, <1>3, <3>1 DEF KlruInv, QueuesHold, QueuesAreDram
    <3>2. CASE y = x
      BY <1>1, <3>2
    <3> QED BY <1>5, <2>1, <3>1, <3>2
  <2> QED BY <1>9, <2>1 DEF QueuesAreDram
<1>12. NewItemIsNew'
  BY <1>1, <1>9 DEF NewItemIsNew
<1> QED BY <1>6, <1>7, <1>8, <1>10, <1>11, <1>12 DEF KlruInv

LEMMA KlruMakesRoom ==
  ASSUME KlruInv, Klru!MakesRoom
  PROVE  /\ call' = call /\ call.objects = <<>> /\ CallIsOut(FewKeys, Klru!Levels)'
         /\ DOMAIN allObjects' \subseteq DOMAIN allObjects => NewItemIsNew'
         /\ (\A l \in Klru!Levels : \A y \in ToSet(kLru'[l]) : allObjects'[y].isInDram)
              => QueuesAreDram'
<1>1. /\ pc = "insert" /\ pc' = pc /\ newItem' = newItem /\ call' = call
  BY DEF Klru!MakesRoom
<1>2. call.objects = <<>> /\ call.k \in Klru!Levels /\ ToSet(<<>>) = {}
  BY <1>1, NothingInHand DEF KlruInv, NewItemIsNew, CallIsOut
<1>3. <<>> \in Seq(FewKeys) /\ IsInjective(<<>>)
  BY DEF IsInjective
<1>4. CallIsOut(FewKeys, Klru!Levels)'
  BY <1>1, <1>2, <1>3 DEF CallIsOut
<1>5. DOMAIN allObjects' \subseteq DOMAIN allObjects => NewItemIsNew'
  BY <1>1, <1>2 DEF KlruInv, NewItemIsNew
<1>6. (\A l \in Klru!Levels : \A y \in ToSet(kLru'[l]) : allObjects'[y].isInDram) => QueuesAreDram'
  BY <1>1, <1>2 DEF QueuesAreDram
<1> QED BY <1>1, <1>2, <1>4, <1>5, <1>6

LEMMA KlruMoveToFlash ==
  ASSUME KlruInv, Klru!MoveToFlash
  PROVE  KlruInv'
<1> DEFINE x == Klru!mfuKid
<1>1. /\ Klru!MakesRoom /\ Klru!LeaveQueue(x) /\ hits' = hits
      /\ allObjects' = [allObjects EXCEPT ![x].isInDram = FALSE]
  BY DEF Klru!MoveToFlash
<1> HIDE DEF x
<1>2. /\ kLru' \in [Klru!Levels -> Seq(FewKeys)]
      /\ \A l \in Klru!Levels : IsInjective(kLru'[l]) /\ ToSet(kLru'[l]) = ToSet(kLru[l]) \ {x}
  BY <1>1, KlruLeaves DEF KlruInv
<1>3. /\ DOMAIN allObjects' = DOMAIN allObjects
      /\ \A y \in DOMAIN allObjects : y # x => allObjects'[y] = allObjects[y]
      /\ x \in DOMAIN allObjects => allObjects'[x] = [allObjects[x] EXCEPT !.isInDram = FALSE]
  BY <1>1
<1>4. ASSUME NEW y \in DOMAIN allObjects
      PROVE  allObjects'[y] \in KlruItems /\ allObjects'[y].queueNumber = allObjects[y].queueNumber
  <2>1. allObjects[y] \in KlruItems
    BY DEF KlruInv
  <2>2. CASE y = x
    BY <1>3, <2>1, <2>2 DEF KlruItems
  <2>3. CASE y # x
    BY <1>3, <2>1, <2>3
  <2> QED BY <2>2, <2>3
<1>5. QueuesHold(FewKeys, Klru!Levels)'
  BY <1>2, <1>3, <1>4 DEF KlruInv, QueuesHold
<1>6. HitsEarn'
  BY <1>1, <1>3, <1>4 DEF KlruInv, HitsEarn
<1>7. \A l \in Klru!Levels : \A y \in ToSet(kLru'[l]) : allObjects'[y].isInDram
  BY <1>2, <1>3 DEF KlruInv, QueuesHold, QueuesAreDram
<1>8. CallIsOut(FewKeys, Klru!Levels)' /\ NewItemIsNew' /\ QueuesAreDram'
  BY <1>1, <1>3, <1>7, KlruMakesRoom
<1> QED BY <1>3, <1>4, <1>5, <1>6, <1>8 DEF KlruInv

LEMMA KlruEvict ==
  ASSUME KlruInv, Klru!EvictGlobalLru
  PROVE  KlruInv'
<1>1. PICK x : Klru!TakeOut(x) /\ Klru!MakesRoom
  BY DEF Klru!EvictGlobalLru
<1>2. call.objects = <<>>
  BY <1>1, KlruMakesRoom
<1>3. /\ \A y \in DOMAIN allObjects' : allObjects'[y] \in KlruItems
      /\ QueuesHold(FewKeys, Klru!Levels)' /\ HitsEarn'
      /\ \A l \in Klru!Levels : \A y \in ToSet(kLru'[l]) : allObjects'[y].isInDram
      /\ DOMAIN allObjects' = DOMAIN allObjects \ {x}
  BY <1>1, <1>2, KlruTakesOut
<1>4. CallIsOut(FewKeys, Klru!Levels)' /\ NewItemIsNew' /\ QueuesAreDram'
  BY <1>1, <1>3, KlruMakesRoom
<1> QED BY <1>3, <1>4 DEF KlruInv

(* One call of dramAddandReorder: what it pops goes one queue down. *)
LEMMA KlruReorderCall ==
  ASSUME KlruInv, Klru!ReorderCall
  PROVE  KlruInv'
<1> DEFINE k == call.k
           pops == Klru!Popped(k, call.sum)
           n == IF k = 0 THEN Len(kLru[k]) ELSE Max(Klru!Stays(k, call.sum))
           popped == Behind(kLru[k], n)
           in == ToSet(call.objects)
<1>1. /\ k # 0 => Klru!Stays(k, call.sum) # {}
      /\ kLru' = [kLru EXCEPT ![k] = Reverse(call.objects) \o SubSeq(@, 1, Len(@) - Len(pops))]
      /\ allObjects' = [x \in DOMAIN allObjects |->
                          IF x \in in THEN [allObjects[x] EXCEPT !.queueNumber = k] ELSE allObjects[x]]
      /\ hits' = hits /\ newItem' = newItem
      /\ \/ pops # <<>> /\ Klru!Reorder(Reverse(pops), Klru!SizeOf(pops), k - 1, TRUE)
         \/ pc' = "ready" /\ call' = Klru!NoCall
  BY KlruTerms DEF Klru!ReorderCall, Klru!AssertionsHold
<1>2. /\ QueuesHold(FewKeys, Klru!Levels) /\ CallIsOut(FewKeys, Klru!Levels) /\ HitsEarn
      /\ k \in Klru!Levels /\ kLru[k] \in Seq(FewKeys) /\ Len(kLru[k]) \in Nat
      /\ kLru \in [Klru!Levels -> Seq(FewKeys)]
  BY DEF KlruInv, CallIsOut, QueuesHold
<1>3. n \in 0 .. Len(kLru[k]) /\ pops = popped /\ (pops # <<>> => k # 0)
  <2>1. CASE k = 0
    <3>1. pops = <<>> /\ n = Len(kLru[k])
      BY <2>1 DEF Klru!Popped
    <3>2. SubSeq(kLru[k], Len(kLru[k]) + 1, Len(kLru[k])) = <<>>
      <4> DEFINE q == kLru[k]
      <4>1. q \in Seq(FewKeys)
        BY <1>2
      <4> HIDE DEF q
      <4>2. Len(q) \in Int /\ Len(q) + 1 \in Int /\ Len(q) < Len(q) + 1
        BY <4>1
      <4>3. SubSeq(q, Len(q) + 1, Len(q)) = <<>>
        BY <4>2, SubSeqEmpty
      <4> QED BY <4>3 DEF q
    <3> HIDE DEF k
    <3> QED BY <1>2, <3>1, <3>2 DEF Behind
  <2>2. CASE k # 0
    <3>1. Klru!Stays(k, call.sum) \in SUBSET (0 .. Len(kLru[k]))
      BY DEF Klru!Stays
    <3>2. n = Max(Klru!Stays(k, call.sum)) /\ n \in 0 .. Len(kLru[k])
      BY <1>1, <1>2, <2>2, <3>1, GreatestElement
    <3>3. pops = SubSeq(kLru[k], Max(Klru!Stays(k, call.sum)) + 1, Len(kLru[k]))
      BY <2>2, KlruTerms DEF Klru!Popped
    <3> QED BY <2>2, <3>2, <3>3 DEF Behind
  <2> QED BY <2>1, <2>2
<1> HIDE DEF n, pops
<1>4. kLru' = [kLru EXCEPT ![k] = Reverse(call.objects) \o Upto(@, n)]
  <2> DEFINE q == kLru[k]
  <2>1. q \in Seq(FewKeys) /\ n \in 0 .. Len(q) /\ Len(q) \in Nat
    BY <1>2, <1>3
  <2> HIDE DEF q
  <2>2. Len(Behind(q, n)) = Len(q) - n
    BY <2>1, SplitAt
  <2>3. Len(q) - Len(pops) = n
    BY <1>3, <2>1, <2>2 DEF q
  <2>4. SubSeq(q, 1, Len(q) - Len(pops)) = Upto(q, n)
    BY <2>3 DEF Upto
  <2> QED BY <1>1, <2>4 DEF q
<1>5. /\ kLru' \in [Klru!Levels -> Seq(FewKeys)]
      /\ \A l \in Klru!Levels : IsInjective(kLru'[l])
      /\ \A l \in Klru!Levels : \A x \in ToSet(kLru'[l]) :
           /\ x \in ToSet(kLru[l]) \/ (l = k /\ x \in in)
           /\ x \notin ToSet(popped)
      /\ Reverse(popped) \in Seq(FewKeys) /\ IsInjective(Reverse(popped))
      /\ ToSet(Reverse(popped)) = ToSet(popped) /\ ToSet(popped) \subseteq ToSet(kLru[k])
  BY <1>2, <1>3, <1>4, CallMoves
<1>6. /\ \A x \in in : x \in DOMAIN allObjects /\ k =< hits[x] /\ allObjects[x].isInDram
      /\ \A l \in Klru!Levels : \A x \in ToSet(kLru[l]) :
            /\ x \notin in /\ x \in DOMAIN allObjects /\ allObjects[x].queueNumber = l
            /\ allObjects[x].isInDram
  BY <1>2 DEF QueuesHold, CallIsOut, KlruInv, QueuesAreDram
<1> HIDE DEF popped, in
<1>7. ASSUME NEW x \in DOMAIN allObjects
      PROVE  /\ allObjects'[x] \in KlruItems /\ allObjects'[x].queueNumber =< hits[x]
             /\ allObjects'[x].isInDram = allObjects[x].isInDram
             /\ x \in in => allObjects'[x].queueNumber = k
             /\ x \notin in => allObjects'[x] = allObjects[x]
  <2>1. allObjects[x] \in KlruItems /\ allObjects[x].queueNumber =< hits[x]
    BY DEF KlruInv, HitsEarn
  <2>2. CASE x \in in
    <3>1. allObjects'[x] = [allObjects[x] EXCEPT !.queueNumber = k]
      BY <1>1, <2>2
    <3>2. /\ allObjects'[x] \in KlruItems /\ allObjects'[x].queueNumber = k
          /\ allObjects'[x].isInDram = allObjects[x].isInDram
      BY <1>2, <2>1, <3>1 DEF KlruItems
    <3> QED BY <1>6, <2>2, <3>2
  <2>3. CASE x \notin in
    BY <1>1, <2>1, <2>3
  <2> QED BY <2>2, <2>3
<1>8. DOMAIN allObjects' = DOMAIN allObjects
  BY <1>1
<1>9. ASSUME NEW l \in Klru!Levels, NEW x \in ToSet(kLru'[l])
      PROVE  x \in DOMAIN allObjects' /\ allObjects'[x].queueNumber = l /\ allObjects'[x].isInDram
  <2>1. CASE x \in ToSet(kLru[l])
    BY <1>6, <1>7, <1>8, <2>1
  <2>2. CASE l = k /\ x \in in
    BY <1>6, <1>7, <1>8, <2>2
  <2> QED BY <1>5, <1>9, <2>1, <2>2
<1>10. QueuesHold(FewKeys, Klru!Levels)'
  BY <1>5, <1>9 DEF QueuesHold
<1>11. HitsEarn'
  <2>1. DOMAIN hits = DOMAIN allObjects /\ \A x \in DOMAIN allObjects : hits[x] \in Nat
    BY <1>2 DEF HitsEarn
  <2> QED BY <1>1, <1>7, <1>8, <2>1 DEF HitsEarn
<1>12. \A x \in DOMAIN allObjects' : allObjects'[x] \in KlruItems
  BY <1>7, <1>8
<1>13. CASE pc' = "ready" /\ call' = Klru!NoCall
  <2>1. call'.objects = <<>> /\ call'.k = 0
    BY <1>13 DEF Klru!NoCall
  <2>2. <<>> \in Seq(FewKeys) /\ ToSet(<<>>) = {} /\ IsInjective(<<>>)
    BY DEF ToSet, IsInjective
  <2>3. CallIsOut(FewKeys, Klru!Levels)'
    BY <2>1, <2>2, KlruTerms DEF CallIsOut
  <2>4. QueuesAreDram' /\ NewItemIsNew'
    BY <1>9, <1>13, <2>1, <2>2 DEF QueuesAreDram, NewItemIsNew
  <2> QED BY <1>10, <1>11, <1>12, <2>3, <2>4 DEF KlruInv
<1>14. CASE pops # <<>> /\ Klru!Reorder(Reverse(pops), Klru!SizeOf(pops), k - 1, TRUE)
  <2>1. pc' = "reorder" /\ call'.objects = Reverse(popped) /\ call'.k = k - 1 /\ k # 0
    BY <1>3, <1>14 DEF Klru!Reorder
  <2>2. call'.k \in Klru!Levels /\ k \in Nat
    BY <1>2, <2>1, KlruTerms
  <2>3. ASSUME NEW x \in ToSet(call'.objects)
        PROVE  /\ x \in DOMAIN allObjects' /\ call'.k =< hits'[x] /\ allObjects'[x].isInDram
               /\ \A l \in Klru!Levels : x \notin ToSet(kLru'[l])
    <3>1. x \in ToSet(popped) /\ x \in ToSet(kLru[k])
      BY <1>5, <2>1, <2>3
    <3>2. /\ x \in DOMAIN allObjects /\ allObjects[x].queueNumber = k /\ k =< hits[x]
          /\ hits[x] \in Nat /\ allObjects[x].isInDram
      BY <1>2, <1>6, <3>1 DEF HitsEarn
    <3>3. k - 1 =< hits[x]
      BY <2>2, <3>2
    <3> QED BY <1>1, <1>5, <1>7, <1>8, <2>1, <3>1, <3>2, <3>3
  <2>4. CallIsOut(FewKeys, Klru!Levels)'
    BY <1>5, <2>1, <2>2, <2>3 DEF CallIsOut
  <2>5. QueuesAreDram' /\ NewItemIsNew'
    BY <1>9, <2>1, <2>3 DEF QueuesAreDram, NewItemIsNew
  <2> QED BY <1>10, <1>11, <1>12, <2>4, <2>5 DEF KlruInv
<1> QED BY <1>1, <1>13, <1>14

LEMMA KlruStep ==
  ASSUME KlruInv, Klru!Next \/ UNCHANGED Klru!vars
  PROVE  KlruInv'
<1>1. ASSUME NEW r \in Klru!Requests, Klru!Proc(r) PROVE KlruInv'
  BY <1>1, KlruHit, KlruMiss DEF Klru!Proc
<1>2. CASE Klru!Insert
  BY <1>2, KlruInsert
<1>3. CASE Klru!MoveToFlash
  BY <1>3, KlruMoveToFlash
<1>4. CASE Klru!EvictGlobalLru
  BY <1>4, KlruEvict
<1>5. CASE Klru!ReorderCall
  BY <1>5, KlruReorderCall
<1>6. ASSUME /\ kLru' = kLru /\ allObjects' = allObjects /\ hits' = hits /\ call' = call
             /\ newItem' = newItem /\ (pc' = pc \/ pc' = "aborted")
      PROVE  KlruInv'
  BY <1>6 DEF KlruInv, QueuesHold, HitsEarn, CallIsOut, QueuesAreDram, NewItemIsNew
<1>7. CASE Klru!Abort
  BY <1>6, <1>7 DEF Klru!Abort, Klru!tierVars, Klru!queueVars
<1>8. CASE UNCHANGED Klru!vars
  BY <1>6, <1>8 DEF Klru!vars, Klru!tierVars, Klru!queueVars
<1> QED BY <1>1, <1>2, <1>3, <1>4, <1>5, <1>7, <1>8 DEF Klru!Next, Klru!Proceed

-------------------------------------------------------------------------------
(* clock.                                                                  *)

LEMMA ClockTerms ==
  /\ \A q, G : Clock!Erase(q, G) = Erase(q, G)
  /\ \A q : Clock!ToSet(q) = ToSet(q)
  /\ \A M : Clock!Min(M) = Min(M)
  /\ CLOCK_MAX_VALUE \in Nat /\ CLOCK_MAX_VALUE # 0
<1>1. \A q, G : Clock!Erase(q, G) = Erase(q, G)
  BY DEF Clock!Erase, Erase
<1>2. \A q : Clock!ToSet(q) = ToSet(q)
  BY DEF Clock!ToSet, ToSet
<1>3. \A M : Clock!Min(M) = Min(M)
  BY DEF Clock!Min, Min
<1>4. CLOCK_MAX_VALUE \in Nat /\ CLOCK_MAX_VALUE # 0
  BY PolicyAssumptions DEF Clock!SizesAssumption
<1> QED BY <1>1, <1>2, <1>3, <1>4

RingEntries == [kid : Keys, ref : Nat]

(* The ring has the cached objects, each once. *)
RingHolds ==
  /\ ring \in Seq(RingEntries)
  /\ \A i, j \in DOMAIN ring : ring[i].kid = ring[j].kid => i = j
  /\ \A i \in DOMAIN ring : ring[i].kid \in DOMAIN behind
  /\ DOMAIN behind = DOMAIN allObjects

(* What had run out of credit when an object was filled, and was not used  *)
(* since, is still without credit; and once the object has lost some of    *)
(* its own, the hand comes to the others first.                            *)
OutOfCreditIsAhead ==
  /\ \A x \in DOMAIN behind : \A z \in behind[x] : \E i \in DOMAIN ring : ring[i].kid = z
  /\ \A i, j \in DOMAIN ring :
       ring[i].kid \in behind[ring[j].kid] =>
         ring[i].ref = 0 /\ i # j /\ (ring[j].ref < CLOCK_MAX_VALUE => i < j)

RequestIsOut ==
  pc = "evict" => req.kid \in Keys /\ \A i \in DOMAIN ring : ring[i].kid # req.kid

ClockInv == RingHolds /\ OutOfCreditIsAhead /\ RequestIsOut

LEMMA ClockInit ==
  ASSUME Clock!Init
  PROVE  ClockInv
<1>1. /\ pc = "ready" /\ ring = <<>> /\ DOMAIN allObjects = {} /\ DOMAIN behind = {}
  BY DEF Clock!Init
<1>2. <<>> \in Seq(RingEntries) /\ DOMAIN <<>> = {}
  OBVIOUS
<1> QED BY <1>1, <1>2 DEF ClockInv, RingHolds, OutOfCreditIsAhead, RequestIsOut

(* Where the place m of a new ring was in the old one, when x is gone. *)
Was(p, g, x) ==
  /\ \A m \in DOMAIN p : g[m] \in DOMAIN ring /\ p[m].kid = ring[g[m]].kid /\ p[m].kid # x
  /\ \A l, m \in DOMAIN p : g[l] = g[m] => l = m
  /\ \A i \in DOMAIN ring : ring[i].kid # x => \E m \in DOMAIN p : g[m] = i

(* What is without credit stays so, and the hand does not pass it. *)
NotPassed(p, g) ==
  \A l, m \in DOMAIN p :
    l # m /\ ring[g[l]].ref = 0 /\ (ring[g[m]].ref < CLOCK_MAX_VALUE => g[l] < g[m])
      => p[l].ref = 0 /\ (p[m].ref < CLOCK_MAX_VALUE => l < m)

(* An object leaves the ring. *)
LEMMA RingLoses ==
  ASSUME RingHolds, OutOfCreditIsAhead, NEW x, NEW g, ring' \in Seq(RingEntries),
         Was(ring', g, x), NotPassed(ring', g),
         behind' = [y \in DOMAIN behind \ {x} |-> behind[y] \ {x}],
         DOMAIN allObjects' = DOMAIN allObjects \ {x}
  PROVE  /\ RingHolds' /\ OutOfCreditIsAhead'
         /\ \A m \in DOMAIN ring' : \E i \in DOMAIN ring : ring'[m].kid = ring[i].kid
         /\ \A m \in DOMAIN ring' : ring'[m].kid # x
<1>1. \A m \in DOMAIN ring' :
        g[m] \in DOMAIN ring /\ ring'[m].kid = ring[g[m]].kid /\ ring'[m].kid # x
  BY DEF Was
<1>2. \A l, m \in DOMAIN ring' : ring'[l].kid = ring'[m].kid => l = m
  BY <1>1 DEF Was, RingHolds
<1>3. /\ \A m \in DOMAIN ring' : ring'[m].kid \in DOMAIN behind'
      /\ DOMAIN behind' = DOMAIN allObjects'
  BY <1>1 DEF RingHolds
<1>4. ASSUME NEW y \in DOMAIN behind', NEW z \in behind'[y]
      PROVE  \E m \in DOMAIN ring' : ring'[m].kid = z
  <2>1. PICK i \in DOMAIN ring : ring[i].kid = z
    BY <1>4 DEF OutOfCreditIsAhead
  <2>2. z # x
    BY <1>4
  <2>3. PICK m \in DOMAIN ring' : g[m] = i
    BY <2>1, <2>2 DEF Was
  <2> QED BY <1>1, <2>1, <2>3
<1>5. ASSUME NEW l \in DOMAIN ring', NEW m \in DOMAIN ring', ring'[l].kid \in behind'[ring'[m].kid]
      PROVE  ring'[l].ref = 0 /\ l # m /\ (ring'[m].ref < CLOCK_MAX_VALUE => l < m)
  <2>1. ring[g[l]].kid \in behind[ring[g[m]].kid]
    BY <1>1, <1>3, <1>5
  <2>2. /\ g[l] \in DOMAIN ring /\ g[m] \in DOMAIN ring
        /\ ring[g[l]].ref = 0 /\ g[l] # g[m] /\ (ring[g[m]].ref < CLOCK_MAX_VALUE => g[l] < g[m])
    BY <1>1, <2>1 DEF OutOfCreditIsAhead
  <2>3. l # m
    BY <2>2
  <2> QED BY <2>2, <2>3 DEF NotPassed
<1>6. RingHolds'
  BY <1>2, <1>3 DEF RingHolds
<1>7. OutOfCreditIsAhead'
  BY <1>4, <1>5 DEF OutOfCreditIsAhead
<1> QED BY <1>1, <1>6, <1>7

LEMMA ClockHit ==
  ASSUME ClockInv, NEW r \in Clock!Requests, Clock!Hit(r), pc = "ready"
  PROVE  ClockInv'
<1> DEFINE x == r.kid
           full == [kid |-> x, ref |-> CLOCK_MAX_VALUE]
<1>1. /\ ring' = [i \in DOMAIN ring |-> IF ring[i].kid = x THEN full ELSE ring[i]]
      /\ allObjects' = allObjects /\ pc' = pc /\ x \in DOMAIN allObjects
  BY DEF Clock!Hit, Clock!IsHit, Clock!Filled, Clock!Entry
<1>2. behind' = [[y \in DOMAIN behind |-> behind[y] \ {x}] EXCEPT ![x] = Clock!Zeros(ring) \ {x}]
  BY DEF Clock!Hit, Clock!Used
<1>3. x \in Keys /\ full \in RingEntries
  BY ClockTerms DEF Clock!Requests, RingEntries
<1>4. \A z : z \in Clock!Zeros(ring) <=> \E i \in DOMAIN ring : ring[i].ref = 0 /\ ring[i].kid = z
  BY DEF Clock!Zeros
<1>5. /\ DOMAIN behind' = DOMAIN behind /\ x \in DOMAIN behind
      /\ \A y \in DOMAIN behind : y # x => behind'[y] = behind[y] \ {x}
      /\ behind'[x] = Clock!Zeros(ring) \ {x}
  BY <1>1, <1>2 DEF ClockInv, RingHolds
<1>6. /\ DOMAIN ring' = DOMAIN ring
      /\ \A i \in DOMAIN ring : /\ ring[i].kid # x => ring'[i] = ring[i]
                                /\ ring[i].kid = x => ring'[i] = full
                                /\ ring'[i].kid = ring[i].kid
  BY <1>1
<1>7. ring' \in Seq(RingEntries)
  <2>1. ring \in Seq(RingEntries) /\ Len(ring) \in Nat /\ DOMAIN ring = 1 .. Len(ring)
    BY DEF ClockInv, RingHolds
  <2>2. \A i \in 1 .. Len(ring) : ring'[i] \in RingEntries
    BY <1>3, <1>6, <2>1
  <2>3. ring' = [i \in 1 .. Len(ring) |-> ring'[i]]
    BY <1>1, <2>1
  <2> QED BY <2>1, <2>2, <2>3
<1>8. RingHolds'
  BY <1>1, <1>5, <1>6, <1>7 DEF ClockInv, RingHolds
<1>9. ASSUME NEW y \in DOMAIN behind', NEW z \in behind'[y]
      PROVE  \E i \in DOMAIN ring' : ring'[i].kid = z
  <2>1. \E i \in DOMAIN ring : ring[i].kid = z
    BY <1>4, <1>5, <1>9 DEF ClockInv, OutOfCreditIsAhead
  <2> QED BY <1>6, <2>1
<1>10. ASSUME NEW i \in DOMAIN ring', NEW j \in DOMAIN ring', ring'[i].kid \in behind'[ring'[j].kid]
       PROVE  ring'[i].ref = 0 /\ i # j /\ (ring'[j].ref < CLOCK_MAX_VALUE => i < j)
  <2>1. /\ i \in DOMAIN ring /\ j \in DOMAIN ring /\ ring'[i].kid = ring[i].kid
        /\ ring'[j].kid = ring[j].kid /\ ring[j].kid \in DOMAIN behind
    BY <1>6 DEF ClockInv, RingHolds
  <2>2. ring[i].kid # x /\ ring'[i] = ring[i]
    BY <1>5, <1>6, <1>10, <2>1
  <2>3. CASE ring[j].kid = x
    <3>1. PICK m \in DOMAIN ring : ring[m].ref = 0 /\ ring[m].kid = ring[i].kid
      BY <1>4, <1>5, <1>10, <2>1, <2>3
    <3>2. m = i
      BY <2>1, <3>1 DEF ClockInv, RingHolds
    <3>3. ring'[j].ref = CLOCK_MAX_VALUE
      BY <1>6, <2>1, <2>3
    <3> QED BY <2>2, <2>3, <3>1, <3>2, <3>3, ClockTerms
  <2>4. CASE ring[j].kid # x
    <3>1. ring'[j] = ring[j] /\ ring[i].kid \in behind[ring[j].kid]
      BY <1>5, <1>6, <1>10, <2>1, <2>4
    <3> QED BY <2>1, <2>2, <3>1 DEF ClockInv, OutOfCreditIsAhead
  <2> QED BY <2>3, <2>4
<1>11. RequestIsOut'
  BY <1>1 DEF RequestIsOut
<1> QED BY <1>8, <1>9, <1>10, <1>11 DEF ClockInv, OutOfCreditIsAhead

LEMMA ClockMiss ==
  ASSUME ClockInv, NEW r \in Clock!Requests, Clock!Miss(r)
  PROVE  ClockInv'
<1> DEFINE x == r.kid
           G == {e \in ToSet(ring) : e.kid = x}
<1>1. /\ ring' = Erase(ring, G) /\ req' = r /\ x \in Keys
      /\ allObjects' = [y \in DOMAIN allObjects \ {x} |-> allObjects[y]]
  BY ClockTerms DEF Clock!Miss, Clock!Drop, Clock!Without, Clock!Requests
<1>2. behind' = [y \in DOMAIN behind \ {x} |-> behind[y] \ {x}]
  BY DEF Clock!Miss, Clock!Without, Clock!Used
<1>3. ring \in Seq(RingEntries) /\ DOMAIN ring = 1 .. Len(ring)
  BY DEF ClockInv, RingHolds
<1>4. \A i \in DOMAIN ring : ring[i] \in G <=> ring[i].kid = x
  BY DEF ToSet
<1> HIDE DEF G, x
<1>5. ring' \in Seq(RingEntries) /\ \E g : IsRest(ring', g, ring, G, Len(ring))
  BY <1>1, <1>3, EraseLeaves
<1>6. PICK g : IsRest(ring', g, ring, G, Len(ring))
  BY <1>5
<1>7. /\ DOMAIN ring' = 1 .. Len(ring') /\ Len(ring') \in Nat
      /\ \A m \in DOMAIN ring' : g[m] \in DOMAIN ring /\ ring'[m] = ring[g[m]] /\ ring[g[m]] \notin G
      /\ \A l, m \in DOMAIN ring' : l < m => g[l] < g[m]
      /\ \A i \in DOMAIN ring : ring[i] \notin G => \E m \in DOMAIN ring' : g[m] = i
  <2>1. DOMAIN ring' = 1 .. Len(ring') /\ Len(ring') \in Nat
    BY <1>5
  <2>2. \A m \in 1 .. Len(ring') :
          g[m] \in DOMAIN ring /\ ring'[m] = ring[g[m]] /\ ring[g[m]] \notin G
    BY <1>3, <1>6 DEF IsRest
  <2>3. \A l, m \in 1 .. Len(ring') : l < m => g[l] < g[m]
    BY <1>6 DEF IsRest
  <2>4. \A i \in DOMAIN ring : ring[i] \notin G => \E m \in 1 .. Len(ring') : g[m] = i
    BY <1>3, <1>6 DEF IsRest
  <2> QED BY ONLY <2>1, <2>2, <2>3, <2>4
<1>8. \A l, m \in DOMAIN ring' : g[l] < g[m] => l < m
  <2>1. ASSUME NEW l \in DOMAIN ring', NEW m \in DOMAIN ring', g[l] < g[m], ~ (l < m) PROVE FALSE
    <3>1. l \in Nat /\ m \in Nat /\ g[l] \in Nat /\ g[m] \in Nat
      BY <1>3, <1>7
    <3>2. l = m \/ m < l
      BY <2>1, <3>1
    <3> QED BY <1>7, <2>1, <3>1, <3>2
  <2> QED BY <2>1
<1>9. Was(ring', g, x)
  <2>1. ASSUME NEW l \in DOMAIN ring', NEW m \in DOMAIN ring', g[l] = g[m] PROVE l = m
    <3>1. l \in Nat /\ m \in Nat /\ g[l] \in Nat
      BY <1>3, <1>7
    <3> QED BY <1>7, <2>1, <3>1
  <2> QED BY <1>4, <1>7, <2>1 DEF Was
<1>10. NotPassed(ring', g)
  BY <1>7, <1>8 DEF NotPassed
<1>11. DOMAIN allObjects' = DOMAIN allObjects \ {x}
  BY <1>1
<1>12. RingHolds' /\ OutOfCreditIsAhead' /\ \A m \in DOMAIN ring' : ring'[m].kid # x
  BY <1>2, <1>5, <1>9, <1>10, <1>11, RingLoses DEF ClockInv
<1>13. RequestIsOut'
  BY <1>1, <1>12 DEF RequestIsOut, x
<1> QED BY <1>12, <1>13 DEF ClockInv

LEMMA FirstPlace ==
  ASSUME NEW n \in Nat, NEW U \in SUBSET (1 .. n), U # {}
  PROVE  Min(U) \in U /\ \A m \in U : Min(U) =< m
<1>1. U \in SUBSET Nat
  OBVIOUS
<1>2. \E m \in U : \A y \in U : m =< y
  BY <1>1, LeastElement
<1> QED BY <1>2 DEF Min

(* The hand evicts what it stops at, and comes to what is behind.          *)
LEMMA HandPasses ==
  ASSUME RingHolds, Clock!EvictOne, NEW n, n = Len(ring), NEW s, s = Clock!Stop,
         Clock!Stops # {}
  PROVE  /\ s \in 1 .. n /\ ring[s].ref = 0 /\ \A i \in 1 .. n : ring[i].ref = 0 => s =< i
         /\ ring' \in Seq(RingEntries) /\ DOMAIN ring' = 1 .. n - 1
         /\ \A m \in 1 .. n - s : ring'[m] = ring[m + s]
         /\ \A m \in n - s + 1 .. n - 1 :
              ring'[m] = [kid |-> ring[m - (n - s)].kid, ref |-> ring[m - (n - s)].ref - 1]
<1>1. ring \in Seq(RingEntries) /\ DOMAIN ring = 1 .. n /\ n \in Nat
  BY DEF RingHolds
<1>2. Clock!Stops \in SUBSET (1 .. n) /\ \A i \in 1 .. n : i \in Clock!Stops <=> ring[i].ref = 0
  BY <1>1 DEF Clock!Stops
<1>3. s = Min(Clock!Stops)
  BY ClockTerms DEF Clock!Stop
<1>4. s \in Clock!Stops /\ \A m \in Clock!Stops : s =< m
  BY <1>1, <1>2, <1>3, FirstPlace
<1>5. s \in 1 .. n /\ ring[s].ref = 0 /\ \A i \in 1 .. n : ring[i].ref = 0 => s =< i
  BY <1>2, <1>4
<1> DEFINE a == Clock!Ahead
           p == Clock!Passed
           b == Clock!Sweep(p)
<1>6. a = SubSeq(ring, s + 1, n) /\ p = SubSeq(ring, 1, s - 1) /\ ring' = a \o b
  BY DEF Clock!EvictOne, Clock!Ahead, Clock!Passed
<1>7. /\ a \in Seq(RingEntries) /\ Len(a) = n - s /\ \A m \in 1 .. n - s : a[m] = ring[m + s]
      /\ p \in Seq(RingEntries) /\ Len(p) = s - 1 /\ \A m \in 1 .. s - 1 : p[m] = ring[m]
  <2> HIDE DEF a, p
  <2>1. s + 1 \in 1 .. n + 1 /\ s - 1 \in 0 .. n /\ s \in Int /\ n \in Int
    BY <1>1, <1>5
  <2>2. /\ a \in Seq(RingEntries) /\ Len(a) = n - s /\ \A m \in 1 .. n - s : a[m] = ring[m + s]
    BY <1>1, <1>5, <1>6, <2>1
  <2>3. /\ p \in Seq(RingEntries) /\ Len(p) = s - 1 /\ \A m \in 1 .. s - 1 : p[m] = ring[m]
    BY <1>1, <1>5, <1>6, <2>1
  <2> QED BY <2>2, <2>3
<1>8. b = [i \in DOMAIN p |-> [kid |-> p[i].kid, ref |-> p[i].ref - 1]]
  BY DEF Clock!Sweep, Clock!Entry
<1> HIDE DEF a, p, b
<1>9. /\ b \in Seq(RingEntries) /\ Len(b) = s - 1
      /\ \A m \in 1 .. s - 1 : b[m] = [kid |-> ring[m].kid, ref |-> ring[m].ref - 1]
  <2>1. DOMAIN p = 1 .. s - 1 /\ s - 1 \in Nat
    BY <1>5, <1>7
  <2>2. \A m \in 1 .. s - 1 : b[m] = [kid |-> ring[m].kid, ref |-> ring[m].ref - 1]
    BY <1>7, <1>8, <2>1
  <2>3. ASSUME NEW m \in 1 .. s - 1 PROVE b[m] \in RingEntries
    <3>1. m \in 1 .. n /\ ~ (s =< m)
      BY <1>1, <1>5
    <3>2. ring[m] \in RingEntries /\ ring[m].ref # 0
      BY <1>1, <1>5, <3>1
    <3>3. ring[m].kid \in Keys /\ ring[m].ref - 1 \in Nat
      BY <3>2 DEF RingEntries
    <3>4. [kid |-> ring[m].kid, ref |-> ring[m].ref - 1] \in RingEntries
      BY <3>3 DEF RingEntries
    <3> QED BY <2>2, <3>4
  <2>4. b = [m \in 1 .. s - 1 |-> b[m]]
    BY <1>8, <2>1
  <2> QED BY <2>1, <2>2, <2>3, <2>4
<1>10. /\ ring' \in Seq(RingEntries) /\ Len(ring') = n - 1
       /\ \A m \in 1 .. n - s : ring'[m] = a[m]
       /\ \A m \in n - s + 1 .. n - 1 : ring'[m] = b[m - (n - s)]
  <2>1. n - s \in Nat /\ s - 1 \in Nat /\ n - s + (s - 1) = n - 1
    BY <1>1, <1>5
  <2> DEFINE u == a \o b
  <2>2. /\ u \in Seq(RingEntries) /\ Len(u) = n - 1
        /\ \A m \in 1 .. n - 1 : u[m] = IF m =< n - s THEN a[m] ELSE b[m - (n - s)]
    BY <1>7, <1>9, <2>1, ConcatProperties
  <2> HIDE DEF u
  <2>3. \A m \in 1 .. n - s : m \in 1 .. n - 1 /\ m =< n - s
    BY <1>1, <1>5
  <2>4. \A m \in n - s + 1 .. n - 1 : m \in 1 .. n - 1 /\ ~ (m =< n - s)
    BY <1>1, <1>5
  <2>5. ring' = u
    BY <1>6 DEF u
  <2> QED BY <2>2, <2>3, <2>4, <2>5
<1>11. DOMAIN ring' = 1 .. n - 1
  BY <1>10
<1>12. \A m \in n - s + 1 .. n - 1 : m - (n - s) \in 1 .. s - 1
  BY <1>1, <1>5
<1>13. \A m \in 1 .. n - s : ring'[m] = ring[m + s]
  BY <1>7, <1>10
<1>14. \A m \in n - s + 1 .. n - 1 :
         ring'[m] = [kid |-> ring[m - (n - s)].kid, ref |-> ring[m - (n - s)].ref - 1]
  BY <1>9, <1>10, <1>12
<1> QED BY ONLY <1>5, <1>10, <1>11, <1>13, <1>14

(* The hand has come round without a zero, and evicts where it started.    *)
LEMMA HandComesRound ==
  ASSUME RingHolds, Clock!EvictOne, NEW n, n = Len(ring), Clock!Stops = {}
  PROVE  /\ Clock!Stop = 1 /\ 1 \in 1 .. n /\ \A i \in 1 .. n : ring[i].ref # 0
         /\ ring' \in Seq(RingEntries) /\ DOMAIN ring' = 1 .. n - 1
         /\ \A m \in 1 .. n - 1 : ring'[m] = [kid |-> ring[m + 1].kid, ref |-> ring[m + 1].ref - 1]
<1>1. ring \in Seq(RingEntries) /\ DOMAIN ring = 1 .. n /\ n \in Nat /\ ring # <<>>
  BY DEF RingHolds, Clock!EvictOne
<1>2. n # 0
  BY <1>1
<1>3. Clock!Stop = 1 /\ \A i \in 1 .. n : ring[i].ref # 0
  BY <1>1 DEF Clock!Stop, Clock!Stops
<1> DEFINE a == Clock!Ahead
<1>4. a = SubSeq(ring, 1 + 1, n) /\ ring' = Clock!Sweep(a)
  BY <1>3 DEF Clock!EvictOne, Clock!Ahead
<1> HIDE DEF a
<1>5. ring' = [i \in DOMAIN a |-> [kid |-> a[i].kid, ref |-> a[i].ref - 1]]
  BY <1>4 DEF Clock!Sweep, Clock!Entry
<1>6. /\ a \in Seq(RingEntries) /\ Len(a) = n - 1 /\ \A m \in 1 .. n - 1 : a[m] = ring[m + 1]
  BY <1>1, <1>2, <1>4
<1>7. DOMAIN a = 1 .. n - 1 /\ n - 1 \in Nat
  BY <1>1, <1>2, <1>6
<1>8. \A m \in 1 .. n - 1 : ring'[m] = [kid |-> ring[m + 1].kid, ref |-> ring[m + 1].ref - 1]
  BY <1>5, <1>6, <1>7
<1>9. ASSUME NEW m \in 1 .. n - 1 PROVE ring'[m] \in RingEntries
  <2>1. m + 1 \in 1 .. n
    BY <1>1
  <2>2. ring[m + 1] \in RingEntries /\ ring[m + 1].ref # 0
    BY <1>1, <1>3, <2>1
  <2>3. ring[m + 1].kid \in Keys /\ ring[m + 1].ref - 1 \in Nat
    BY <2>2 DEF RingEntries
  <2>4. [kid |-> ring[m + 1].kid, ref |-> ring[m + 1].ref - 1] \in RingEntries
    BY <2>3 DEF RingEntries
  <2> QED BY <1>8, <2>4
<1>10. ring' = [m \in 1 .. n - 1 |-> ring'[m]]
  BY <1>5, <1>7
<1>11. ring' \in Seq(RingEntries) /\ DOMAIN ring' = 1 .. n - 1
  BY <1>7, <1>9, <1>10
<1>12. 1 \in 1 .. n
  BY <1>1, <1>2
<1> QED BY <1>3, <1>8, <1>11, <1>12

(* The evicted object outran nobody; and what stays keeps its turn. *)
LEMMA ClockEvictOne ==
  ASSUME ClockInv, Clock!EvictOne
  PROVE  ClockInv' /\ Clock!OutOfCreditFirst
<1> DEFINE n == Len(ring)
           s == Clock!Stop
           x == ring[s].kid
<1>1. /\ pc' = pc /\ req' = req /\ DOMAIN allObjects' = DOMAIN allObjects \ {x}
      /\ behind' = [y \in DOMAIN behind \ {x} |-> behind[y] \ {x}]
  BY DEF Clock!EvictOne, Clock!Without, Clock!Used
<1>2. ring \in Seq(RingEntries) /\ DOMAIN ring = 1 .. n /\ n \in Nat /\ RingHolds
  BY DEF ClockInv, RingHolds
<1> HIDE DEF n, s, x
<1>3. /\ s \in 1 .. n /\ ring' \in Seq(RingEntries)
      /\ \E g : Was(ring', g, x) /\ NotPassed(ring', g)
      /\ \A i \in 1 .. n : ring[i].kid \in behind[x] => FALSE
  <2>1. CASE Clock!Stops # {}
    <3> DEFINE g == [m \in 1 .. n - 1 |-> IF m =< n - s THEN m + s ELSE m - (n - s)]
    <3>1. /\ s \in 1 .. n /\ ring[s].ref = 0 /\ \A i \in 1 .. n : ring[i].ref = 0 => s =< i
          /\ ring' \in Seq(RingEntries) /\ DOMAIN ring' = 1 .. n - 1
          /\ \A m \in 1 .. n - s : ring'[m] = ring[m + s]
          /\ \A m \in n - s + 1 .. n - 1 :
               ring'[m] = [kid |-> ring[m - (n - s)].kid, ref |-> ring[m - (n - s)].ref - 1]
      BY <1>2, <2>1, HandPasses DEF n, s
    <3>2. s \in Nat /\ n \in Nat /\ s =< n /\ s # 0
      BY <1>2, <3>1
    <3>3. ASSUME NEW m \in 1 .. n - 1
          PROVE  /\ m =< n - s => g[m] = m + s /\ g[m] \in s + 1 .. n /\ ring'[m] = ring[g[m]]
                 /\ ~ (m =< n - s) => /\ g[m] = m - (n - s) /\ g[m] \in 1 .. s - 1
                                      /\ ring'[m].kid = ring[g[m]].kid
                 /\ g[m] \in 1 .. n /\ g[m] # s
      <4>1. CASE m =< n - s
        <5>1. g[m] = m + s /\ m + s \in s + 1 .. n /\ m \in 1 .. n - s
          BY <3>2, <4>1
        <5>2. ring'[m] = ring[g[m]] /\ g[m] \in 1 .. n /\ g[m] # s
          BY <3>1, <3>2, <5>1
        <5> QED BY <4>1, <5>1, <5>2
      <4>2. CASE ~ (m =< n - s)
        <5>1. g[m] = m - (n - s) /\ m - (n - s) \in 1 .. s - 1 /\ m \in n - s + 1 .. n - 1
          BY <3>2, <4>2
        <5>2. ring'[m] = [kid |-> ring[m - (n - s)].kid, ref |-> ring[m - (n - s)].ref - 1]
          BY <3>1, <5>1
        <5>3. ring'[m].kid = ring[g[m]].kid
          BY <5>1, <5>2
        <5>4. g[m] \in 1 .. n /\ g[m] # s
          BY <3>2, <5>1
        <5> QED BY <4>2, <5>1, <5>3, <5>4
      <4> QED BY <4>1, <4>2
    <3>4. \A l, m \in 1 .. n - 1 : g[l] = g[m] => l = m
      BY <3>2, <3>3
    <3>5. ASSUME NEW i \in 1 .. n, i # s PROVE \E m \in 1 .. n - 1 : g[m] = i
      <4>1. CASE i < s
        <5> DEFINE m == i + (n - s)
        <5>1. m \in 1 .. n - 1 /\ ~ (m =< n - s) /\ m - (n - s) = i
          BY <3>2, <4>1
        <5> HIDE DEF m
        <5>2. g[m] = i
          BY <5>1
        <5> QED BY <5>1, <5>2
      <4>2. CASE ~ (i < s)
        <5>1. i - s \in 1 .. n - 1 /\ i - s =< n - s /\ i - s + s = i
          BY <3>2, <3>5, <4>2
        <5>2. g[i - s] = i
          BY <5>1
        <5> QED BY <5>1, <5>2
      <4> QED BY <4>1, <4>2
    <3> HIDE DEF g
    <3>6. Was(ring', g, x)
      <4>1. ASSUME NEW m \in 1 .. n - 1
            PROVE g[m] \in 1 .. n /\ ring'[m].kid = ring[g[m]].kid /\ ring'[m].kid # x
        <5>1. g[m] \in 1 .. n /\ ring'[m].kid = ring[g[m]].kid /\ g[m] # s
          BY <3>3
        <5>2. ring[g[m]].kid # x
          BY <1>2, <3>1, <5>1 DEF RingHolds, x
        <5> QED BY <5>1, <5>2
      <4>2. ASSUME NEW i \in 1 .. n, ring[i].kid # x PROVE i # s
        BY <4>2 DEF x
      <4> QED BY <1>2, <3>1, <3>4, <3>5, <4>1, <4>2 DEF Was
    <3>7. NotPassed(ring', g)
      <4>1. ASSUME NEW l \in 1 .. n - 1, NEW m \in 1 .. n - 1, l # m, ring[g[l]].ref = 0,
                   ring[g[m]].ref < CLOCK_MAX_VALUE => g[l] < g[m]
            PROVE  ring'[l].ref = 0 /\ (ring'[m].ref < CLOCK_MAX_VALUE => l < m)
        <5>1. s =< g[l] /\ g[l] \in 1 .. n
          BY <3>1, <3>3, <4>1
        <5>2. l =< n - s /\ g[l] = l + s /\ ring'[l] = ring[g[l]]
          BY <3>2, <3>3, <5>1
        <5>3. CASE m =< n - s
          <6>1. g[m] = m + s /\ ring'[m] = ring[g[m]]
            BY <3>3, <5>3
          <6>2. l + s < m + s => l < m
            BY <3>2
          <6> QED BY <4>1, <5>2, <6>1, <6>2
        <5>4. CASE ~ (m =< n - s)
          <6>1. l < m
            BY <3>2, <5>2, <5>4
          <6> QED BY <4>1, <5>2, <6>1
        <5> QED BY <5>3, <5>4
      <4> QED BY <3>1, <4>1 DEF NotPassed
    <3>8. ASSUME NEW i \in 1 .. n, ring[i].kid \in behind[x] PROVE FALSE
      <4>1. ring[i].ref = 0 /\ (ring[s].ref < CLOCK_MAX_VALUE => i < s)
        BY <1>2, <3>1, <3>8 DEF ClockInv, OutOfCreditIsAhead, x
      <4>2. ring[s].ref < CLOCK_MAX_VALUE
        BY <3>1, ClockTerms
      <4>3. s =< i /\ i < s
        BY <3>1, <4>1, <4>2
      <4> QED BY <3>2, <4>3
    <3> QED BY <3>1, <3>6, <3>7, <3>8
  <2>2. CASE Clock!Stops = {}
    <3> DEFINE g == [m \in 1 .. n - 1 |-> m + 1]
    <3>1. /\ s = 1 /\ 1 \in 1 .. n /\ \A i \in 1 .. n : ring[i].ref # 0
          /\ ring' \in Seq(RingEntries) /\ DOMAIN ring' = 1 .. n - 1
          /\ \A m \in 1 .. n - 1 : ring'[m] = [kid |-> ring[m + 1].kid, ref |-> ring[m + 1].ref - 1]
      BY <1>2, <2>2, HandComesRound DEF n, s
    <3>2. /\ \A m \in 1 .. n - 1 : g[m] = m + 1 /\ g[m] \in 1 .. n /\ g[m] # 1
          /\ \A l, m \in 1 .. n - 1 : g[l] = g[m] => l = m
          /\ \A i \in 1 .. n : i # 1 => i - 1 \in 1 .. n - 1 /\ g[i - 1] = i
      BY <1>2
    <3> HIDE DEF g
    <3>3. Was(ring', g, x)
      <4>1. ASSUME NEW m \in 1 .. n - 1
            PROVE g[m] \in 1 .. n /\ ring'[m].kid = ring[g[m]].kid /\ ring'[m].kid # x
        <5>1. g[m] \in 1 .. n /\ ring'[m].kid = ring[g[m]].kid /\ g[m] # s
          BY <3>1, <3>2
        <5>2. ring[g[m]].kid # x
          BY <1>2, <3>1, <5>1 DEF RingHolds, x
        <5> QED BY <5>1, <5>2
      <4>2. ASSUME NEW i \in 1 .. n, ring[i].kid # x PROVE \E m \in 1 .. n - 1 : g[m] = i
        <5>1. i # 1
          BY <3>1, <4>2 DEF x
        <5> QED BY <3>2, <5>1
      <4> QED BY <1>2, <3>1, <3>2, <4>1, <4>2 DEF Was
    <3>4. NotPassed(ring', g)
      BY <3>1, <3>2 DEF NotPassed
    <3>5. ASSUME NEW i \in 1 .. n, ring[i].kid \in behind[x] PROVE FALSE
      BY <1>2, <3>1, <3>5 DEF ClockInv, OutOfCreditIsAhead, x
    <3> QED BY <3>1, <3>3, <3>4, <3>5
  <2> QED BY <2>1, <2>2
<1>4. PICK g : Was(ring', g, x) /\ NotPassed(ring', g)
  BY <1>3
<1>5. /\ RingHolds' /\ OutOfCreditIsAhead'
      /\ \A m \in DOMAIN ring' : \E i \in DOMAIN ring : ring'[m].kid = ring[i].kid
  BY <1>1, <1>3, <1>4, RingLoses DEF ClockInv
<1>6. RequestIsOut'
  BY <1>1, <1>5 DEF ClockInv, RequestIsOut
<1>7. behind[x] = {}
  <2>1. x \in DOMAIN behind
    BY <1>2, <1>3 DEF RingHolds, x
  <2> QED BY <1>2, <1>3, <2>1 DEF ClockInv, OutOfCreditIsAhead
<1>8. Clock!OutOfCreditFirst
  BY <1>1, <1>7 DEF Clock!OutOfCreditFirst
<1> QED BY <1>5, <1>6, <1>8 DEF ClockInv

(* The new object comes last, and what has no credit is ahead of it. *)
LEMMA ClockInsert ==
  ASSUME ClockInv, Clock!Insert
  PROVE  ClockInv' /\ Clock!OutOfCreditFirst
<1> DEFINE x == req.kid
           n == Len(ring)
           e == [kid |-> x, ref |-> IF firstEviction THEN CLOCK_MAX_VALUE ELSE 0]
<1>1. /\ pc = "evict" /\ pc' = "ready" /\ ring' = Append(ring, e)
      /\ DOMAIN allObjects' = DOMAIN allObjects \union {x}
  BY DEF Clock!Insert, Clock!Entry
<1>2. behind' = [y \in DOMAIN behind \union {x} |->
                   IF y # x THEN behind[y] ELSE IF firstEviction THEN Clock!Zeros(ring) ELSE {}]
  BY DEF Clock!Insert
<1>3. \A z : z \in Clock!Zeros(ring) <=> \E i \in DOMAIN ring : ring[i].ref = 0 /\ ring[i].kid = z
  BY DEF Clock!Zeros
<1>4. /\ ring \in Seq(RingEntries) /\ DOMAIN ring = 1 .. n /\ n \in Nat
      /\ x \in Keys /\ \A i \in 1 .. n : ring[i].kid # x
  BY <1>1 DEF ClockInv, RingHolds, RequestIsOut
<1>5. e \in RingEntries /\ e.kid = x /\ (firstEviction => e.ref = CLOCK_MAX_VALUE)
  BY <1>4, ClockTerms DEF RingEntries
<1>6. Clock!OutOfCreditFirst
  BY <1>1 DEF Clock!OutOfCreditFirst
<1> HIDE DEF e, x, n
<1>7. /\ ring' \in Seq(RingEntries) /\ DOMAIN ring' = 1 .. n + 1 /\ ring'[n + 1] = e
      /\ \A i \in 1 .. n : ring'[i] = ring[i]
  BY <1>1, <1>4, <1>5 DEF n
<1>8. \A i \in 1 .. n + 1 : i \in 1 .. n \/ i = n + 1
  BY <1>4
<1>9. RingHolds'
  <2>1. \A i, j \in DOMAIN ring' : ring'[i].kid = ring'[j].kid => i = j
    BY <1>4, <1>5, <1>7, <1>8 DEF ClockInv, RingHolds
  <2>2. \A i \in DOMAIN ring' : ring'[i].kid \in DOMAIN behind'
    BY <1>2, <1>4, <1>5, <1>7, <1>8 DEF ClockInv, RingHolds
  <2>3. DOMAIN behind' = DOMAIN allObjects'
    BY <1>1, <1>2 DEF ClockInv, RingHolds
  <2> QED BY <1>7, <2>1, <2>2, <2>3 DEF RingHolds
<1>10. ASSUME NEW y \in DOMAIN behind', NEW z \in behind'[y]
       PROVE  \E i \in 1 .. n : ring[i].kid = z
  <2>1. CASE y = x
    BY <1>2, <1>3, <1>4, <1>10, <2>1
  <2>2. CASE y # x
    BY <1>2, <1>4, <1>10, <2>2 DEF ClockInv, OutOfCreditIsAhead
  <2> QED BY <2>1, <2>2
<1>11. ASSUME NEW i \in DOMAIN ring', NEW j \in DOMAIN ring', ring'[i].kid \in behind'[ring'[j].kid]
       PROVE  ring'[i].ref = 0 /\ i # j /\ (ring'[j].ref < CLOCK_MAX_VALUE => i < j)
  <2>1. ring'[j].kid \in DOMAIN behind'
    BY <1>9 DEF RingHolds
  <2>2. PICK m \in 1 .. n : ring[m].kid = ring'[i].kid
    BY <1>10, <1>11, <2>1
  <2>3. i \in 1 .. n /\ ring'[i] = ring[i]
    BY <1>4, <1>5, <1>7, <1>8, <2>2
  <2>4. CASE j \in 1 .. n
    <3>1. ring'[j] = ring[j] /\ ring[j].kid # x /\ ring[j].kid \in DOMAIN behind
      BY <1>4, <1>7, <2>4 DEF ClockInv, RingHolds
    <3>2. ring[i].kid \in behind[ring[j].kid]
      BY <1>2, <1>11, <2>3, <3>1
    <3> QED BY <1>4, <2>3, <2>4, <3>1, <3>2 DEF ClockInv, OutOfCreditIsAhead
  <2>5. CASE j = n + 1
    <3>1. ring'[j].kid = x /\ ring'[j] = e
      BY <1>5, <1>7, <2>5
    <3>2. firstEviction /\ ring[i].kid \in Clock!Zeros(ring)
      BY <1>2, <1>11, <2>3, <3>1
    <3>3. ring[i].ref = 0
      BY <1>3, <1>4, <2>3, <3>2 DEF ClockInv, RingHolds
    <3>4. ring'[j].ref = CLOCK_MAX_VALUE /\ i # j
      BY <1>4, <1>5, <2>3, <2>5, <3>1, <3>2
    <3> QED BY <2>3, <3>3, <3>4, ClockTerms
  <2> QED BY <1>7, <1>8, <2>4, <2>5
<1>12. OutOfCreditIsAhead'
  <2>1. \A y \in DOMAIN behind' : \A z \in behind'[y] : \E i \in DOMAIN ring' : ring'[i].kid = z
    BY <1>4, <1>7, <1>8, <1>10
  <2> QED BY <1>11, <2>1 DEF OutOfCreditIsAhead
<1>13. RequestIsOut'
  BY <1>1 DEF RequestIsOut
<1> QED BY <1>6, <1>9, <1>12, <1>13 DEF ClockInv

LEMMA ClockStep ==
  ASSUME ClockInv, Clock!Next \/ UNCHANGED Clock!vars
  PROVE  ClockInv'
<1>1. ASSUME NEW r \in Clock!Requests, Clock!Proc(r) PROVE ClockInv'
  BY <1>1, ClockHit, ClockMiss DEF Clock!Proc
<1>2. CASE Clock!Proceed
  BY <1>2, ClockEvictOne, ClockInsert DEF Clock!Proceed
<1>3. CASE UNCHANGED Clock!vars
  BY <1>3 DEF Clock!vars, ClockInv, RingHolds, OutOfCreditIsAhead, RequestIsOut
<1> QED BY <1>1, <1>2, <1>3 DEF Clock!Next

LEMMA UsedGoLast ==
  ASSUME ClockInv, Clock!Proceed
  PROVE  Clock!OutOfCreditFirst
BY ClockEvictOne, ClockInsert DEF Clock!Proceed

-------------------------------------------------------------------------------
(* flashcache.                                                             *)

(* Erasing what a queue does not have, and the same elements under two     *)
(* names.                                                                  *)
LEMMA NothingToErase ==
  ASSUME NEW X, NEW s \in Seq(X), IsInjective(s), NEW G, ToSet(s) \intersect G = {}
  PROVE  Erase(s, G) = s
<1> DEFINE t == Erase(s, G)
<1>1. t \in Seq(X) /\ IsInjective(t) /\ ToSet(t) = ToSet(s)
  <2>1. t \in Seq(X) /\ IsInjective(t) /\ ToSet(t) = ToSet(s) \ G
    BY EraseSet, EraseDistinct
  <2> QED BY <2>1
<1>2. ASSUME NEW x, NEW y, Before(t, x, y) PROVE Before(s, x, y)
  <2> HIDE DEF t
  <2>1. x \in ToSet(t) /\ y \in ToSet(t)
    BY <1>1, <1>2, BeforeIsOrder
  <2>2. x \notin G /\ y \notin G
    BY <1>1, <2>1
  <2> QED BY <1>2, <2>2, EraseOrder DEF t
<1> HIDE DEF t
<1>3. t = s
  BY <1>1, <1>2, SameOrder
<1> QED BY <1>3 DEF t

LEMMA ErasedAlike ==
  ASSUME NEW X, NEW s \in Seq(X), IsInjective(s), NEW G, NEW H,
         ToSet(s) \intersect G = ToSet(s) \intersect H
  PROVE  Erase(s, G) = Erase(s, H)
<1> DEFINE t == Erase(s, G)
           u == Erase(s, H)
<1>1. /\ t \in Seq(X) /\ IsInjective(t) /\ ToSet(t) = ToSet(s) \ G
      /\ u \in Seq(X) /\ IsInjective(u) /\ ToSet(u) = ToSet(s) \ H
  BY EraseSet, EraseDistinct
<1>2. ToSet(t) = ToSet(u)
  BY <1>1
<1>3. ASSUME NEW x, NEW y, Before(t, x, y) PROVE Before(u, x, y)
  <2> HIDE DEF t, u
  <2>1. x \in ToSet(t) /\ y \in ToSet(t)
    BY <1>1, <1>3, BeforeIsOrder
  <2>2. x \notin G /\ y \notin G /\ x \notin H /\ y \notin H
    BY <1>1, <1>2, <2>1
  <2>3. Before(s, x, y)
    BY <1>3, <2>2, EraseOrder DEF t
  <2> QED BY <2>2, <2>3, EraseOrder DEF u
<1> HIDE DEF t, u
<1>4. t = u
  BY <1>1, <1>2, <1>3, SameOrder
<1> QED BY <1>4 DEF t, u

LEMMA FlashTerms ==
  /\ \A q, G : Flash!Erase(q, G) = Erase(q, G) /\ Flash!Keep(q, G) = Keep(q, G)
  /\ \A q : Flash!ToSet(q) = ToSet(q) /\ Flash!Last(q) = Last(q)
  /\ \A M : Flash!Max(M) = Max(M)
  /\ \A q, k : Flash!ToFront(q, k) = ToFront(q, k) /\ Flash!Drop(q, k) = Erase(q, {k})
  /\ \A f, S : Flash!SumFunctionOnSet(f, S) = SumFunctionOnSet(f, S)
  /\ DRAM_SIZE \in Nat /\ UpTo(DRAM_SIZE) \subseteq 1 .. DRAM_SIZE
<1>1. \A q, G : Flash!Erase(q, G) = Erase(q, G)
  BY DEF Flash!Erase, Erase
<1>2. \A q : Flash!ToSet(q) = ToSet(q) /\ Flash!Last(q) = Last(q)
  BY DEF Flash!ToSet, ToSet, Flash!Last, Last
<1>3. \A M : Flash!Max(M) = Max(M)
  BY DEF Flash!Max, Max
<1>4. \A q, G : Flash!Keep(q, G) = Keep(q, G)
  BY <1>1, <1>2 DEF Flash!Keep, Keep
<1>5. \A q, k : Flash!ToFront(q, k) = ToFront(q, k) /\ Flash!Drop(q, k) = Erase(q, {k})
  BY <1>1 DEF Flash!ToFront, ToFront, Flash!Drop
<1>6. \A f, S : Flash!SumFunctionOnSet(f, S) = SumFunctionOnSet(f, S)
  BY DEF Flash!SumFunctionOnSet, SumFunctionOnSet, Flash!FoldFunctionOnSet, FoldFunctionOnSet,
         Flash!MapThenFoldSet, MapThenFoldSet
<1>7. DRAM_SIZE \in Nat /\ UpTo(DRAM_SIZE) \subseteq 1 .. DRAM_SIZE
  BY PolicyAssumptions DEF Flash!TiersAssumption
<1> QED BY <1>1, <1>2, <1>3, <1>4, <1>5, <1>6, <1>7

FlashItems == [size : UpTo(DRAM_SIZE), isInDram : BOOLEAN]
DramKeys   == {k \in DOMAIN allObjects : allObjects[k].isInDram}

(* The list of all objects is in the order of their last use, and so is    *)
(* the list of those in DRAM.                                              *)
ListsAreRecency ==
  /\ recency \in Seq(FewKeys) /\ IsInjective(recency) /\ globalLru = recency
  /\ ToSet(recency) = DOMAIN allObjects
  /\ dramLru \in Seq(FewKeys) /\ IsInjective(dramLru) /\ ToSet(dramLru) = DramKeys
  /\ \A x, y : Before(dramLru, x, y) => Before(recency, x, y)

FlashInv ==
  /\ \A k \in DOMAIN allObjects : allObjects[k] \in FlashItems
  /\ ListsAreRecency
  /\ pc = "insert" => /\ newItem.kid \in FewKeys /\ newItem.size \in UpTo(DRAM_SIZE)
                      /\ newItem.kid \notin DOMAIN allObjects

LEMMA FlashInit ==
  ASSUME Flash!Init
  PROVE  FlashInv
<1>1. /\ pc = "ready" /\ recency = <<>> /\ globalLru = <<>> /\ dramLru = <<>>
      /\ DOMAIN allObjects = {}
  BY DEF Flash!Init
<1>2. <<>> \in Seq(FewKeys) /\ DOMAIN <<>> = {}
  OBVIOUS
<1>3. ToSet(<<>>) = {} /\ IsInjective(<<>>) /\ \A x, y : ~ Before(<<>>, x, y)
  BY <1>2 DEF ToSet, IsInjective, Before
<1> QED BY <1>1, <1>2, <1>3 DEF FlashInv, ListsAreRecency, DramKeys

LEMMA FlashHit ==
  ASSUME FlashInv, NEW r \in Flash!Requests, Flash!Hit(r), pc = "ready"
  PROVE  FlashInv'
<1> DEFINE k == r.kid
<1>1. /\ k \in DOMAIN allObjects /\ allObjects' = allObjects /\ pc' = pc
      /\ globalLru' = ToFront(globalLru, k) /\ recency' = ToFront(recency, k)
  BY FlashTerms DEF Flash!Hit, Flash!IsHit, Flash!Renew
<1>2. dramLru' = IF allObjects[k].isInDram THEN ToFront(dramLru, k) ELSE dramLru
  BY FlashTerms DEF Flash!Hit, Flash!Renew
<1>3. k \in FewKeys
  BY DEF Flash!Requests
<1> HIDE DEF k
<1>4. /\ recency \in Seq(FewKeys) /\ IsInjective(recency) /\ globalLru = recency
      /\ ToSet(recency) = DOMAIN allObjects
      /\ dramLru \in Seq(FewKeys) /\ IsInjective(dramLru) /\ ToSet(dramLru) = DramKeys
      /\ \A x, y : Before(dramLru, x, y) => Before(recency, x, y)
  BY DEF FlashInv, ListsAreRecency
<1>5. /\ recency' \in Seq(FewKeys) /\ ToSet(recency') = {k} \union ToSet(recency)
      /\ IsInjective(recency')
      /\ \A y, z : y # k /\ z # k => (Before(recency', y, z) <=> Before(recency, y, z))
      /\ \A y \in ToSet(recency) \ {k} : Before(recency', k, y)
  BY <1>1, <1>3, <1>4, MoveToFront
<1>6. DramKeys' = DramKeys
  BY <1>1 DEF DramKeys
<1>7. CASE allObjects[k].isInDram
  <2>1. /\ dramLru' \in Seq(FewKeys) /\ ToSet(dramLru') = {k} \union ToSet(dramLru)
        /\ IsInjective(dramLru')
        /\ \A y, z : y # k /\ z # k => (Before(dramLru', y, z) <=> Before(dramLru, y, z))
        /\ \A y \in ToSet(dramLru) \ {k} : Before(dramLru', k, y)
    BY <1>2, <1>3, <1>4, <1>7, MoveToFront
  <2>2. ToSet(dramLru') = DramKeys'
    BY <1>1, <1>4, <1>6, <1>7, <2>1 DEF DramKeys
  <2>3. ASSUME NEW x, NEW y, Before(dramLru', x, y) PROVE Before(recency', x, y)
    <3>1. /\ x \in ToSet(dramLru') /\ y \in ToSet(dramLru') /\ x # y /\ ~ Before(dramLru', y, x)
      BY <2>1, <2>3, BeforeIsOrder
    <3>2. CASE x = k
      <4>1. y \in ToSet(recency) \ {k}
        BY <1>4, <1>6, <2>2, <3>1, <3>2 DEF DramKeys
      <4> QED BY <1>5, <3>2, <4>1
    <3>3. y # k
      BY <2>1, <3>1
    <3>4. CASE x # k
      BY <1>4, <1>5, <2>1, <2>3, <3>3, <3>4
    <3> QED BY <3>2, <3>4
  <2>4. ListsAreRecency'
    BY <1>1, <1>4, <1>5, <2>1, <2>2, <2>3 DEF ListsAreRecency
  <2> QED BY <1>1, <2>4 DEF FlashInv
<1>8. CASE ~ allObjects[k].isInDram
  <2>1. dramLru' = dramLru /\ k \notin ToSet(dramLru)
    BY <1>2, <1>4, <1>8 DEF DramKeys
  <2>2. ASSUME NEW x, NEW y, Before(dramLru, x, y) PROVE Before(recency', x, y)
    <3>1. x \in ToSet(dramLru) /\ y \in ToSet(dramLru)
      BY <1>4, <2>2, BeforeIsOrder
    <3>2. x # k /\ y # k
      BY <2>1, <3>1
    <3> QED BY <1>4, <1>5, <2>2, <3>2
  <2>3. ListsAreRecency'
    BY <1>1, <1>4, <1>5, <1>6, <2>1, <2>2 DEF ListsAreRecency
  <2> QED BY <1>1, <2>3 DEF FlashInv
<1> QED BY <1>7, <1>8

(* The objects of G leave the cache. *)
LEMMA FlashLoses ==
  ASSUME FlashInv, NEW G, recency' = Erase(recency, G), globalLru' = recency',
         allObjects' = [x \in DOMAIN allObjects \ G |-> allObjects[x]],
         dramLru' = Erase(dramLru, G) \/ (dramLru' = dramLru /\ ToSet(dramLru) \intersect G = {})
  PROVE  ListsAreRecency' /\ \A x \in DOMAIN allObjects' : allObjects'[x] \in FlashItems
<1>1. /\ recency \in Seq(FewKeys) /\ IsInjective(recency)
      /\ ToSet(recency) = DOMAIN allObjects
      /\ dramLru \in Seq(FewKeys) /\ IsInjective(dramLru) /\ ToSet(dramLru) = DramKeys
      /\ \A x, y : Before(dramLru, x, y) => Before(recency, x, y)
  BY DEF FlashInv, ListsAreRecency
<1>2. dramLru' = Erase(dramLru, G)
  BY <1>1, NothingToErase
<1>3. /\ recency' \in Seq(FewKeys) /\ IsInjective(recency') /\ ToSet(recency') = ToSet(recency) \ G
      /\ dramLru' \in Seq(FewKeys) /\ IsInjective(dramLru') /\ ToSet(dramLru') = ToSet(dramLru) \ G
  BY <1>1, <1>2, EraseSet, EraseDistinct
<1>4. DOMAIN allObjects' = DOMAIN allObjects \ G /\ DramKeys' = DramKeys \ G
  BY DEF DramKeys
<1>5. ASSUME NEW x, NEW y, Before(dramLru', x, y) PROVE Before(recency', x, y)
  <2>1. x \in ToSet(dramLru') /\ y \in ToSet(dramLru')
    BY <1>3, <1>5, BeforeIsOrder
  <2>2. x \notin G /\ y \notin G
    BY <1>3, <2>1
  <2>3. Before(dramLru, x, y)
    BY <1>1, <1>2, <1>5, <2>2, EraseOrder
  <2> QED BY <1>1, <2>2, <2>3, EraseOrder
<1>6. ListsAreRecency'
  BY <1>1, <1>3, <1>4, <1>5 DEF ListsAreRecency
<1> QED BY <1>6 DEF FlashInv

LEMMA FlashTakesOut ==
  ASSUME FlashInv, NEW k, Flash!TakeOut(k), recency' = Erase(recency, {k})
  PROVE  /\ ListsAreRecency' /\ DOMAIN allObjects' = DOMAIN allObjects \ {k}
         /\ \A x \in DOMAIN allObjects' : allObjects'[x] \in FlashItems
<1>1. /\ globalLru' = Erase(globalLru, {k})
      /\ allObjects' = [x \in DOMAIN allObjects \ {k} |-> allObjects[x]]
  BY FlashTerms DEF Flash!TakeOut, Flash!Unbind
<1>2. dramLru' = IF allObjects[k].isInDram THEN Erase(dramLru, {k}) ELSE dramLru
  BY FlashTerms DEF Flash!TakeOut
<1>3. globalLru' = recency'
  BY <1>1 DEF FlashInv, ListsAreRecency
<1>4. ~ allObjects[k].isInDram => ToSet(dramLru) \intersect {k} = {}
  BY DEF FlashInv, ListsAreRecency, DramKeys
<1>5. dramLru' = Erase(dramLru, {k}) \/ (dramLru' = dramLru /\ ToSet(dramLru) \intersect {k} = {})
  BY <1>2, <1>4
<1> QED BY <1>1, <1>3, <1>5, FlashLoses

LEMMA FlashMiss ==
  ASSUME FlashInv, NEW r \in Flash!Requests, Flash!Miss(r)
  PROVE  FlashInv'
<1> DEFINE k == r.kid
<1>1. /\ newItem'.kid = k /\ newItem'.size = r.size /\ recency' = Erase(recency, {k})
      /\ k \in FewKeys /\ r.size \in UpTo(DRAM_SIZE)
  BY FlashTerms DEF Flash!Miss, Flash!Requests
<1>2. CASE k \in DOMAIN allObjects
  <2>1. Flash!TakeOut(k)
    BY <1>2 DEF Flash!Miss
  <2> HIDE DEF k
  <2>2. /\ ListsAreRecency' /\ DOMAIN allObjects' = DOMAIN allObjects \ {k}
        /\ \A x \in DOMAIN allObjects' : allObjects'[x] \in FlashItems
    BY <1>1, <2>1, FlashTakesOut
  <2> QED BY <1>1, <2>2 DEF FlashInv
<1>3. CASE k \notin DOMAIN allObjects
  <2>1. globalLru' = globalLru /\ dramLru' = dramLru /\ allObjects' = allObjects
    BY <1>3 DEF Flash!Miss, Flash!tierVars
  <2>2. recency' = recency
    <3>1. recency \in Seq(FewKeys) /\ IsInjective(recency) /\ ToSet(recency) \intersect {k} = {}
      BY <1>3 DEF FlashInv, ListsAreRecency
    <3> HIDE DEF k
    <3> QED BY <1>1, <3>1, NothingToErase
  <2>3. ListsAreRecency'
    BY <2>1, <2>2 DEF FlashInv, ListsAreRecency, DramKeys
  <2> QED BY <1>1, <1>3, <2>1, <2>3 DEF FlashInv
<1> QED BY <1>2, <1>3

LEMMA FlashInsert ==
  ASSUME FlashInv, Flash!Insert
  PROVE  FlashInv' /\ Flash!EvictsOldest
<1> DEFINE k == newItem.kid
<1>1. /\ pc = "insert" /\ pc' = "ready" /\ dramLru' = <<k>> \o dramLru
      /\ globalLru' = <<k>> \o globalLru /\ recency' = <<k>> \o recency
      /\ DOMAIN allObjects' = DOMAIN allObjects \union {k}
      /\ allObjects'[k] = [size |-> newItem.size, isInDram |-> TRUE]
      /\ \A x \in DOMAIN allObjects : x # k => allObjects'[x] = allObjects[x]
  BY DEF Flash!Insert, Flash!Bind
<1>2. k \in FewKeys /\ newItem.size \in UpTo(DRAM_SIZE) /\ k \notin DOMAIN allObjects
  BY <1>1 DEF FlashInv
<1>3. [size |-> newItem.size, isInDram |-> TRUE] \in FlashItems
  BY <1>2 DEF FlashItems
<1>4. Flash!EvictsOldest
  BY <1>1 DEF Flash!EvictsOldest
<1> HIDE DEF k
<1>5. /\ recency \in Seq(FewKeys) /\ IsInjective(recency) /\ globalLru = recency
      /\ ToSet(recency) = DOMAIN allObjects
      /\ dramLru \in Seq(FewKeys) /\ IsInjective(dramLru) /\ ToSet(dramLru) = DramKeys
      /\ \A x, y : Before(dramLru, x, y) => Before(recency, x, y)
      /\ k \notin ToSet(recency) /\ k \notin ToSet(dramLru) /\ ToSet(dramLru) \subseteq ToSet(recency)
  BY <1>2 DEF FlashInv, ListsAreRecency, DramKeys
<1>6. /\ recency' \in Seq(FewKeys) /\ ToSet(recency') = {k} \union ToSet(recency)
      /\ IsInjective(recency')
      /\ \A y, z : Before(recency', y, z) <=> (y = k /\ z \in ToSet(recency)) \/ Before(recency, y, z)
  BY <1>1, <1>2, <1>5, PushFront
<1>7. /\ dramLru' \in Seq(FewKeys) /\ ToSet(dramLru') = {k} \union ToSet(dramLru)
      /\ IsInjective(dramLru')
      /\ \A y, z : Before(dramLru', y, z) <=> (y = k /\ z \in ToSet(dramLru)) \/ Before(dramLru, y, z)
  BY <1>1, <1>2, <1>5, PushFront
<1>8. DramKeys' = {k} \union DramKeys
  BY <1>1, <1>2 DEF DramKeys
<1>9. ListsAreRecency'
  BY <1>1, <1>5, <1>6, <1>7, <1>8 DEF ListsAreRecency
<1>10. \A x \in DOMAIN allObjects' : allObjects'[x] \in FlashItems
  BY <1>1, <1>3 DEF FlashInv
<1> QED BY <1>1, <1>4, <1>9, <1>10 DEF FlashInv

LEMMA FlashMoveToFlash ==
  ASSUME FlashInv, Flash!MoveToFlash
  PROVE  FlashInv' /\ Flash!EvictsOldest
<1> DEFINE k == Flash!mfuKid
<1>1. /\ pc' = pc /\ newItem' = newItem /\ globalLru' = globalLru /\ recency' = recency
      /\ dramLru' = Erase(dramLru, {k})
      /\ allObjects' = [allObjects EXCEPT ![k].isInDram = FALSE]
  BY FlashTerms DEF Flash!MoveToFlash, Flash!MakesRoom
<1> HIDE DEF k
<1>2. /\ DOMAIN allObjects' = DOMAIN allObjects
      /\ \A x \in DOMAIN allObjects : x # k => allObjects'[x] = allObjects[x]
      /\ k \in DOMAIN allObjects => allObjects'[k] = [allObjects[k] EXCEPT !.isInDram = FALSE]
  BY <1>1
<1>3. Flash!EvictsOldest
  BY <1>2 DEF Flash!EvictsOldest
<1>4. ASSUME NEW x \in DOMAIN allObjects
      PROVE  allObjects'[x] \in FlashItems /\ (x = k => ~ allObjects'[x].isInDram)
  <2>1. allObjects[x] \in FlashItems
    BY DEF FlashInv
  <2>2. CASE x = k
    <3>1. allObjects'[x] = [allObjects[x] EXCEPT !.isInDram = FALSE]
      BY <1>2, <2>2
    <3> QED BY <2>1, <3>1 DEF FlashItems
  <2>3. CASE x # k
    BY <1>2, <2>1, <2>3
  <2> QED BY <2>2, <2>3
<1>5. DramKeys' = DramKeys \ {k}
  BY <1>2, <1>4 DEF DramKeys
<1>6. /\ recency \in Seq(FewKeys) /\ IsInjective(recency) /\ globalLru = recency
      /\ ToSet(recency) = DOMAIN allObjects
      /\ dramLru \in Seq(FewKeys) /\ IsInjective(dramLru) /\ ToSet(dramLru) = DramKeys
      /\ \A x, y : Before(dramLru, x, y) => Before(recency, x, y)
  BY DEF FlashInv, ListsAreRecency
<1>7. /\ dramLru' \in Seq(FewKeys) /\ IsInjective(dramLru') /\ ToSet(dramLru') = ToSet(dramLru) \ {k}
      /\ \A x, y : Before(dramLru', x, y) => Before(dramLru, x, y)
  BY <1>1, <1>6, WithoutOne
<1>8. ListsAreRecency'
  BY <1>1, <1>2, <1>5, <1>6, <1>7 DEF ListsAreRecency
<1> QED BY <1>1, <1>2, <1>3, <1>4, <1>8 DEF FlashInv

LEMMA FlashEvictGlobal ==
  ASSUME FlashInv, Flash!EvictGlobalLru
  PROVE  FlashInv' /\ Flash!EvictsOldest
<1> DEFINE k == Last(recency)
           n == Len(recency)
           G == ToSet(recency) \ DOMAIN allObjects'
<1>1. /\ recency \in Seq(FewKeys) /\ IsInjective(recency) /\ globalLru = recency
      /\ ToSet(recency) = DOMAIN allObjects /\ DOMAIN recency = 1 .. n /\ n \in Nat
  BY DEF FlashInv, ListsAreRecency
<1>2. /\ pc' = pc /\ newItem' = newItem /\ Flash!TakeOut(k) /\ recency' = Erase(recency, G)
  BY <1>1, FlashTerms DEF Flash!EvictGlobalLru, Flash!MakesRoom, Flash!StillCached, Keep
<1>3. DOMAIN allObjects' = DOMAIN allObjects \ {k}
  BY <1>2 DEF Flash!TakeOut, Flash!Unbind
<1>4. ToSet(recency) \intersect G = ToSet(recency) \intersect {k}
  BY <1>1, <1>3
<1> HIDE DEF G
<1>5. recency' = Erase(recency, {k})
  BY <1>1, <1>2, <1>4, ErasedAlike
<1>6. /\ ListsAreRecency' /\ \A x \in DOMAIN allObjects' : allObjects'[x] \in FlashItems
  <2> HIDE DEF k
  <2> QED BY <1>2, <1>5, FlashTakesOut
<1>7. FlashInv'
  BY <1>2, <1>3, <1>6 DEF FlashInv
<1>8. ASSUME NEW x \in DOMAIN allObjects \ DOMAIN allObjects',
             NEW i \in DOMAIN recency, NEW j \in DOMAIN recency, recency[i] = x
      PROVE  j =< i
  <2>1. x = k /\ n # 0
    BY <1>1, <1>3, <1>8
  <2>2. recency[n] = x /\ n \in DOMAIN recency
    BY <1>1, <2>1 DEF Last
  <2>3. i = n
    BY <1>1, <1>8, <2>2 DEF IsInjective
  <2> QED BY <1>1, <2>3
<1>9. Flash!EvictsOldest
  BY <1>8 DEF Flash!EvictsOldest, Flash!Oldest
<1> QED BY <1>7, <1>9

(* How much of dramLru leaves room for the new object. *)
StaysInDram == Max({n \in 0 .. Len(dramLru) :
                      newItem.size + Flash!SizeOf(SubSeq(dramLru, 1, n)) =< DRAM_SIZE})

LEMMA DramStays ==
  ASSUME FlashInv, pc = "insert"
  PROVE  StaysInDram \in 0 .. Len(dramLru)
<1> DEFINE fits == {n \in 0 .. Len(dramLru) :
                      newItem.size + Flash!SizeOf(SubSeq(dramLru, 1, n)) =< DRAM_SIZE}
<1>1. dramLru \in Seq(FewKeys) /\ Len(dramLru) \in Nat
  BY DEF FlashInv, ListsAreRecency
<1>2. 0 \in fits
  <2>1. SubSeq(dramLru, 1, 0) = <<>> /\ 0 \in 0 .. Len(dramLru)
    BY <1>1
  <2>2. ToSet(<<>>) = {}
    BY DEF ToSet
  <2>3. Flash!SizeOf(SubSeq(dramLru, 1, 0)) = 0
    BY <2>1, <2>2, FlashTerms, SumEmpty DEF Flash!SizeOf
  <2>4. newItem.size \in UpTo(DRAM_SIZE)
    BY DEF FlashInv
  <2>5. newItem.size + 0 =< DRAM_SIZE
    BY <2>4, FlashTerms
  <2> QED BY <2>1, <2>3, <2>5
<1>3. fits \in SUBSET (0 .. Len(dramLru)) /\ fits # {}
  BY <1>2
<1>4. StaysInDram = Max(fits)
  BY DEF StaysInDram
<1> HIDE DEF fits
<1> QED BY <1>1, <1>3, <1>4, GreatestElement

(* Those of DRAM that are evicted are the end of its list. *)
LEMMA FlashEvictDram ==
  ASSUME FlashInv, Flash!EvictDramLru
  PROVE  FlashInv' /\ Flash!EvictsOldest
<1> DEFINE stay == StaysInDram
           gone == Behind(dramLru, stay)
           G == ToSet(recency) \ DOMAIN allObjects'
<1>1. /\ recency \in Seq(FewKeys) /\ IsInjective(recency) /\ globalLru = recency
      /\ ToSet(recency) = DOMAIN allObjects
      /\ dramLru \in Seq(FewKeys) /\ IsInjective(dramLru) /\ ToSet(dramLru) = DramKeys
      /\ \A x, y : Before(dramLru, x, y) => Before(recency, x, y)
      /\ Len(dramLru) \in Nat
  BY DEF FlashInv, ListsAreRecency
<1>2. /\ pc' = pc /\ pc = "insert" /\ newItem' = newItem /\ recency' = Erase(recency, G)
      /\ dramLru' = Erase(dramLru, ToSet(gone)) /\ globalLru' = Erase(globalLru, ToSet(gone))
      /\ allObjects' = [x \in DOMAIN allObjects \ ToSet(gone) |-> allObjects[x]]
  BY FlashTerms DEF Flash!EvictDramLru, Flash!MakesRoom, Flash!StillCached, Flash!Unbind, Keep,
                    Behind, StaysInDram
<1>3. stay \in 0 .. Len(dramLru)
  BY <1>2, DramStays
<1> HIDE DEF stay
<1> DEFINE head == Upto(dramLru, stay)
<1>4. /\ gone \in Seq(FewKeys) /\ ToSet(head) \union ToSet(gone) = ToSet(dramLru)
      /\ ToSet(head) \intersect ToSet(gone) = {}
      /\ \A x \in ToSet(head), y \in ToSet(gone) : Before(dramLru, x, y)
  BY <1>1, <1>3, SplitAt
<1> HIDE DEF gone, head
<1>5. ToSet(gone) \subseteq DOMAIN allObjects
  BY <1>1, <1>4 DEF DramKeys
<1>6. DOMAIN allObjects' = DOMAIN allObjects \ ToSet(gone)
  BY <1>2
<1>7. ToSet(recency) \intersect G = ToSet(recency) \intersect ToSet(gone)
  BY <1>1, <1>6
<1> HIDE DEF G
<1>8. recency' = Erase(recency, ToSet(gone))
  BY <1>1, <1>2, <1>7, ErasedAlike
<1>9. ListsAreRecency' /\ \A x \in DOMAIN allObjects' : allObjects'[x] \in FlashItems
  BY <1>1, <1>2, <1>8, FlashLoses
<1>10. FlashInv'
  BY <1>2, <1>6, <1>9 DEF FlashInv
<1>11. ASSUME NEW x \in DOMAIN allObjects \ DOMAIN allObjects',
              NEW i \in DOMAIN recency, NEW j \in DOMAIN recency, recency[i] = x,
              recency[j] \in Flash!InDram \intersect DOMAIN allObjects'
       PROVE  j =< i
  <2>1. x \in ToSet(gone) /\ recency[j] \in ToSet(head)
    BY <1>1, <1>4, <1>6, <1>11 DEF DramKeys, Flash!InDram
  <2>2. Before(recency, recency[j], x)
    BY <1>1, <1>4, <2>1
  <2>3. PICK l \in DOMAIN recency, m \in DOMAIN recency :
          l < m /\ recency[l] = recency[j] /\ recency[m] = x
    BY <2>2 DEF Before
  <2>4. l = j /\ m = i
    BY <1>1, <1>11, <2>3 DEF IsInjective
  <2>5. i \in Nat /\ j \in Nat
    BY <1>1
  <2> QED BY <2>3, <2>4, <2>5
<1>12. Flash!EvictsOldest
  BY <1>11 DEF Flash!EvictsOldest, Flash!Oldest
<1> QED BY <1>10, <1>12

LEMMA FlashStep ==
  ASSUME FlashInv, Flash!Next \/ UNCHANGED Flash!vars
  PROVE  FlashInv'
<1>1. ASSUME NEW r \in Flash!Requests, Flash!Proc(r) PROVE FlashInv'
  BY <1>1, FlashHit, FlashMiss DEF Flash!Proc
<1>2. CASE Flash!Proceed
  BY <1>2, FlashInsert, FlashMoveToFlash, FlashEvictGlobal, FlashEvictDram DEF Flash!Proceed
<1>3. CASE UNCHANGED Flash!vars
  BY <1>3 DEF Flash!vars, Flash!tierVars, FlashInv, ListsAreRecency, DramKeys
<1> QED BY <1>1, <1>2, <1>3 DEF Flash!Next

LEMMA OldestGoFirst ==
  ASSUME FlashInv, Flash!Proceed
  PROVE  Flash!EvictsOldest
BY FlashInsert, FlashMoveToFlash, FlashEvictGlobal, FlashEvictDram DEF Flash!Proceed

-------------------------------------------------------------------------------
(* The simulator: the policy that was chosen keeps its promise.            *)
IInv ==
  /\ policy = "victimcache" => VictimInv
  /\ policy = "clock" => ClockInv
  /\ policy = "flashcache" => FlashInv
  /\ policy = "lruk" => LrukInv
  /\ policy = "flashcachelruk" => KlruInv

LEMMA OrderInit == Init => IInv
BY VictimInit, ClockInit, FlashInit, LrukInit, KlruInit DEF Init, IInv

(* A step of the simulator is one of the chosen policy. *)
LEMMA OnlyTheChosen ==
  ASSUME [Next]_vars
  PROVE  /\ policy' = policy
         /\ policy = "victimcache" => Victim!Next \/ UNCHANGED Victim!vars
         /\ policy = "clock" => Clock!Next \/ UNCHANGED Clock!vars
         /\ policy = "flashcache" => Flash!Next \/ UNCHANGED Flash!vars
         /\ policy = "lruk" => Lruk!Next \/ UNCHANGED Lruk!vars
         /\ policy = "flashcachelruk" => Klru!Next \/ UNCHANGED Klru!vars
<1>1. CASE Next
  BY <1>1 DEF Next, RunLru, RunShadow, RunFifo, RunClock, RunLruk, RunVictim, RunFlash, RunKlru,
              RunPages, RunShares, RunSlabs, RunParts
<1>2. CASE UNCHANGED vars
  <2>1. /\ policy' = policy /\ pc' = pc /\ outcome' = outcome /\ allObjects' = allObjects
        /\ item' = item /\ dram' = dram /\ flash' = flash /\ recency' = recency
        /\ dramSize' = dramSize /\ flashSize' = flashSize /\ globalLru' = globalLru
        /\ newItem' = newItem /\ call' = call /\ kLru' = kLru /\ kLruSizes' = kLruSizes /\ hits' = hits
        /\ dramLru' = dramLru /\ credits' = credits /\ req' = req /\ ring' = ring
        /\ lruSize' = lruSize /\ firstEviction' = firstEviction /\ behind' = behind
    BY <1>2 DEF vars, sharedVars, flashVars, tierVars, lrukVars, clockVars, creditVars
  <2>2. UNCHANGED Victim!vars
    BY <2>1 DEF Victim!vars, Victim!sizeVars
  <2>3. UNCHANGED Lruk!vars
    BY <2>1 DEF Lruk!vars
  <2>4. UNCHANGED Klru!vars
    BY <2>1 DEF Klru!vars, Klru!tierVars, Klru!queueVars
  <2>5. UNCHANGED Clock!vars
    BY <2>1 DEF Clock!vars
  <2>6. UNCHANGED Flash!vars
    BY <2>1 DEF Flash!vars, Flash!tierVars
  <2> QED BY <2>1, <2>2, <2>3, <2>4, <2>5, <2>6
<1> QED BY <1>1, <1>2

LEMMA OrderStep == IInv /\ [Next]_vars => IInv'
<1> SUFFICES ASSUME IInv, [Next]_vars PROVE IInv'
  OBVIOUS
<1>1. policy' = policy
  BY OnlyTheChosen
<1>2. CASE policy = "victimcache"
  <2>1. VictimInv'
    BY <1>2, OnlyTheChosen, VictimStep DEF IInv
  <2> QED BY <1>1, <1>2, <2>1 DEF IInv
<1>3. CASE policy = "lruk"
  <2>1. LrukInv'
    BY <1>3, OnlyTheChosen, LrukStep DEF IInv
  <2> QED BY <1>1, <1>3, <2>1 DEF IInv
<1>4. CASE policy = "flashcachelruk"
  <2>1. KlruInv'
    BY <1>4, OnlyTheChosen, KlruStep DEF IInv
  <2> QED BY <1>1, <1>4, <2>1 DEF IInv
<1>5. CASE policy = "clock"
  <2>1. ClockInv'
    BY <1>5, OnlyTheChosen, ClockStep DEF IInv
  <2> QED BY <1>1, <1>5, <2>1 DEF IInv
<1>6. CASE policy = "flashcache"
  <2>1. FlashInv'
    BY <1>6, OnlyTheChosen, FlashStep DEF IInv
  <2> QED BY <1>1, <1>6, <2>1 DEF IInv
<1> QED BY <1>1, <1>2, <1>3, <1>4, <1>5, <1>6 DEF IInv

LEMMA OrderKept == Spec => []IInv
BY OrderInit, OrderStep, PTL DEF Spec

(* victimcache: DRAM and flash, one after the other, are the cached        *)
(* objects in the order of their last use, whatever their sizes.           *)
THEOREM OneLruInTwoTiers == Spec => []TiersAreOneLru
<1>1. IInv => TiersAreOneLru
  BY OneList DEF IInv, TiersAreOneLru
<1> QED BY <1>1, OrderKept, PTL

(* lruk and flashcachelruk: no cascade of evictions, however deep, leaves  *)
(* an object higher up than its hits have taken it.                        *)
THEOREM NoUnearnedPromotion == Spec => []PromotionIsEarned
<1>1. LrukInv => Lruk!PromotionIsEarned
  BY DEF LrukInv, HitsEarn, Lruk!PromotionIsEarned
<1>2. KlruInv => Klru!PromotionIsEarned
  BY DEF KlruInv, HitsEarn, Klru!PromotionIsEarned
<1>3. IInv => PromotionIsEarned
  BY <1>1, <1>2 DEF IInv, PromotionIsEarned
<1> QED BY <1>3, OrderKept, PTL

(* clock: an object that was used outlives those that had run out of       *)
(* credit at that time and were not used since, wherever the hand stands.  *)
THEOREM UsedGetASecondChance == Spec => SecondChance
<1>1. ASSUME IInv, RunClock(Clock!Proceed) PROVE Clock!OutOfCreditFirst
  BY <1>1, UsedGoLast DEF RunClock, IInv
<1>2. IInv => (RunClock(Clock!Proceed) => Clock!OutOfCreditFirst)
  BY <1>1
<1> QED BY <1>2, OrderKept, PTL DEF SecondChance

(* flashcache: what it gives up, for lack of credit or of flash, was used  *)
(* before everything that stays in DRAM.                                   *)
THEOREM OldestAreEvicted == Spec => EvictsOldest
<1>1. ASSUME IInv, RunFlash(Flash!Proceed) PROVE Flash!EvictsOldest
  BY <1>1, OldestGoFirst DEF RunFlash, IInv
<1>2. IInv => (RunFlash(Flash!Proceed) => Flash!EvictsOldest)
  BY <1>1
<1> QED BY <1>2, OrderKept, PTL DEF EvictsOldest

-------------------------------------------------------------------------------
(* What a set of objects weighs when one leaves it, comes to it, or when   *)
(* it is cut in two, and the objects that stay keep their weight.          *)
LEMMA WeighsLess ==
  ASSUME NEW G, IsFiniteSet(G), NEW f, \A y \in G : f[y] \in Nat, NEW x,
         NEW g, \A y \in G \ {x} : g[y] = f[y]
  PROVE  /\ SumFunctionOnSet(g, G \ {x}) \in Nat /\ SumFunctionOnSet(f, G) \in Nat
         /\ SumFunctionOnSet(g, G \ {x}) =
              SumFunctionOnSet(f, G) - (IF x \in G THEN f[x] ELSE 0)
<1> DEFINE H == G \ {x}
<1>1. IsFiniteSet(H) /\ \A y \in H : f[y] \in Nat /\ g[y] \in Nat
  BY FS_Subset
<1>2. SumFunctionOnSet(g, H) \in Nat /\ SumFunctionOnSet(f, G) \in Nat
  BY <1>1, SumNat
<1>3. H \ {x} = G \ {x} /\ Ints(g, H) /\ Ints(f, G) /\ x \notin H
  BY <1>1 DEF Ints
<1>4. \A y \in G \ {x} : g[y] = f[y]
  OBVIOUS
<1> HIDE DEF H
<1>5. SumFunctionOnSet(g, H) = SumFunctionOnSet(f, G)
        - (IF x \in G THEN f[x] ELSE 0) + (IF x \in H THEN g[x] ELSE 0)
  BY <1>1, <1>3, <1>4, SumReweigh
<1>6. SumFunctionOnSet(g, H) = SumFunctionOnSet(f, G) - (IF x \in G THEN f[x] ELSE 0)
  BY <1>2, <1>3, <1>5
<1> QED BY <1>2, <1>6 DEF H

LEMMA WeighsMore ==
  ASSUME NEW G, IsFiniteSet(G), NEW f, \A y \in G : f[y] \in Nat, NEW x, x \notin G,
         NEW g, \A y \in G : g[y] = f[y], g[x] \in Nat
  PROVE  /\ SumFunctionOnSet(g, {x} \union G) \in Nat /\ SumFunctionOnSet(f, G) \in Nat
         /\ SumFunctionOnSet(g, {x} \union G) = SumFunctionOnSet(f, G) + g[x]
<1>1. Ints(g, G \union {x}) /\ Ints(f, G)
  BY DEF Ints
<1>2. SumFunctionOnSet(g, G \union {x}) = SumFunctionOnSet(g, G) + g[x]
  BY <1>1, SumAdd
<1>3. SumFunctionOnSet(g, G) = SumFunctionOnSet(f, G)
  BY <1>1, SumSame
<1>4. SumFunctionOnSet(f, G) \in Nat
  BY SumNat
<1>5. {x} \union G = G \union {x}
  OBVIOUS
<1> QED BY <1>2, <1>3, <1>4, <1>5

LEMMA WeighsInTwo ==
  ASSUME NEW G, IsFiniteSet(G), NEW f, \A y \in G : f[y] \in Nat,
         NEW A, NEW B, A \union B = G, A \intersect B = {},
         NEW g, \A y \in A : g[y] = f[y]
  PROVE  /\ SumFunctionOnSet(f, G) \in Nat /\ SumFunctionOnSet(g, A) \in Nat
         /\ SumFunctionOnSet(f, B) \in Nat
         /\ SumFunctionOnSet(f, G) = SumFunctionOnSet(g, A) + SumFunctionOnSet(f, B)
<1>1. IsFiniteSet(A) /\ IsFiniteSet(B)
  BY FS_Subset
<1>2. Ints(f, G) /\ Ints(f, A) /\ Ints(f, B)
  BY DEF Ints
<1>3. SumFunctionOnSet(f, G) = SumFunctionOnSet(f, A) + SumFunctionOnSet(f, B)
  BY <1>1, <1>2, SumUnion
<1>4. SumFunctionOnSet(g, A) = SumFunctionOnSet(f, A)
  BY <1>1, <1>2, SumSame
<1>5. SumFunctionOnSet(f, G) \in Nat /\ SumFunctionOnSet(f, A) \in Nat /\ SumFunctionOnSet(f, B) \in Nat
  BY <1>1, SumNat
<1> QED BY <1>3, <1>4, <1>5

(* The empty queue, and a queue that was not cut. *)
LEMMA UncutQueue ==
  ASSUME NEW X, NEW q \in Seq(X)
  PROVE  SubSeq(q, 1, Len(q)) = q /\ (ToSet(q) = {} => q = <<>>)
<1>1. SubSeq(q, 1, Len(q)) = q
  OBVIOUS
<1>2. ASSUME ToSet(q) = {} PROVE q = <<>>
  <2>1. DOMAIN q = 1 .. Len(q) /\ Len(q) \in Nat
    OBVIOUS
  <2>2. DOMAIN q = {}
    BY <1>2 DEF ToSet
  <2>3. Len(q) = 0
    BY <2>1, <2>2
  <2> QED BY <2>3
<1> QED BY <1>1, <1>2

-------------------------------------------------------------------------------
(* victimcache.                                                            *)

(* The size of each cached object, in the policies with several lists. *)
Weights  == [k \in DOMAIN allObjects |-> allObjects[k].size]
Bytes(G) == SumFunctionOnSet(Weights, G)

LEMMA VictimSums ==
  /\ \A q : Victim!SizeOf(q) = Bytes(ToSet(q))
  /\ \A G : Victim!Cardinality(G) = Cardinality(G)
  /\ DRAM_SIZE \in Nat /\ FLASH_SIZE \in Nat
  /\ \A s \in UpTo(DRAM_SIZE) : s \in Nat /\ s > 0 /\ s =< DRAM_SIZE
<1>1. \A f, G : Victim!SumFunctionOnSet(f, G) = SumFunctionOnSet(f, G)
  BY DEF Victim!SumFunctionOnSet, Victim!FoldFunctionOnSet, Victim!MapThenFoldSet,
         SumFunctionOnSet, FoldFunctionOnSet, MapThenFoldSet
<1>2. \A q : Victim!SizeOf(q) = Bytes(ToSet(q))
  BY <1>1, VictimTerms DEF Victim!SizeOf, Bytes, Weights
<1>3. DRAM_SIZE \in Nat /\ FLASH_SIZE \in Nat /\ UpTo(DRAM_SIZE) \subseteq 1 .. DRAM_SIZE
  BY PolicyAssumptions DEF Victim!TiersAssumption
<1>4. \A G : Victim!Cardinality(G) = Cardinality(G)
  BY DEF Victim!Cardinality, Cardinality
<1> QED BY <1>2, <1>3, <1>4

(* The tiers count what they hold, no more than fits, and together with    *)
(* the object on its way they hold all that is cached.                     *)
VictimCounts ==
  /\ dramSize = Bytes(ToSet(dram)) /\ dramSize =< DRAM_SIZE
  /\ flashSize = Bytes(ToSet(flash)) /\ flashSize =< FLASH_SIZE
  /\ DOMAIN allObjects = (ToSet(dram) \union ToSet(flash)) \union Victim!OnItsWay

(* The object on its way is in no tier; one that hit has its old size. *)
VictimOnItsWay ==
  /\ pc \in {"ready", "insert", "crashed"}
  /\ pc # "ready" =>
       /\ item.kid \in Keys /\ item.size \in UpTo(DRAM_SIZE) /\ item.hit \in BOOLEAN
       /\ item.kid \notin ToSet(dram) \union ToSet(flash)
       /\ item.hit => allObjects[item.kid].size = item.size

VictimBooks == VictimInv /\ VictimCounts /\ VictimOnItsWay /\ Victim!CrashesOnlyOversize

(* Each tier is a finite set of objects that have a size. *)
LEMMA VictimWeights ==
  ASSUME VictimInv
  PROVE  /\ IsFiniteSet(ToSet(dram)) /\ \A x \in ToSet(dram) : Weights[x] \in Nat
         /\ IsFiniteSet(ToSet(flash)) /\ \A x \in ToSet(flash) : Weights[x] \in Nat
         /\ Bytes(ToSet(dram)) \in Nat /\ Bytes(ToSet(flash)) \in Nat
         /\ \A x \in DOMAIN allObjects : Weights[x] = allObjects[x].size /\ Weights[x] \in Nat
<1>1. IsFiniteSet(ToSet(dram)) /\ IsFiniteSet(ToSet(flash))
  BY DistinctLength DEF VictimInv
<1>2. \A x \in DOMAIN allObjects : Weights[x] = allObjects[x].size /\ Weights[x] \in Nat
  BY VictimSums DEF Weights, VictimInv, TableKnows, Items
<1>3. /\ \A x \in ToSet(dram) : Weights[x] \in Nat
      /\ \A x \in ToSet(flash) : Weights[x] \in Nat
  BY <1>2 DEF VictimInv, TableKnows
<1> QED BY <1>1, <1>2, <1>3, SumNat DEF Bytes

LEMMA VictimBooksInit ==
  ASSUME Victim!Init
  PROVE  VictimBooks
<1>1. /\ dram = <<>> /\ flash = <<>> /\ pc = "ready" /\ dramSize = 0 /\ flashSize = 0
      /\ DOMAIN allObjects = {}
  BY DEF Victim!Init
<1>2. ToSet(<<>>) = {}
  BY DEF ToSet
<1>3. Bytes({}) = 0
  BY SumEmpty DEF Bytes
<1>4. VictimCounts
  <2>1. ToSet(dram) = {} /\ ToSet(flash) = {} /\ Victim!OnItsWay = {}
    BY <1>1, <1>2 DEF Victim!OnItsWay
  <2>2. dramSize = Bytes(ToSet(dram)) /\ flashSize = Bytes(ToSet(flash))
    BY <1>1, <1>3, <2>1
  <2>3. dramSize =< DRAM_SIZE /\ flashSize =< FLASH_SIZE
    BY <1>1, VictimSums
  <2> QED BY <1>1, <2>1, <2>2, <2>3 DEF VictimCounts
<1>5. VictimOnItsWay /\ Victim!CrashesOnlyOversize
  BY <1>1 DEF VictimOnItsWay, Victim!CrashesOnlyOversize
<1> QED BY <1>4, <1>5, VictimInit DEF VictimBooks

(* The tier the requested object is in gives back its bytes. *)
LEMMA VictimBooksProc ==
  ASSUME VictimBooks, NEW r \in Victim!Requests, Victim!Proc(r)
  PROVE  VictimCounts' /\ VictimOnItsWay' /\ Victim!CrashesOnlyOversize'
<1> DEFINE k == r.kid
           f == Weights
           g == Weights'
<1>1. /\ pc = "ready" /\ pc' = "insert" /\ item' = [kid |-> k, size |-> r.size, hit |-> Victim!IsHit(r)]
      /\ allObjects' = IF Victim!IsHit(r) THEN allObjects
                       ELSE [x \in DOMAIN allObjects \ {k} |-> allObjects[x]]
  BY DEF Victim!Proc, Victim!Unbind
<1>2. k \in Keys /\ r.size \in UpTo(DRAM_SIZE)
  BY DEF Victim!Requests
<1>3. /\ DOMAIN allObjects = ToSet(dram) \union ToSet(flash)
      /\ \A x \in ToSet(dram) : x \in DOMAIN allObjects /\ allObjects[x].isInDram
      /\ \A x \in ToSet(flash) : x \in DOMAIN allObjects /\ ~ allObjects[x].isInDram
  BY <1>1 DEF VictimBooks, VictimCounts, VictimInv, TableKnows, Victim!OnItsWay
<1>4. /\ ToSet(dram') = ToSet(dram) \ {k} /\ ToSet(flash') = ToSet(flash) \ {k}
      /\ dramSize' = dramSize - (IF k \in ToSet(dram) THEN f[k] ELSE 0)
      /\ flashSize' = flashSize - (IF k \in ToSet(flash) THEN f[k] ELSE 0)
  <2>1. CASE k \notin DOMAIN allObjects
    <3>1. dram' = dram /\ flash' = flash /\ dramSize' = dramSize /\ flashSize' = flashSize
      BY <2>1 DEF Victim!Proc, Victim!sizeVars
    <3>2. dramSize \in Int /\ flashSize \in Int
      BY VictimWeights DEF VictimBooks, VictimCounts
    <3> QED BY <1>3, <2>1, <3>1, <3>2
  <2>2. CASE k \in DOMAIN allObjects
    <3>1. Victim!TakeOut(k)
      BY <2>2 DEF Victim!Proc
    <3>2. f[k] = allObjects[k].size /\ dramSize \in Int /\ flashSize \in Int
      BY <2>2, VictimWeights DEF VictimBooks, VictimCounts
    <3>3. /\ ToSet(Erase(dram, {k})) = ToSet(dram) \ {k}
          /\ ToSet(Erase(flash, {k})) = ToSet(flash) \ {k}
      BY EraseSet DEF VictimBooks, VictimInv
    <3>4. CASE allObjects[k].isInDram
      <4>1. /\ dram' = Erase(dram, {k}) /\ flash' = flash
            /\ dramSize' = dramSize - allObjects[k].size /\ flashSize' = flashSize
        BY <3>1, <3>4, VictimTerms DEF Victim!TakeOut, Victim!Drop
      <4>2. k \in ToSet(dram) /\ k \notin ToSet(flash)
        BY <1>3, <2>2, <3>4
      <4> QED BY <3>2, <3>3, <4>1, <4>2
    <3>5. CASE ~ allObjects[k].isInDram
      <4>1. /\ flash' = Erase(flash, {k}) /\ dram' = dram
            /\ flashSize' = flashSize - allObjects[k].size /\ dramSize' = dramSize
        BY <3>1, <3>5, VictimTerms DEF Victim!TakeOut, Victim!Drop
      <4>2. k \in ToSet(flash) /\ k \notin ToSet(dram)
        BY <1>3, <2>2, <3>5
      <4> QED BY <3>2, <3>3, <4>1, <4>2
    <3> QED BY <3>4, <3>5
  <2> QED BY <2>1, <2>2
<1>5. \A x \in DOMAIN allObjects : x # k => g[x] = f[x]
  BY <1>1 DEF Weights
<1>6. /\ dramSize = SumFunctionOnSet(f, ToSet(dram)) /\ dramSize =< DRAM_SIZE
      /\ flashSize = SumFunctionOnSet(f, ToSet(flash)) /\ flashSize =< FLASH_SIZE
      /\ DRAM_SIZE \in Nat /\ FLASH_SIZE \in Nat
  BY VictimSums DEF VictimBooks, VictimCounts, Bytes
<1>7. /\ IsFiniteSet(ToSet(dram)) /\ \A x \in ToSet(dram) : f[x] \in Nat
      /\ IsFiniteSet(ToSet(flash)) /\ \A x \in ToSet(flash) : f[x] \in Nat
      /\ \A x \in DOMAIN allObjects : f[x] \in Nat
  BY VictimWeights DEF VictimBooks
<1>8. (Bytes(ToSet(dram)))' = SumFunctionOnSet(g, ToSet(dram')) /\
      (Bytes(ToSet(flash)))' = SumFunctionOnSet(g, ToSet(flash'))
  BY DEF Bytes
<1> HIDE DEF f, g
<1>9. dramSize' = SumFunctionOnSet(g, ToSet(dram')) /\ dramSize' =< DRAM_SIZE
  <2>1. /\ SumFunctionOnSet(g, ToSet(dram) \ {k}) \in Nat /\ SumFunctionOnSet(f, ToSet(dram)) \in Nat
        /\ SumFunctionOnSet(g, ToSet(dram) \ {k}) =
             SumFunctionOnSet(f, ToSet(dram)) - (IF k \in ToSet(dram) THEN f[k] ELSE 0)
    BY <1>3, <1>5, <1>7, WeighsLess
  <2> QED BY <1>4, <1>6, <1>7, <2>1
<1>10. flashSize' = SumFunctionOnSet(g, ToSet(flash')) /\ flashSize' =< FLASH_SIZE
  <2>1. /\ SumFunctionOnSet(g, ToSet(flash) \ {k}) \in Nat /\ SumFunctionOnSet(f, ToSet(flash)) \in Nat
        /\ SumFunctionOnSet(g, ToSet(flash) \ {k}) =
             SumFunctionOnSet(f, ToSet(flash)) - (IF k \in ToSet(flash) THEN f[k] ELSE 0)
    BY <1>3, <1>5, <1>7, WeighsLess
  <2> QED BY <1>4, <1>6, <1>7, <2>1
<1>11. Victim!OnItsWay' = IF Victim!IsHit(r) THEN {k} ELSE {}
  BY <1>1 DEF Victim!OnItsWay
<1>12. DOMAIN allObjects' = (ToSet(dram') \union ToSet(flash')) \union Victim!OnItsWay'
  <2>1. Victim!IsHit(r) => k \in DOMAIN allObjects
    BY DEF Victim!IsHit
  <2> QED BY <1>1, <1>3, <1>4, <1>11, <2>1
<1>13. VictimCounts'
  BY <1>8, <1>9, <1>10, <1>12 DEF VictimCounts
<1>14. VictimOnItsWay'
  <2>1. /\ item'.kid = k /\ item'.size = r.size /\ item'.hit = Victim!IsHit(r)
        /\ Victim!IsHit(r) \in BOOLEAN
    BY <1>1 DEF Victim!IsHit
  <2>2. Victim!IsHit(r) => allObjects'[k].size = r.size
    BY <1>1 DEF Victim!IsHit
  <2> QED BY <1>1, <1>2, <1>4, <2>1, <2>2 DEF VictimOnItsWay
<1>15. Victim!CrashesOnlyOversize'
  BY <1>1 DEF Victim!CrashesOnlyOversize
<1> QED BY <1>13, <1>14, <1>15

(* What DRAM loses flash gets, in the place of what it loses. *)
LEMMA VictimBooksDemote ==
  ASSUME VictimBooks, Victim!Demote
  PROVE  VictimCounts' /\ VictimOnItsWay' /\ Victim!CrashesOnlyOversize'
<1> DEFINE victim == Last(dram)
           size   == allObjects[victim].size
           n      == Max(Victim!FlashStays(size))
           stay   == Upto(flash, n)
           gone   == Behind(flash, n)
           f == Weights
           g == Weights'
           D == ToSet(Front(dram))
           F == ToSet(stay)
           O == ToSet(gone)
<1>1. /\ dram # <<>> /\ Victim!FlashStays(size) # {} /\ pc = "insert"
      /\ pc' = pc /\ item' = item /\ dram' = Front(dram) /\ dramSize' = dramSize - size
      /\ flash' = <<victim>> \o stay /\ flashSize' = flashSize - Bytes(O) + size
      /\ allObjects' = [x \in DOMAIN allObjects \ O |->
                          [allObjects EXCEPT ![victim].isInDram = FALSE][x]]
  BY VictimTerms, VictimSums DEF Victim!Demote, Victim!AtFront, Victim!Unbind, Upto, Behind
<1>2. n \in 0 .. Len(flash) /\ size + flashSize - Bytes(O) =< FLASH_SIZE
  <2>1. Victim!FlashStays(size) \in SUBSET (0 .. Len(flash)) /\ Len(flash) \in Nat
    BY DEF Victim!FlashStays, VictimBooks, VictimInv
  <2>2. n \in Victim!FlashStays(size)
    BY <1>1, <2>1, GreatestElement
  <2> QED BY <2>2, VictimSums DEF Victim!FlashStays, Behind
<1> HIDE DEF n
<1>3. /\ stay \in Seq(Keys) /\ F \union O = ToSet(flash) /\ F \intersect O = {}
  BY <1>2, SplitAt DEF VictimBooks, VictimInv
<1> HIDE DEF stay, gone
<1>4. victim \in Keys /\ ToSet(dram) = D \union {victim} /\ victim \notin D
  BY <1>1, FrontAndLast DEF VictimBooks, VictimInv
<1>5. ToSet(flash') = {victim} \union F
  BY <1>1, <1>3, <1>4, PushFront
<1>6. ToSet(dram') = D
  BY <1>1
<1> HIDE DEF victim, D, F, O
<1>7. /\ \A x \in ToSet(dram) : x \in DOMAIN allObjects /\ allObjects[x].isInDram
      /\ \A x \in ToSet(flash) : x \in DOMAIN allObjects /\ ~ allObjects[x].isInDram
      /\ \A x \in DOMAIN allObjects : allObjects[x] \in Items
  BY DEF VictimBooks, VictimInv, TableKnows
<1>8. victim \in DOMAIN allObjects /\ victim \notin ToSet(flash) /\ victim \notin D
  BY <1>4, <1>7
<1>9. /\ DOMAIN allObjects' = DOMAIN allObjects \ O
      /\ \A x \in DOMAIN allObjects' : g[x] = f[x] /\ allObjects'[x].size = allObjects[x].size
  <2>1. DOMAIN allObjects' = DOMAIN allObjects \ O
    BY <1>1
  <2>2. ASSUME NEW x \in DOMAIN allObjects' PROVE allObjects'[x].size = allObjects[x].size
    <3>1. x \in DOMAIN allObjects /\ allObjects[x] \in Items
      BY <1>7, <2>1, <2>2
    <3>2. CASE x = victim
      <4>1. allObjects'[x] = [allObjects[x] EXCEPT !.isInDram = FALSE]
        BY <1>1, <2>1, <2>2, <3>1, <3>2
      <4> QED BY <3>1, <4>1 DEF Items
    <3>3. CASE x # victim
      BY <1>1, <2>1, <2>2, <3>1, <3>3
    <3> QED BY <3>2, <3>3
  <2> QED BY <2>1, <2>2 DEF Weights
<1>10. /\ IsFiniteSet(ToSet(dram)) /\ \A x \in ToSet(dram) : f[x] \in Nat
       /\ IsFiniteSet(ToSet(flash)) /\ \A x \in ToSet(flash) : f[x] \in Nat
       /\ f[victim] = size /\ size \in Nat
  BY <1>8, VictimWeights DEF VictimBooks
<1>11. /\ dramSize = SumFunctionOnSet(f, ToSet(dram)) /\ dramSize =< DRAM_SIZE
       /\ flashSize = SumFunctionOnSet(f, ToSet(flash)) /\ flashSize =< FLASH_SIZE
       /\ DRAM_SIZE \in Nat /\ FLASH_SIZE \in Nat
       /\ Bytes(O) = SumFunctionOnSet(f, O)
  BY VictimSums DEF VictimBooks, VictimCounts, Bytes
<1>12. (Bytes(ToSet(dram)))' = SumFunctionOnSet(g, ToSet(dram')) /\
       (Bytes(ToSet(flash)))' = SumFunctionOnSet(g, ToSet(flash'))
  BY DEF Bytes
<1> HIDE DEF f, g, size
<1>13. dramSize' = SumFunctionOnSet(g, ToSet(dram')) /\ dramSize' =< DRAM_SIZE
  <2>1. D = ToSet(dram) \ {victim} /\ victim \in ToSet(dram)
    BY <1>4
  <2>2. \A x \in ToSet(dram) \ {victim} : g[x] = f[x]
    <3> SUFFICES ASSUME NEW x \in ToSet(dram) \ {victim} PROVE g[x] = f[x]
      OBVIOUS
    <3>1. x \in DOMAIN allObjects /\ x \notin ToSet(flash)
      BY <1>7
    <3> QED BY <1>3, <1>9, <3>1
  <2>3. /\ SumFunctionOnSet(g, ToSet(dram) \ {victim}) \in Nat /\ SumFunctionOnSet(f, ToSet(dram)) \in Nat
        /\ SumFunctionOnSet(g, ToSet(dram) \ {victim}) =
             SumFunctionOnSet(f, ToSet(dram)) - (IF victim \in ToSet(dram) THEN f[victim] ELSE 0)
    BY <1>10, <2>2, WeighsLess
  <2> QED BY <1>1, <1>6, <1>10, <1>11, <2>1, <2>3
<1>14. flashSize' = SumFunctionOnSet(g, ToSet(flash')) /\ flashSize' =< FLASH_SIZE
  <2>1. \A x \in F : g[x] = f[x] /\ x # victim /\ f[x] \in Nat
    <3> SUFFICES ASSUME NEW x \in F PROVE g[x] = f[x] /\ x # victim /\ f[x] \in Nat
      OBVIOUS
    <3>1. x \in ToSet(flash) /\ x \notin O
      BY <1>3
    <3> QED BY <1>7, <1>8, <1>9, <1>10, <3>1
  <2>2. IsFiniteSet(F)
    BY <1>3, <1>10, FS_Subset
  <2>3. /\ SumFunctionOnSet(f, ToSet(flash)) \in Nat /\ SumFunctionOnSet(f, F) \in Nat
        /\ SumFunctionOnSet(f, O) \in Nat
        /\ SumFunctionOnSet(f, ToSet(flash)) = SumFunctionOnSet(f, F) + SumFunctionOnSet(f, O)
    <3>1. /\ IsFiniteSet(ToSet(flash)) /\ \A x \in ToSet(flash) : f[x] \in Nat
          /\ \A x \in F : f[x] = f[x]
      BY <1>10
    <3> QED BY ONLY <1>3, <3>1, WeighsInTwo
  <2>4. g[victim] = size
    BY <1>3, <1>8, <1>9, <1>10
  <2>5. /\ SumFunctionOnSet(g, {victim} \union F) \in Nat
        /\ SumFunctionOnSet(g, {victim} \union F) = SumFunctionOnSet(f, F) + g[victim]
    BY <1>10, <2>1, <2>2, <2>4, WeighsMore
  <2>6. flashSize' = flashSize - Bytes(O) + size
    BY <1>1
  <2>7. flashSize = SumFunctionOnSet(f, F) + Bytes(O) /\ Bytes(O) \in Nat
    BY <1>11, <2>3
  <2>8. SumFunctionOnSet(g, ToSet(flash')) = SumFunctionOnSet(f, F) + size
    BY <1>5, <2>4, <2>5
  <2> QED BY ONLY <1>2, <1>10, <1>11, <2>3, <2>6, <2>7, <2>8
<1>15. /\ item.kid \in Keys /\ item.size \in UpTo(DRAM_SIZE) /\ item.hit \in BOOLEAN
       /\ item.kid \notin ToSet(dram) \union ToSet(flash)
       /\ item.hit => allObjects[item.kid].size = item.size
       /\ DOMAIN allObjects = (ToSet(dram) \union ToSet(flash)) \union Victim!OnItsWay
       /\ Victim!OnItsWay = IF item.hit THEN {item.kid} ELSE {}
  BY <1>1 DEF VictimBooks, VictimCounts, VictimOnItsWay, Victim!OnItsWay
<1>16. Victim!OnItsWay' = Victim!OnItsWay
  BY <1>1 DEF Victim!OnItsWay
<1>17. DOMAIN allObjects' = (ToSet(dram') \union ToSet(flash')) \union Victim!OnItsWay'
  <2>1. O \subseteq ToSet(flash)
    BY <1>3
  <2>2. \A x \in Victim!OnItsWay : x \notin O
    BY <1>15, <2>1
  <2>3. \A x \in ToSet(dram) : x \notin O
    BY <1>7, <2>1
  <2> QED BY <1>3, <1>4, <1>5, <1>6, <1>9, <1>15, <1>16, <2>2, <2>3
<1>18. VictimCounts'
  BY <1>12, <1>13, <1>14, <1>17 DEF VictimCounts
<1>19. VictimOnItsWay'
  <2>1. item.hit => item.kid \in DOMAIN allObjects'
    BY <1>15, <1>16, <1>17
  <2>2. ToSet(dram') \union ToSet(flash') \subseteq ToSet(dram) \union ToSet(flash)
    BY <1>3, <1>4, <1>5, <1>6
  <2>3. item.kid \notin ToSet(dram') \union ToSet(flash')
    BY <1>15, <2>2
  <2> QED BY <1>1, <1>9, <1>15, <2>1, <2>3 DEF VictimOnItsWay
<1>20. Victim!CrashesOnlyOversize'
  BY <1>1 DEF Victim!CrashesOnlyOversize
<1> QED BY <1>18, <1>19, <1>20

(* DRAM is only empty when the object fits, and flash only when its bytes  *)
(* are nobody's.                                                           *)
LEMMA VictimBooksCrash ==
  ASSUME VictimBooks, Victim!Crash
  PROVE  VictimBooks'
<1>1. /\ pc = "insert" /\ pc' = "crashed" /\ item' = item /\ dram' = dram /\ flash' = flash
      /\ allObjects' = allObjects /\ dramSize' = dramSize /\ flashSize' = flashSize
      /\ item.size + dramSize > DRAM_SIZE
      /\ dram # <<>> => Victim!FlashStays(allObjects[Last(dram)].size) = {}
  BY VictimTerms DEF Victim!Crash, Victim!sizeVars, Victim!MustDemote
<1>2. VictimInv'
  BY VictimStep DEF VictimBooks, Victim!Next, Victim!Proceed
<1>3. VictimCounts'
  <2>1. (Bytes(ToSet(dram)))' = Bytes(ToSet(dram)) /\ (Bytes(ToSet(flash)))' = Bytes(ToSet(flash))
    BY <1>1 DEF Bytes, Weights
  <2> QED BY <1>1, <2>1 DEF VictimBooks, VictimCounts, Victim!OnItsWay
<1>4. VictimOnItsWay'
  BY <1>1 DEF VictimBooks, VictimOnItsWay
<1>5. dram # <<>>
  <2>1. item.size =< DRAM_SIZE /\ item.size \in Nat
    BY <1>1, VictimSums DEF VictimBooks, VictimOnItsWay
  <2>2. dram = <<>> => dramSize = 0
    <3>1. ToSet(<<>>) = {} /\ Bytes({}) = 0
      BY SumEmpty DEF Bytes, ToSet
    <3> QED BY <3>1 DEF VictimBooks, VictimCounts
  <2> QED BY <1>1, <2>1, <2>2, VictimSums
<1>6. allObjects[Last(dram)].size > FLASH_SIZE
  <2> DEFINE size == allObjects[Last(dram)].size
  <2>1. Last(dram) \in ToSet(dram)
    <3>1. dram \in Seq(Keys)
      BY DEF VictimBooks, VictimInv
    <3>2. ToSet(dram) = ToSet(Front(dram)) \union {Last(dram)}
      BY <1>5, <3>1, FrontAndLast
    <3> QED BY <3>2
  <2>2. size \in Nat
    BY <2>1, VictimSums DEF VictimBooks, VictimInv, TableKnows, Items
  <2>3. 0 \in 0 .. Len(flash) /\ SubSeq(flash, 0 + 1, Len(flash)) = flash
    BY UncutQueue DEF VictimBooks, VictimInv
  <2>4. ~ (size + flashSize - Victim!SizeOf(flash) =< FLASH_SIZE)
    BY <1>1, <1>5, <2>3 DEF Victim!FlashStays
  <2>5. Victim!SizeOf(flash) = flashSize /\ flashSize \in Nat
    BY VictimSums, VictimWeights DEF VictimBooks, VictimCounts
  <2> HIDE DEF size
  <2>6. size > FLASH_SIZE
    BY <2>2, <2>4, <2>5, VictimSums
  <2> QED BY <2>6 DEF size
<1>7. Victim!CrashesOnlyOversize'
  BY <1>1, <1>5, <1>6, VictimTerms DEF Victim!CrashesOnlyOversize
<1> QED BY <1>2, <1>3, <1>4, <1>7 DEF VictimBooks

(* The requested object comes into DRAM, where there is room. *)
LEMMA VictimBooksInsert ==
  ASSUME VictimBooks, Victim!Insert
  PROVE  VictimCounts' /\ VictimOnItsWay' /\ Victim!CrashesOnlyOversize'
<1> DEFINE k == item.kid
           f == Weights
           g == Weights'
<1>1. /\ pc = "insert" /\ pc' = "ready" /\ flash' = flash /\ flashSize' = flashSize
      /\ dram' = <<k>> \o dram /\ dramSize' = dramSize + item.size
      /\ ~ (item.size + dramSize > DRAM_SIZE)
      /\ allObjects' = [x \in DOMAIN allObjects \union {k} |->
                          IF x = k THEN [size |-> item.size, isInDram |-> TRUE] ELSE allObjects[x]]
  BY DEF Victim!Insert, Victim!Bind, Victim!MustDemote
<1>2. /\ k \in Keys /\ item.size \in UpTo(DRAM_SIZE)
      /\ k \notin ToSet(dram) \union ToSet(flash) /\ item.size \in Nat
      /\ DOMAIN allObjects = (ToSet(dram) \union ToSet(flash)) \union Victim!OnItsWay
      /\ Victim!OnItsWay \subseteq {k}
  BY <1>1, VictimSums DEF VictimBooks, VictimCounts, VictimOnItsWay, Victim!OnItsWay
<1>3. ToSet(dram') = {k} \union ToSet(dram)
  BY <1>1, <1>2, PushFront DEF VictimBooks, VictimInv
<1>4. g[k] = item.size /\ \A x \in DOMAIN allObjects \ {k} : g[x] = f[x]
  BY <1>1 DEF Weights
<1>5. /\ IsFiniteSet(ToSet(dram)) /\ \A x \in ToSet(dram) : f[x] \in Nat
      /\ IsFiniteSet(ToSet(flash)) /\ \A x \in ToSet(flash) : f[x] \in Nat
  BY VictimWeights DEF VictimBooks
<1>6. /\ dramSize = SumFunctionOnSet(f, ToSet(dram))
      /\ flashSize = SumFunctionOnSet(f, ToSet(flash)) /\ flashSize =< FLASH_SIZE
      /\ DRAM_SIZE \in Nat
  BY VictimSums DEF VictimBooks, VictimCounts, Bytes
<1>7. (Bytes(ToSet(dram)))' = SumFunctionOnSet(g, ToSet(dram')) /\
      (Bytes(ToSet(flash)))' = SumFunctionOnSet(g, ToSet(flash'))
  BY DEF Bytes
<1> HIDE DEF f, g, k
<1>8. dramSize' = SumFunctionOnSet(g, ToSet(dram')) /\ dramSize' =< DRAM_SIZE
  <2>1. /\ SumFunctionOnSet(f, ToSet(dram)) \in Nat
        /\ SumFunctionOnSet(g, {k} \union ToSet(dram)) = SumFunctionOnSet(f, ToSet(dram)) + g[k]
    BY <1>2, <1>4, <1>5, WeighsMore
  <2>2. dramSize' = dramSize + item.size /\ ~ (item.size + dramSize > DRAM_SIZE)
    BY <1>1
  <2>3. SumFunctionOnSet(g, ToSet(dram')) = dramSize + item.size /\ dramSize \in Nat
    BY <1>3, <1>4, <1>6, <2>1
  <2> QED BY ONLY <1>2, <1>6, <2>2, <2>3
<1>9. flashSize' = SumFunctionOnSet(g, ToSet(flash')) /\ flashSize' =< FLASH_SIZE
  <2>1. Ints(f, ToSet(flash)) /\ \A x \in ToSet(flash) : g[x] = f[x]
    BY <1>2, <1>4, <1>5 DEF Ints
  <2> QED BY <1>1, <1>5, <1>6, <2>1, SumSame
<1>10. Victim!OnItsWay' = {}
  BY <1>1 DEF Victim!OnItsWay
<1>11. DOMAIN allObjects' = (ToSet(dram') \union ToSet(flash')) \union Victim!OnItsWay'
  BY <1>1, <1>2, <1>3, <1>10 DEF k
<1>12. VictimCounts'
  BY <1>7, <1>8, <1>9, <1>11 DEF VictimCounts
<1> QED BY <1>1, <1>12 DEF VictimOnItsWay, Victim!CrashesOnlyOversize

LEMMA VictimBooksStep ==
  ASSUME VictimBooks, Victim!Next \/ UNCHANGED Victim!vars
  PROVE  VictimBooks'
<1>1. VictimInv'
  BY VictimStep DEF VictimBooks
<1>2. CASE \E r \in Victim!Requests : Victim!Proc(r)
  BY <1>1, <1>2, VictimBooksProc DEF VictimBooks
<1>3. CASE Victim!Demote
  BY <1>1, <1>3, VictimBooksDemote DEF VictimBooks
<1>4. CASE Victim!Crash
  BY <1>4, VictimBooksCrash
<1>5. CASE Victim!Insert
  BY <1>1, <1>5, VictimBooksInsert DEF VictimBooks
<1>6. CASE UNCHANGED Victim!vars
  <2>1. /\ pc' = pc /\ item' = item /\ dram' = dram /\ flash' = flash
        /\ allObjects' = allObjects /\ dramSize' = dramSize /\ flashSize' = flashSize
    BY <1>6 DEF Victim!vars, Victim!sizeVars
  <2>2. (Bytes(ToSet(dram)))' = Bytes(ToSet(dram)) /\ (Bytes(ToSet(flash)))' = Bytes(ToSet(flash))
    BY <2>1 DEF Bytes, Weights
  <2>3. VictimCounts'
    BY <2>1, <2>2 DEF VictimBooks, VictimCounts, Victim!OnItsWay
  <2>4. VictimOnItsWay' /\ Victim!CrashesOnlyOversize'
    BY <2>1, VictimTerms DEF VictimBooks, VictimOnItsWay, Victim!CrashesOnlyOversize
  <2> QED BY <1>1, <2>3, <2>4 DEF VictimBooks
<1> QED BY <1>2, <1>3, <1>4, <1>5, <1>6 DEF Victim!Next, Victim!Proceed

(* The books say all that Victim!Consistent and Victim!TypeOK do. *)
LEMMA VictimIsConsistent ==
  ASSUME VictimBooks
  PROVE  Victim!Consistent /\ Victim!TypeOK
<1>1. /\ dram \in Seq(Keys) /\ flash \in Seq(Keys) /\ recency \in Seq(Keys)
      /\ IsInjective(dram) /\ IsInjective(flash)
      /\ \A x \in DOMAIN allObjects : allObjects[x] \in Items
      /\ \A x \in ToSet(dram) : x \in DOMAIN allObjects /\ allObjects[x].isInDram
      /\ \A x \in ToSet(flash) : x \in DOMAIN allObjects /\ ~ allObjects[x].isInDram
  BY DEF VictimBooks, VictimInv, TableKnows
<1>2. /\ DOMAIN allObjects = (ToSet(dram) \union ToSet(flash)) \union Victim!OnItsWay
      /\ \A x \in Victim!OnItsWay : x \notin ToSet(dram) \union ToSet(flash) /\ x \in Keys
      /\ ToSet(dram) \subseteq Keys /\ ToSet(flash) \subseteq Keys
  BY <1>1 DEF VictimBooks, VictimCounts, VictimOnItsWay, Victim!OnItsWay, ToSet
<1>3. DOMAIN allObjects \ Victim!OnItsWay = ToSet(dram) \union ToSet(flash)
  BY <1>2
<1>4. Len(dram) + Len(flash) = Cardinality(ToSet(dram) \union ToSet(flash))
  <2>1. /\ IsFiniteSet(ToSet(dram)) /\ Len(dram) = Cardinality(ToSet(dram))
        /\ IsFiniteSet(ToSet(flash)) /\ Len(flash) = Cardinality(ToSet(flash))
        /\ Cardinality(ToSet(dram)) \in Nat /\ Cardinality(ToSet(flash)) \in Nat
    BY <1>1, DistinctLength
  <2>2. ToSet(dram) \intersect ToSet(flash) = {}
    BY <1>1
  <2>3. Cardinality(ToSet(dram) \union ToSet(flash)) =
          Cardinality(ToSet(dram)) + Cardinality(ToSet(flash)) - Cardinality(ToSet(dram) \intersect ToSet(flash))
    BY <2>1, FS_Union
  <2>4. Cardinality(ToSet(dram) \intersect ToSet(flash)) = 0
    BY <2>2, FS_EmptySet
  <2> QED BY <2>1, <2>3, <2>4
<1>5. \A x \in DOMAIN allObjects \ Victim!OnItsWay :
        x \in ToSet(IF allObjects[x].isInDram THEN dram ELSE flash)
  BY <1>1, <1>3
<1>6. Victim!Consistent
  <2>1. \A k \in DOMAIN allObjects \ Victim!OnItsWay :
          k \in Victim!ToSet(IF allObjects[k].isInDram THEN dram ELSE flash)
    BY <1>5, VictimTerms
  <2>2. /\ Victim!ToSet(dram) \union Victim!ToSet(flash) = DOMAIN allObjects \ Victim!OnItsWay
        /\ Len(dram) + Len(flash) = Victim!Cardinality(DOMAIN allObjects \ Victim!OnItsWay)
    BY <1>3, <1>4, VictimTerms, VictimSums
  <2>3. /\ dramSize = Victim!SizeOf(dram) /\ dramSize =< DRAM_SIZE
        /\ flashSize = Victim!SizeOf(flash) /\ flashSize =< FLASH_SIZE
    BY VictimSums DEF VictimBooks, VictimCounts
  <2> QED BY <2>1, <2>2, <2>3 DEF Victim!Consistent
<1>7. Victim!TypeOK
  <2>1. DOMAIN allObjects \subseteq Keys
    BY <1>2
  <2>2. \A x \in DOMAIN allObjects : allObjects[x] \in [size : UpTo(DRAM_SIZE), isInDram : BOOLEAN]
    BY <1>1 DEF Items
  <2>3. dramSize \in Nat /\ flashSize \in Nat
    BY VictimWeights DEF VictimBooks, VictimCounts
  <2>4. pc \in {"ready", "insert", "crashed"}
    BY DEF VictimBooks, VictimOnItsWay
  <2> QED BY <1>1, <2>1, <2>2, <2>3, <2>4 DEF Victim!TypeOK
<1> QED BY <1>6, <1>7

-------------------------------------------------------------------------------
(* flashcache.                                                             *)

LEMMA FlashSums ==
  /\ \A q : Flash!SizeOf(q) = Bytes(ToSet(q))
  /\ \A G : Flash!Cardinality(G) = Cardinality(G)
  /\ \A q, i, x : Flash!InsertAt(q, i, x) = InsertAt(q, i, x)
  /\ \A q : Flash!Front(q) = Front(q)
  /\ \A M : Flash!Min(M) = Min(M)
  /\ DRAM_SIZE \in Nat /\ FLASH_SIZE \in Nat
  /\ \A s \in UpTo(DRAM_SIZE) : s \in Nat /\ s > 0 /\ s =< DRAM_SIZE
<1>1. \A q : Flash!SizeOf(q) = Bytes(ToSet(q))
  BY FlashTerms DEF Flash!SizeOf, Bytes, Weights
<1>2. \A q, i, x : Flash!InsertAt(q, i, x) = InsertAt(q, i, x)
  BY DEF Flash!InsertAt, InsertAt
<1>3. \A q : Flash!Front(q) = Front(q)
  BY DEF Flash!Front, Front
<1>4. \A M : Flash!Min(M) = Min(M)
  BY DEF Flash!Min, Min
<1>5. \A G : Flash!Cardinality(G) = Cardinality(G)
  BY DEF Flash!Cardinality, Cardinality
<1>6. DRAM_SIZE \in Nat /\ FLASH_SIZE \in Nat /\ UpTo(DRAM_SIZE) \subseteq 1 .. DRAM_SIZE
  BY PolicyAssumptions DEF Flash!TiersAssumption
<1> QED BY <1>1, <1>2, <1>3, <1>4, <1>5, <1>6

(* An element that is inserted somewhere. *)
LEMMA InsertedAt ==
  ASSUME NEW G, NEW q \in Seq(G), IsInjective(q), NEW e \in G, e \notin ToSet(q),
         NEW j \in 1 .. Len(q) + 1, NEW p, p = InsertAt(q, j, e)
  PROVE  p \in Seq(G) /\ ToSet(p) = {e} \union ToSet(q) /\ IsInjective(p)
<1> DEFINE n == j - 1
           head == Upto(q, n)
           tail == Behind(q, n)
           rest == <<e>> \o tail
<1>1. n \in 0 .. Len(q) /\ n + 1 = j
  OBVIOUS
<1>2. p = head \o rest
  <2>1. SubSeq(q, 1, n) = head /\ SubSeq(q, n + 1, Len(q)) = tail
    BY DEF Upto, Behind
  <2>2. p = (head \o <<e>>) \o tail
    BY <1>1, <2>1 DEF InsertAt
  <2>3. head \in Seq(G) /\ tail \in Seq(G) /\ <<e>> \in Seq(G)
    <3> HIDE DEF n
    <3> QED BY <1>1, SplitAt
  <2> HIDE DEF head, tail
  <2> QED BY <2>2, <2>3
<1> HIDE DEF n
<1>3. /\ head \in Seq(G) /\ tail \in Seq(G) /\ IsInjective(head) /\ IsInjective(tail)
      /\ ToSet(head) \union ToSet(tail) = ToSet(q) /\ ToSet(head) \intersect ToSet(tail) = {}
  BY <1>1, SplitAt
<1> HIDE DEF head, tail
<1>4. rest \in Seq(G) /\ ToSet(rest) = {e} \union ToSet(tail) /\ IsInjective(rest)
  BY <1>3, PushFront
<1> HIDE DEF rest
<1>5. ToSet(head) \intersect ToSet(rest) = {}
  BY <1>3, <1>4
<1>6. p \in Seq(G) /\ ToSet(p) = ToSet(head) \union ToSet(rest) /\ IsInjective(p)
  <2>1. /\ head \in Seq(G) /\ rest \in Seq(G) /\ p = head \o rest
        /\ IsInjective(head) /\ IsInjective(rest)
    BY <1>2, <1>3, <1>4
  <2> QED BY ONLY <1>5, <2>1, Concatenation
<1> QED BY <1>3, <1>4, <1>6

FlashKeys == DOMAIN allObjects \ DramKeys

(* The lists of the two tiers hold what the hash table says, each once,    *)
FlashLists ==
  /\ dram \in Seq(FewKeys) /\ IsInjective(dram) /\ ToSet(dram) = DramKeys
  /\ flash \in Seq(FewKeys) /\ IsInjective(flash) /\ ToSet(flash) = FlashKeys

(* their bytes are counted, and no more than fits,                         *)
FlashTotals ==
  /\ dramSize = Bytes(DramKeys) /\ dramSize =< DRAM_SIZE
  /\ flashSize = Bytes(FlashKeys) /\ flashSize =< FLASH_SIZE

(* and there is never less credit than nothing.                            *)
FlashAtWork ==
  /\ pc \in {"ready", "insert"} /\ newItem \in Flash!Requests \union {Flash!NoItem}
  /\ credits \in 0 .. DRAM_SIZE

FlashBooks == FlashInv /\ FlashLists /\ FlashTotals /\ FlashAtWork

LEMMA FlashWeights ==
  ASSUME FlashInv
  PROVE  /\ IsFiniteSet(DOMAIN allObjects) /\ IsFiniteSet(DramKeys) /\ IsFiniteSet(FlashKeys)
         /\ \A x \in DOMAIN allObjects : Weights[x] = allObjects[x].size /\ Weights[x] \in Nat
                                         /\ Weights[x] =< DRAM_SIZE
         /\ Bytes(DramKeys) \in Nat /\ Bytes(FlashKeys) \in Nat
         /\ DramKeys \subseteq DOMAIN allObjects /\ FlashKeys \subseteq DOMAIN allObjects
<1>1. IsFiniteSet(DOMAIN allObjects)
  BY DistinctLength DEF FlashInv, ListsAreRecency
<1>2. DramKeys \subseteq DOMAIN allObjects /\ FlashKeys \subseteq DOMAIN allObjects
  BY DEF DramKeys, FlashKeys
<1>3. IsFiniteSet(DramKeys) /\ IsFiniteSet(FlashKeys)
  BY <1>1, <1>2, FS_Subset
<1>4. ASSUME NEW x \in DOMAIN allObjects
      PROVE  Weights[x] = allObjects[x].size /\ Weights[x] \in Nat /\ Weights[x] =< DRAM_SIZE
  <2>1. allObjects[x].size \in UpTo(DRAM_SIZE)
    BY DEF FlashInv, FlashItems
  <2> QED BY <2>1, FlashSums DEF Weights
<1> QED BY <1>1, <1>2, <1>3, <1>4, SumNat DEF Bytes

LEMMA FlashBooksInit ==
  ASSUME Flash!Init
  PROVE  FlashBooks
<1>1. /\ pc = "ready" /\ newItem = Flash!NoItem /\ dram = <<>> /\ flash = <<>>
      /\ DOMAIN allObjects = {} /\ credits = 0 /\ dramSize = 0 /\ flashSize = 0
  BY DEF Flash!Init
<1>2. ToSet(<<>>) = {} /\ IsInjective(<<>>) /\ <<>> \in Seq(FewKeys)
  BY DEF ToSet, IsInjective
<1>3. Bytes({}) = 0
  BY SumEmpty DEF Bytes
<1>4. DramKeys = {} /\ FlashKeys = {}
  BY <1>1 DEF DramKeys, FlashKeys
<1>5. FlashLists
  BY <1>1, <1>2, <1>4 DEF FlashLists
<1>6. FlashTotals
  BY <1>1, <1>3, <1>4, FlashSums DEF FlashTotals
<1>7. FlashAtWork
  BY <1>1, FlashSums DEF FlashAtWork
<1> QED BY <1>5, <1>6, <1>7, FlashInit DEF FlashBooks

LEMMA CreditsGrow ==
  ASSUME credits \in 0 .. DRAM_SIZE, Flash!UpdateCredits
  PROVE  credits' \in 0 .. DRAM_SIZE
<1>1. PICK gain \in {0, DRAM_SIZE} : credits' = Min({credits + gain, DRAM_SIZE})
  BY FlashSums DEF Flash!UpdateCredits
<1>2. DRAM_SIZE \in Nat /\ gain \in Nat /\ credits \in Nat
  BY FlashSums
<1>3. Min({credits + gain, DRAM_SIZE}) = IF credits + gain =< DRAM_SIZE THEN credits + gain ELSE DRAM_SIZE
  BY <1>2, MinOfTwo
<1> QED BY <1>1, <1>2, <1>3

LEMMA FlashBooksHit ==
  ASSUME FlashBooks, pc = "ready", NEW r \in Flash!Requests, Flash!Hit(r), Flash!UpdateCredits
  PROVE  FlashLists' /\ FlashTotals' /\ FlashAtWork'
<1> DEFINE k == r.kid
           n == CHOOSE n \in 0 .. Len(dram) : dram[n + 1] = k
<1>1. /\ k \in DOMAIN allObjects /\ k \in FewKeys /\ allObjects' = allObjects /\ pc' = pc
      /\ newItem' = newItem /\ flash' = flash /\ dramSize' = dramSize /\ flashSize' = flashSize
  BY DEF Flash!Hit, Flash!IsHit, Flash!Requests
<1>2. IF allObjects[k].isInDram
      THEN \E i \in n + 1 .. Len(Erase(dram, {k})) + 1 : dram' = InsertAt(Erase(dram, {k}), i, k)
      ELSE dram' = dram
  BY FlashTerms, FlashSums DEF Flash!Hit, Flash!Renew, Flash!DramAdd
<1>3. DramKeys' = DramKeys /\ FlashKeys' = FlashKeys /\ Weights' = Weights
  BY <1>1 DEF DramKeys, FlashKeys, Weights
<1>4. /\ dram \in Seq(FewKeys) /\ IsInjective(dram) /\ ToSet(dram) = DramKeys
  BY DEF FlashBooks, FlashLists
<1>5. dram' \in Seq(FewKeys) /\ IsInjective(dram') /\ ToSet(dram') = DramKeys
  <2>1. CASE ~ allObjects[k].isInDram
    BY <1>2, <1>4, <2>1
  <2>2. CASE allObjects[k].isInDram
    <3>1. k \in ToSet(dram)
      BY <1>1, <1>4, <2>2 DEF DramKeys
    <3>2. n \in 0 .. Len(dram)
      <4>1. PICK j \in DOMAIN dram : dram[j] = k
        BY <3>1 DEF ToSet
      <4>2. j \in 1 .. Len(dram) /\ Len(dram) \in Nat
        BY <1>4, <4>1
      <4>3. j - 1 \in 0 .. Len(dram) /\ (j - 1) + 1 = j
        BY <4>2
      <4> QED BY <4>1, <4>3
    <3>3. /\ Erase(dram, {k}) \in Seq(FewKeys) /\ IsInjective(Erase(dram, {k}))
          /\ ToSet(Erase(dram, {k})) = ToSet(dram) \ {k}
      BY <1>4, EraseSet, EraseDistinct
    <3> HIDE DEF n, k
    <3>4. PICK i \in n + 1 .. Len(Erase(dram, {k})) + 1 : dram' = InsertAt(Erase(dram, {k}), i, k)
      BY <1>2, <2>2
    <3>5. i \in 1 .. Len(Erase(dram, {k})) + 1
      BY <3>2, <3>3, <3>4
    <3>6. dram' \in Seq(FewKeys) /\ ToSet(dram') = {k} \union ToSet(Erase(dram, {k})) /\ IsInjective(dram')
      <4> DEFINE q == Erase(dram, {k})
      <4>1. /\ q \in Seq(FewKeys) /\ IsInjective(q) /\ k \in FewKeys /\ k \notin ToSet(q)
            /\ i \in 1 .. Len(q) + 1 /\ dram' = InsertAt(q, i, k)
        BY <3>3, <3>4, <3>5, <1>1 DEF k
      <4> HIDE DEF q
      <4>2. dram' \in Seq(FewKeys) /\ ToSet(dram') = {k} \union ToSet(q) /\ IsInjective(dram')
        BY ONLY <4>1, InsertedAt
      <4> QED BY <4>2 DEF q
    <3> QED BY <1>4, <3>1, <3>3, <3>6
  <2> QED BY <2>1, <2>2
<1>6. FlashLists'
  BY <1>1, <1>3, <1>5 DEF FlashBooks, FlashLists
<1>7. FlashTotals'
  BY <1>1, <1>3 DEF FlashBooks, FlashTotals, Bytes
<1>8. FlashAtWork'
  BY <1>1, CreditsGrow DEF FlashBooks, FlashAtWork
<1> QED BY <1>6, <1>7, <1>8

(* The tier of the object gives back its bytes. *)
LEMMA FlashBooksTakesOut ==
  ASSUME FlashBooks, NEW k \in DOMAIN allObjects, Flash!TakeOut(k)
  PROVE  FlashLists' /\ FlashTotals'
<1> DEFINE f == Weights
           g == Weights'
<1>1. /\ allObjects' = [x \in DOMAIN allObjects \ {k} |-> allObjects[x]]
      /\ IF allObjects[k].isInDram
         THEN /\ dram' = Erase(dram, {k}) /\ flash' = flash
              /\ dramSize' = dramSize - allObjects[k].size /\ flashSize' = flashSize
         ELSE /\ flash' = Erase(flash, {k}) /\ dram' = dram
              /\ flashSize' = flashSize - allObjects[k].size /\ dramSize' = dramSize
  BY FlashTerms DEF Flash!TakeOut, Flash!Unbind
<1>2. /\ DramKeys' = DramKeys \ {k} /\ FlashKeys' = FlashKeys \ {k}
      /\ k \in DramKeys <=> allObjects[k].isInDram
      /\ k \in FlashKeys <=> ~ allObjects[k].isInDram
      /\ \A x \in DOMAIN allObjects \ {k} : g[x] = f[x]
  BY <1>1 DEF DramKeys, FlashKeys, Weights
<1>3. /\ dram \in Seq(FewKeys) /\ IsInjective(dram) /\ ToSet(dram) = DramKeys
      /\ flash \in Seq(FewKeys) /\ IsInjective(flash) /\ ToSet(flash) = FlashKeys
  BY DEF FlashBooks, FlashLists
<1>4. /\ Erase(dram, {k}) \in Seq(FewKeys) /\ IsInjective(Erase(dram, {k}))
      /\ ToSet(Erase(dram, {k})) = ToSet(dram) \ {k}
      /\ Erase(flash, {k}) \in Seq(FewKeys) /\ IsInjective(Erase(flash, {k}))
      /\ ToSet(Erase(flash, {k})) = ToSet(flash) \ {k}
  BY <1>3, EraseSet, EraseDistinct
<1>5. FlashLists'
  <2>1. dram' \in Seq(FewKeys) /\ IsInjective(dram') /\ ToSet(dram') = DramKeys \ {k}
    BY <1>1, <1>2, <1>3, <1>4
  <2>2. flash' \in Seq(FewKeys) /\ IsInjective(flash') /\ ToSet(flash') = FlashKeys \ {k}
    BY <1>1, <1>2, <1>3, <1>4
  <2> QED BY <1>2, <2>1, <2>2 DEF FlashLists
<1>6. /\ IsFiniteSet(DramKeys) /\ IsFiniteSet(FlashKeys)
      /\ \A x \in DramKeys : f[x] \in Nat /\ x \in DOMAIN allObjects
      /\ \A x \in FlashKeys : f[x] \in Nat /\ x \in DOMAIN allObjects
      /\ f[k] = allObjects[k].size /\ f[k] \in Nat
  BY FlashWeights DEF FlashBooks
<1>7. /\ dramSize = SumFunctionOnSet(f, DramKeys) /\ dramSize =< DRAM_SIZE
      /\ flashSize = SumFunctionOnSet(f, FlashKeys) /\ flashSize =< FLASH_SIZE
      /\ DRAM_SIZE \in Nat /\ FLASH_SIZE \in Nat
  BY FlashSums DEF FlashBooks, FlashTotals, Bytes
<1>8. (Bytes(DramKeys))' = SumFunctionOnSet(g, DramKeys') /\
      (Bytes(FlashKeys))' = SumFunctionOnSet(g, FlashKeys')
  BY DEF Bytes
<1> HIDE DEF f, g
<1>9. dramSize' = SumFunctionOnSet(g, DramKeys \ {k}) /\ dramSize' =< DRAM_SIZE
  <2>1. /\ SumFunctionOnSet(g, DramKeys \ {k}) \in Nat /\ SumFunctionOnSet(f, DramKeys) \in Nat
        /\ SumFunctionOnSet(g, DramKeys \ {k}) =
             SumFunctionOnSet(f, DramKeys) - (IF k \in DramKeys THEN f[k] ELSE 0)
    BY <1>2, <1>6, WeighsLess
  <2> QED BY <1>1, <1>2, <1>6, <1>7, <2>1
<1>10. flashSize' = SumFunctionOnSet(g, FlashKeys \ {k}) /\ flashSize' =< FLASH_SIZE
  <2>1. /\ SumFunctionOnSet(g, FlashKeys \ {k}) \in Nat /\ SumFunctionOnSet(f, FlashKeys) \in Nat
        /\ SumFunctionOnSet(g, FlashKeys \ {k}) =
             SumFunctionOnSet(f, FlashKeys) - (IF k \in FlashKeys THEN f[k] ELSE 0)
    BY <1>2, <1>6, WeighsLess
  <2> QED BY <1>1, <1>2, <1>6, <1>7, <2>1
<1>11. FlashTotals'
  BY <1>2, <1>8, <1>9, <1>10 DEF FlashTotals
<1> QED BY <1>5, <1>11

LEMMA FlashBooksMiss ==
  ASSUME FlashBooks, NEW r \in Flash!Requests, Flash!Miss(r), Flash!UpdateCredits
  PROVE  FlashLists' /\ FlashTotals' /\ FlashAtWork'
<1>1. pc' = "insert" /\ newItem' = [kid |-> r.kid, size |-> r.size]
  BY DEF Flash!Miss
<1>2. newItem' \in Flash!Requests
  BY <1>1 DEF Flash!Requests
<1>3. FlashAtWork'
  BY <1>1, <1>2, CreditsGrow DEF FlashBooks, FlashAtWork
<1>4. CASE r.kid \in DOMAIN allObjects
  BY <1>3, <1>4, FlashBooksTakesOut DEF Flash!Miss
<1>5. CASE r.kid \notin DOMAIN allObjects
  <2>1. /\ dram' = dram /\ flash' = flash /\ allObjects' = allObjects
        /\ dramSize' = dramSize /\ flashSize' = flashSize
    BY <1>5 DEF Flash!Miss, Flash!tierVars
  <2>2. DramKeys' = DramKeys /\ FlashKeys' = FlashKeys /\ Weights' = Weights
    BY <2>1 DEF DramKeys, FlashKeys, Weights
  <2> QED BY <1>3, <2>1, <2>2 DEF FlashBooks, FlashLists, FlashTotals, Bytes
<1> QED BY <1>4, <1>5

LEMMA FlashBooksInsert ==
  ASSUME FlashBooks, Flash!Insert
  PROVE  FlashLists' /\ FlashTotals' /\ FlashAtWork'
<1> DEFINE k == newItem.kid
           f == Weights
           g == Weights'
<1>1. /\ pc = "insert" /\ pc' = "ready" /\ newItem' = Flash!NoItem /\ credits' = credits
      /\ flash' = flash /\ flashSize' = flashSize
      /\ newItem.size + dramSize =< DRAM_SIZE /\ dramSize' = dramSize + newItem.size
      /\ DOMAIN allObjects' = DOMAIN allObjects \union {k}
      /\ allObjects'[k] = [size |-> newItem.size, isInDram |-> TRUE]
      /\ \A x \in DOMAIN allObjects : x # k => allObjects'[x] = allObjects[x]
  BY DEF Flash!Insert, Flash!HasRoom, Flash!Bind
<1>2. /\ k \in FewKeys /\ newItem.size \in UpTo(DRAM_SIZE) /\ k \notin DOMAIN allObjects
  BY <1>1 DEF FlashBooks, FlashInv
<1>3. PICK i \in 1 .. Len(dram) + 1 : dram' = InsertAt(dram, i, k)
  BY FlashSums DEF Flash!Insert, Flash!DramAdd
<1>4. /\ dram \in Seq(FewKeys) /\ IsInjective(dram) /\ ToSet(dram) = DramKeys
      /\ k \notin ToSet(dram)
  BY <1>2 DEF FlashBooks, FlashLists, DramKeys
<1>5. DramKeys' = {k} \union DramKeys /\ FlashKeys' = FlashKeys
  BY <1>1, <1>2 DEF DramKeys, FlashKeys
<1>6. g[k] = newItem.size /\ \A x \in DOMAIN allObjects : g[x] = f[x]
  BY <1>1, <1>2 DEF Weights
<1>7. FlashLists'
  <2>1. dram' \in Seq(FewKeys) /\ ToSet(dram') = {k} \union ToSet(dram) /\ IsInjective(dram')
    <3> HIDE DEF k
    <3> QED BY <1>2, <1>3, <1>4, InsertedAt
  <2> QED BY <1>1, <1>4, <1>5, <2>1 DEF FlashBooks, FlashLists
<1>8. /\ IsFiniteSet(DramKeys) /\ IsFiniteSet(FlashKeys)
      /\ \A x \in DramKeys : f[x] \in Nat /\ x \in DOMAIN allObjects
      /\ \A x \in FlashKeys : f[x] \in Nat /\ x \in DOMAIN allObjects
      /\ newItem.size \in Nat
  BY <1>2, FlashWeights, FlashSums DEF FlashBooks
<1>9. /\ dramSize = SumFunctionOnSet(f, DramKeys)
      /\ flashSize = SumFunctionOnSet(f, FlashKeys) /\ flashSize =< FLASH_SIZE
      /\ DRAM_SIZE \in Nat /\ FLASH_SIZE \in Nat
  BY FlashSums DEF FlashBooks, FlashTotals, Bytes
<1>10. (Bytes(DramKeys))' = SumFunctionOnSet(g, DramKeys') /\
       (Bytes(FlashKeys))' = SumFunctionOnSet(g, FlashKeys')
  BY DEF Bytes
<1> HIDE DEF f, g, k
<1>11. dramSize' = SumFunctionOnSet(g, DramKeys') /\ dramSize' =< DRAM_SIZE
  <2>1. k \notin DramKeys /\ g[k] \in Nat /\ \A x \in DramKeys : g[x] = f[x]
    BY <1>2, <1>6, <1>8
  <2>2. /\ SumFunctionOnSet(f, DramKeys) \in Nat
        /\ SumFunctionOnSet(g, {k} \union DramKeys) = SumFunctionOnSet(f, DramKeys) + g[k]
    BY <1>8, <2>1, WeighsMore
  <2>3. SumFunctionOnSet(g, DramKeys') = dramSize + newItem.size /\ dramSize \in Nat
    BY <1>5, <1>6, <1>9, <2>2
  <2> QED BY <1>1, <1>8, <1>9, <2>3
<1>12. flashSize' = SumFunctionOnSet(g, FlashKeys') /\ flashSize' =< FLASH_SIZE
  <2>1. Ints(f, FlashKeys) /\ \A x \in FlashKeys : g[x] = f[x]
    BY <1>6, <1>8 DEF Ints
  <2> QED BY <1>1, <1>5, <1>8, <1>9, <2>1, SumSame
<1>13. FlashTotals'
  BY <1>10, <1>11, <1>12 DEF FlashTotals
<1>14. FlashAtWork'
  BY <1>1 DEF FlashBooks, FlashAtWork
<1> QED BY <1>7, <1>13, <1>14

(* While room is made DRAM is not empty. *)
LEMMA FlashHasVictim ==
  ASSUME FlashBooks, Flash!MakesRoom
  PROVE  Flash!mfuKid = Last(dram) /\ Last(dram) \in DramKeys /\ dram # <<>>
<1>1. /\ pc = "insert" /\ ~ (newItem.size + dramSize =< DRAM_SIZE)
  BY DEF Flash!MakesRoom, Flash!HasRoom
<1>2. newItem.size \in UpTo(DRAM_SIZE)
  BY <1>1 DEF FlashBooks, FlashInv
<1>3. dramSize # 0
  BY <1>1, <1>2, FlashSums
<1>4. DramKeys # {}
  BY <1>3, SumEmpty DEF FlashBooks, FlashTotals, Bytes
<1>5. dram \in Seq(FewKeys) /\ ToSet(dram) = DramKeys
  BY DEF FlashBooks, FlashLists
<1>6. dram # <<>>
  <2>1. ToSet(<<>>) = {}
    BY DEF ToSet
  <2> QED BY <1>4, <1>5, <2>1
<1>7. Last(dram) \in ToSet(dram)
  <2>1. ToSet(dram) = ToSet(Front(dram)) \union {Last(dram)}
    BY ONLY <1>5, <1>6, FrontAndLast, SMT
  <2> QED BY ONLY <2>1, SMT
<1>8. Flash!mfuKid = Last(dram)
  BY FlashTerms DEF Flash!mfuKid
<1> QED BY <1>5, <1>6, <1>7, <1>8

LEMMA FlashBooksMoveToFlash ==
  ASSUME FlashBooks, Flash!MoveToFlash
  PROVE  FlashLists' /\ FlashTotals' /\ FlashAtWork'
<1> DEFINE k == Last(dram)
           f == Weights
           g == Weights'
<1>1. /\ Flash!MakesRoom /\ k \in DramKeys /\ dram # <<>> /\ Flash!mfuKid = k
  BY FlashHasVictim DEF Flash!MoveToFlash
<1>2. /\ pc' = pc /\ newItem' = newItem /\ credits >= allObjects[k].size
      /\ flashSize + allObjects[k].size =< FLASH_SIZE
      /\ dram' = Front(dram) /\ flash' = <<k>> \o flash
      /\ allObjects' = [allObjects EXCEPT ![k].isInDram = FALSE]
      /\ credits' = credits - allObjects[k].size
      /\ dramSize' = dramSize - allObjects[k].size
      /\ flashSize' = flashSize + allObjects[k].size
  BY <1>1, FlashTerms, FlashSums
     DEF Flash!MoveToFlash, Flash!MakesRoom, Flash!Paid, Flash!FitsInFlash
<1>3. /\ dram \in Seq(FewKeys) /\ IsInjective(dram) /\ ToSet(dram) = DramKeys
      /\ flash \in Seq(FewKeys) /\ IsInjective(flash) /\ ToSet(flash) = FlashKeys
  BY DEF FlashBooks, FlashLists
<1>4. /\ dram' \in Seq(FewKeys) /\ IsInjective(dram') /\ k \in FewKeys
      /\ ToSet(dram) = ToSet(dram') \union {k} /\ k \notin ToSet(dram')
  BY <1>1, <1>2, <1>3, FrontAndLast
<1> HIDE DEF k
<1>5. k \in DOMAIN allObjects /\ k \notin FlashKeys
  BY <1>1 DEF DramKeys, FlashKeys
<1>6. /\ DOMAIN allObjects' = DOMAIN allObjects
      /\ \A x \in DOMAIN allObjects : x # k => allObjects'[x] = allObjects[x]
      /\ allObjects'[k] = [allObjects[k] EXCEPT !.isInDram = FALSE]
  BY <1>2, <1>5
<1>7. allObjects'[k].size = allObjects[k].size /\ ~ allObjects'[k].isInDram
  <2>1. allObjects[k] \in FlashItems
    BY <1>5 DEF FlashBooks, FlashInv
  <2> QED BY <1>6, <2>1 DEF FlashItems
<1>8. DramKeys' = DramKeys \ {k} /\ FlashKeys' = {k} \union FlashKeys
  BY <1>5, <1>6, <1>7 DEF DramKeys, FlashKeys
<1>9. \A x \in DOMAIN allObjects : g[x] = f[x]
  BY <1>6, <1>7 DEF Weights
<1>10. FlashLists'
  <2>1. flash' \in Seq(FewKeys) /\ IsInjective(flash') /\ ToSet(flash') = {k} \union ToSet(flash)
    BY <1>2, <1>3, <1>4, <1>5, PushFront
  <2>2. ToSet(dram') = DramKeys'
    BY <1>3, <1>4, <1>8
  <2> QED BY <1>3, <1>4, <1>8, <2>1, <2>2 DEF FlashLists
<1>11. /\ IsFiniteSet(DramKeys) /\ IsFiniteSet(FlashKeys)
       /\ \A x \in DramKeys : f[x] \in Nat /\ x \in DOMAIN allObjects
       /\ \A x \in FlashKeys : f[x] \in Nat /\ x \in DOMAIN allObjects
       /\ f[k] = allObjects[k].size /\ f[k] \in Nat
  BY <1>5, FlashWeights DEF FlashBooks
<1>12. /\ dramSize = SumFunctionOnSet(f, DramKeys) /\ dramSize =< DRAM_SIZE
       /\ flashSize = SumFunctionOnSet(f, FlashKeys) /\ flashSize =< FLASH_SIZE
       /\ DRAM_SIZE \in Nat /\ FLASH_SIZE \in Nat
  BY FlashSums DEF FlashBooks, FlashTotals, Bytes
<1>13. (Bytes(DramKeys))' = SumFunctionOnSet(g, DramKeys') /\
       (Bytes(FlashKeys))' = SumFunctionOnSet(g, FlashKeys')
  BY DEF Bytes
<1> HIDE DEF f, g
<1>14. dramSize' = SumFunctionOnSet(g, DramKeys') /\ dramSize' =< DRAM_SIZE
  <2>1. /\ SumFunctionOnSet(g, DramKeys \ {k}) \in Nat /\ SumFunctionOnSet(f, DramKeys) \in Nat
        /\ SumFunctionOnSet(g, DramKeys \ {k}) =
             SumFunctionOnSet(f, DramKeys) - (IF k \in DramKeys THEN f[k] ELSE 0)
    BY <1>9, <1>11, WeighsLess
  <2> QED BY <1>1, <1>2, <1>8, <1>11, <1>12, <2>1
<1>15. flashSize' = SumFunctionOnSet(g, FlashKeys') /\ flashSize' =< FLASH_SIZE
  <2>1. g[k] \in Nat /\ \A x \in FlashKeys : g[x] = f[x]
    BY <1>5, <1>9, <1>11
  <2>2. IsFiniteSet(FlashKeys) /\ k \notin FlashKeys /\ \A x \in FlashKeys : f[x] \in Nat
    BY <1>5, <1>11
  <2>3. /\ SumFunctionOnSet(g, {k} \union FlashKeys) \in Nat /\ SumFunctionOnSet(f, FlashKeys) \in Nat
        /\ SumFunctionOnSet(g, {k} \union FlashKeys) = SumFunctionOnSet(f, FlashKeys) + g[k]
    BY ONLY <2>1, <2>2, WeighsMore
  <2>4. g[k] = allObjects[k].size
    BY <1>5, <1>9, <1>11
  <2> QED BY <1>2, <1>8, <1>11, <1>12, <2>3, <2>4
<1>16. FlashTotals'
  BY <1>13, <1>14, <1>15 DEF FlashTotals
<1>17. FlashAtWork'
  <2>1. /\ credits \in 0 .. DRAM_SIZE /\ DRAM_SIZE \in Nat
        /\ pc \in {"ready", "insert"} /\ newItem \in Flash!Requests \union {Flash!NoItem}
    BY FlashSums DEF FlashBooks, FlashAtWork
  <2>2. credits' \in 0 .. DRAM_SIZE
    BY <1>2, <1>11, <2>1
  <2> QED BY <1>2, <2>1, <2>2 DEF FlashAtWork
<1> QED BY <1>10, <1>16, <1>17

LEMMA FlashBooksEvictGlobal ==
  ASSUME FlashBooks, Flash!EvictGlobalLru
  PROVE  FlashLists' /\ FlashTotals' /\ FlashAtWork'
<1>1. /\ Flash!MakesRoom /\ Flash!TakeOut(Last(globalLru)) /\ credits' = credits
      /\ pc' = pc /\ newItem' = newItem
  BY FlashTerms DEF Flash!EvictGlobalLru, Flash!MakesRoom
<1>2. DramKeys # {} /\ DramKeys \subseteq DOMAIN allObjects
  BY <1>1, FlashHasVictim DEF DramKeys
<1>3. globalLru \in Seq(FewKeys) /\ ToSet(globalLru) = DOMAIN allObjects
  BY DEF FlashBooks, FlashInv, ListsAreRecency
<1>4. Last(globalLru) \in DOMAIN allObjects
  <2>1. globalLru # <<>>
    <3>1. ToSet(<<>>) = {}
      BY DEF ToSet
    <3> QED BY <1>2, <1>3, <3>1
  <2> QED BY <1>3, <2>1, FrontAndLast
<1> QED BY <1>1, <1>4, FlashBooksTakesOut DEF FlashBooks, FlashAtWork

(* The end of dramLru leaves the cache; the rest of DRAM and flash stay.   *)
LEMMA FlashBooksEvictDram ==
  ASSUME FlashBooks, Flash!EvictDramLru
  PROVE  FlashLists' /\ FlashTotals' /\ FlashAtWork'
<1> DEFINE gone == Behind(dramLru, StaysInDram)
           O == ToSet(gone)
           f == Weights
           g == Weights'
<1>1. /\ pc = "insert" /\ pc' = pc /\ newItem' = newItem /\ credits' = credits
      /\ flash' = flash /\ flashSize' = flashSize
      /\ dram' = Erase(dram, O) /\ dramSize' = dramSize - Bytes(O)
      /\ allObjects' = [x \in DOMAIN allObjects \ O |-> allObjects[x]]
  BY FlashTerms, FlashSums
     DEF Flash!EvictDramLru, Flash!MakesRoom, Flash!Unbind, Behind, StaysInDram
<1>2. StaysInDram \in 0 .. Len(dramLru)
  BY <1>1, DramStays DEF FlashBooks
<1>3. dramLru \in Seq(FewKeys) /\ ToSet(dramLru) = DramKeys
  BY DEF FlashBooks, FlashInv, ListsAreRecency
<1>4. O \subseteq DramKeys
  BY <1>2, <1>3, SplitAt
<1> HIDE DEF gone, O
<1>5. DramKeys' = DramKeys \ O /\ FlashKeys' = FlashKeys /\ \A x \in DOMAIN allObjects \ O : g[x] = f[x]
  BY <1>1, <1>4 DEF DramKeys, FlashKeys, Weights
<1>6. FlashLists'
  <2>1. dram' \in Seq(FewKeys) /\ IsInjective(dram') /\ ToSet(dram') = ToSet(dram) \ O
    BY <1>1, EraseSet, EraseDistinct DEF FlashBooks, FlashLists
  <2> QED BY <1>1, <1>5, <2>1 DEF FlashBooks, FlashLists
<1>7. /\ IsFiniteSet(DramKeys) /\ IsFiniteSet(FlashKeys)
      /\ \A x \in DramKeys : f[x] \in Nat /\ x \in DOMAIN allObjects
      /\ \A x \in FlashKeys : f[x] \in Nat /\ x \in DOMAIN allObjects /\ x \notin DramKeys
  BY FlashWeights DEF FlashBooks, FlashKeys
<1>8. /\ dramSize = SumFunctionOnSet(f, DramKeys) /\ dramSize =< DRAM_SIZE
      /\ flashSize = SumFunctionOnSet(f, FlashKeys) /\ flashSize =< FLASH_SIZE
      /\ DRAM_SIZE \in Nat /\ FLASH_SIZE \in Nat /\ Bytes(O) = SumFunctionOnSet(f, O)
  BY FlashSums DEF FlashBooks, FlashTotals, Bytes
<1>9. (Bytes(DramKeys))' = SumFunctionOnSet(g, DramKeys') /\
      (Bytes(FlashKeys))' = SumFunctionOnSet(g, FlashKeys')
  BY DEF Bytes
<1> HIDE DEF f, g
<1>10. dramSize' = SumFunctionOnSet(g, DramKeys') /\ dramSize' =< DRAM_SIZE
  <2> DEFINE D == DramKeys \ O
  <2>1. DramKeys' = D
    BY <1>5
  <2>2. /\ D \union O = DramKeys /\ D \intersect O = {} /\ \A x \in D : g[x] = f[x]
        /\ IsFiniteSet(DramKeys) /\ \A x \in DramKeys : f[x] \in Nat
    BY <1>4, <1>5, <1>7
  <2> HIDE DEF D
  <2>3. SumFunctionOnSet(f, DramKeys) = SumFunctionOnSet(g, D) + SumFunctionOnSet(f, O)
    BY ONLY <2>2, WeighsInTwo
  <2>4. SumFunctionOnSet(g, D) \in Nat
    BY ONLY <2>2, WeighsInTwo
  <2>5. SumFunctionOnSet(f, O) \in Nat
    BY ONLY <2>2, WeighsInTwo
  <2> QED BY <1>1, <1>8, <2>1, <2>3, <2>4, <2>5
<1>11. flashSize' = SumFunctionOnSet(g, FlashKeys') /\ flashSize' =< FLASH_SIZE
  <2>1. Ints(f, FlashKeys) /\ \A x \in FlashKeys : g[x] = f[x]
    BY <1>4, <1>5, <1>7 DEF Ints
  <2> QED BY <1>1, <1>5, <1>7, <1>8, <2>1, SumSame
<1>12. FlashTotals'
  BY <1>9, <1>10, <1>11 DEF FlashTotals
<1>13. FlashAtWork'
  BY <1>1 DEF FlashBooks, FlashAtWork
<1> QED BY <1>6, <1>12, <1>13

LEMMA FlashBooksStep ==
  ASSUME FlashBooks, Flash!Next \/ UNCHANGED Flash!vars
  PROVE  FlashBooks'
<1>1. FlashInv'
  BY FlashStep DEF FlashBooks
<1>2. ASSUME NEW r \in Flash!Requests, Flash!Proc(r) PROVE FlashBooks'
  BY <1>1, <1>2, FlashBooksHit, FlashBooksMiss DEF Flash!Proc, FlashBooks
<1>3. CASE Flash!Proceed
  BY <1>1, <1>3, FlashBooksInsert, FlashBooksEvictDram, FlashBooksMoveToFlash, FlashBooksEvictGlobal
     DEF Flash!Proceed, FlashBooks
<1>4. CASE UNCHANGED Flash!vars
  <2>1. /\ pc' = pc /\ newItem' = newItem /\ dram' = dram /\ flash' = flash
        /\ allObjects' = allObjects /\ dramSize' = dramSize /\ flashSize' = flashSize
        /\ credits' = credits
    BY <1>4 DEF Flash!vars, Flash!tierVars
  <2>2. DramKeys' = DramKeys /\ FlashKeys' = FlashKeys /\ Weights' = Weights
    BY <2>1 DEF DramKeys, FlashKeys, Weights
  <2>3. FlashLists' /\ FlashTotals'
    BY <2>1, <2>2 DEF FlashBooks, FlashLists, FlashTotals, Bytes
  <2>4. FlashAtWork'
    BY <2>1 DEF FlashBooks, FlashAtWork
  <2> QED BY <1>1, <2>3, <2>4 DEF FlashBooks
<1> QED BY <1>2, <1>3, <1>4 DEF Flash!Next

(* The books say all that Flash!Consistent and Flash!TypeOK do. *)
LEMMA FlashIsConsistent ==
  ASSUME FlashBooks
  PROVE  Flash!Consistent /\ Flash!TypeOK
<1>1. /\ dram \in Seq(FewKeys) /\ IsInjective(dram) /\ ToSet(dram) = DramKeys
      /\ flash \in Seq(FewKeys) /\ IsInjective(flash) /\ ToSet(flash) = FlashKeys
      /\ recency \in Seq(FewKeys) /\ IsInjective(recency) /\ globalLru = recency
      /\ ToSet(recency) = DOMAIN allObjects
      /\ dramLru \in Seq(FewKeys) /\ IsInjective(dramLru) /\ ToSet(dramLru) = DramKeys
      /\ \A x \in DOMAIN allObjects : allObjects[x] \in FlashItems
  BY DEF FlashBooks, FlashInv, FlashLists, ListsAreRecency
<1>2. Flash!InDram = DramKeys
  BY DEF Flash!InDram, DramKeys
<1>3. ASSUME NEW q \in Seq(FewKeys), IsInjective(q), NEW G, ToSet(q) = G
      PROVE  Flash!IsListOf(q, G)
  BY <1>3, DistinctLength, FlashTerms, FlashSums DEF Flash!IsListOf
<1>4. Flash!Consistent
  <2>1. Flash!IsListOf(dram, DramKeys) /\ Flash!IsListOf(dramLru, DramKeys)
    BY <1>1, <1>3
  <2>2. Flash!IsListOf(flash, FlashKeys) /\ Flash!IsListOf(globalLru, DOMAIN allObjects)
    BY <1>1, <1>3
  <2>3. FlashKeys = DOMAIN allObjects \ Flash!InDram
    BY <1>2 DEF FlashKeys
  <2>4. /\ dramSize = Flash!SizeOf(dram) /\ dramSize =< DRAM_SIZE
        /\ flashSize = Flash!SizeOf(flash) /\ flashSize =< FLASH_SIZE
    BY <1>1, FlashSums DEF FlashBooks, FlashTotals
  <2> QED BY <1>2, <2>1, <2>2, <2>3, <2>4 DEF Flash!Consistent
<1>5. Flash!TypeOK
  <2>1. \A q \in {dram, dramLru, flash, globalLru, recency} : q \in Seq(FewKeys)
    BY <1>1
  <2>2. DOMAIN allObjects \subseteq FewKeys
    BY <1>1 DEF ToSet
  <2>3. dramSize \in Nat /\ flashSize \in Nat
    BY FlashWeights DEF FlashBooks, FlashTotals
  <2>4. \A x \in DOMAIN allObjects : allObjects[x] \in [size : UpTo(DRAM_SIZE), isInDram : BOOLEAN]
    BY <1>1 DEF FlashItems
  <2>5. /\ pc \in {"ready", "insert"} /\ newItem \in Flash!Requests \union {Flash!NoItem}
        /\ credits \in 0 .. DRAM_SIZE
    BY DEF FlashBooks, FlashAtWork
  <2> QED BY <2>1, <2>2, <2>3, <2>4, <2>5 DEF Flash!TypeOK
<1> QED BY <1>4, <1>5
===============================================================================
