------------------------------ MODULE FlashCache ------------------------------
(***************************************************************************)
(* The two-tier cache of src/src/flash_cache.{h,cpp}: new objects go to    *)
(* DRAM, and the object that pays most for its write (the last of `dram',  *)
(* ordered by flashiness) moves to flash, as long as the write is covered  *)
(* by credits that accrue with time.  An object in flash stays there.      *)
(*                                                                         *)
(* One call of FlashCache::proc leads from pc = "ready" back to it; each   *)
(* round of its loop is a step.                                            *)
(***************************************************************************)
EXTENDS Integers, FiniteSetsExt, SequencesExt, Filter

CONSTANTS
  Keys,        \* request::kid
  Sizes,       \* request::size()
  DRAM_SIZE,   \* bytes of the DRAM tier
  FLASH_SIZE   \* bytes of the flash tier

(* proc asserts newItem.size <= DRAM_SIZE. *)
TiersAssumption ==
  /\ DRAM_SIZE \in Nat /\ FLASH_SIZE \in Nat
  /\ Sizes \subseteq 1 .. DRAM_SIZE

VARIABLES
  pc,          \* "ready" or "insert"
  newItem,     \* the request room is made for, when pc = "insert"
  dram,        \* the keys in DRAM, the one with the highest flashiness last
  dramLru,     \* the keys in DRAM, most recently used first
  flash,       \* the keys in flash, as they came
  globalLru,   \* all keys, most recently used first
  allObjects,  \* kid -> its size and whether it is in DRAM
  credits,
  dramSize,
  flashSize,
  recency,     \* the cached keys by their last request, newest first (not in
               \* the code)
  outcome      \* the last completed request and what became of it

tierVars == <<dram, dramLru, flash, globalLru, allObjects, dramSize, flashSize>>
vars == <<pc, newItem, tierVars, credits, recency, outcome>>

Requests == [kid : Keys, size : Sizes]

Outcome(r, result) == [kid |-> r.kid, size |-> r.size, result |-> result]
SizeOf(q)  == SumFunctionOnSet([k \in DOMAIN allObjects |-> allObjects[k].size], ToSet(q))
Drop(q, k) == Erase(q, {k})
ToFront(q, k) == <<k>> \o Drop(q, k)
Unbind(f, K)  == [x \in DOMAIN f \ K |-> f[x]]
Bind(f, k, v) == [x \in DOMAIN f \union {k} |-> IF x = k THEN v ELSE f[x]]
NoItem == [kid |-> "none", size |-> 0]

Init ==
  /\ pc = "ready" /\ newItem = NoItem /\ outcome = [result |-> "none"]
  /\ dram = <<>> /\ dramLru = <<>> /\ flash = <<>> /\ globalLru = <<>>
  /\ allObjects = [k \in {} |-> 0] /\ recency = <<>>
  /\ credits = 0 /\ dramSize = 0 /\ flashSize = 0

(* updateCredits: any amount, for any time may have passed.  More than     *)
(* DRAM_SIZE, all that one request can spend, is not told from DRAM_SIZE.  *)
UpdateCredits == \E gain \in {0, DRAM_SIZE} : credits' = Min({credits + gain, DRAM_SIZE})

(* dramAdd(p, beginPlace): p comes to stand somewhere after the first n    *)
(* objects of q.  The flashiness is floating-point arithmetic on times:    *)
(* which of the places it is, is left open.                                *)
DramAdd(q, n, k) == {InsertAt(q, i, k) : i \in n + 1 .. Len(q) + 1}

IsHit(r) == r.kid \in DOMAIN allObjects /\ allObjects[r.kid].size = r.size

(* A hit renews the object in the LRU lists of its tier; in DRAM it also   *)
(* gains flashiness, and moves towards the end of dram or stays.           *)
(* The first form is the mutation that forgets the LRU list of DRAM.       *)
RenewGlobal(k) ==
  /\ globalLru' = ToFront(globalLru, k)
  /\ UNCHANGED <<dram, dramLru>>
Renew(k) ==
  /\ globalLru' = ToFront(globalLru, k)
  /\ IF allObjects[k].isInDram
     THEN /\ dramLru' = ToFront(dramLru, k)
          /\ dram' \in DramAdd(Drop(dram, k), CHOOSE n \in 0 .. Len(dram) : dram[n + 1] = k, k)
     ELSE UNCHANGED <<dram, dramLru>>

Hit(r) ==
  /\ IsHit(r)
  /\ Renew(r.kid)
  /\ recency' = ToFront(recency, r.kid)
  /\ outcome' = Outcome(r, "hit")
  /\ UNCHANGED <<pc, newItem, flash, allObjects, dramSize, flashSize>>

(* The object of key k leaves every list it is in. *)
TakeOut(k) ==
  /\ globalLru' = Drop(globalLru, k)
  /\ allObjects' = Unbind(allObjects, {k})
  /\ IF allObjects[k].isInDram
     THEN /\ dram' = Drop(dram, k) /\ dramLru' = Drop(dramLru, k)
          /\ dramSize' = dramSize - allObjects[k].size
          /\ UNCHANGED <<flash, flashSize>>
     ELSE /\ flash' = Drop(flash, k)
          /\ flashSize' = flashSize - allObjects[k].size
          /\ UNCHANGED <<dram, dramLru, dramSize>>

Miss(r) ==
  /\ ~ IsHit(r)
  /\ pc' = "insert" /\ newItem' = [kid |-> r.kid, size |-> r.size]
  /\ IF r.kid \in DOMAIN allObjects THEN TakeOut(r.kid) ELSE UNCHANGED tierVars
  /\ recency' = Drop(recency, r.kid)
  /\ UNCHANGED outcome

Proc(r) == pc = "ready" /\ UpdateCredits /\ (Hit(r) \/ Miss(r))

HasRoom == newItem.size + dramSize =< DRAM_SIZE
MakesRoom == pc = "insert" /\ ~ HasRoom /\ UNCHANGED <<pc, newItem, outcome>>
StillCached == Keep(recency, DOMAIN allObjects')

(* The object to be moved to flash, and whether credits cover its size;    *)
(* the first form is the mutation that takes the credit and never looks.   *)
mfuKid == Last(dram)
NoLimit == TRUE
Paid == credits >= allObjects[mfuKid].size

(* There is room: the object becomes the most recently used one of DRAM    *)
(* and proc returns.                                                       *)
Insert ==
  /\ pc = "insert" /\ HasRoom
  /\ pc' = "ready" /\ newItem' = NoItem
  /\ dram' \in DramAdd(dram, 0, newItem.kid)
  /\ dramLru' = <<newItem.kid>> \o dramLru
  /\ globalLru' = <<newItem.kid>> \o globalLru
  /\ allObjects' = Bind(allObjects, newItem.kid, [size |-> newItem.size, isInDram |-> TRUE])
  /\ dramSize' = dramSize + newItem.size
  /\ recency' = <<newItem.kid>> \o recency
  /\ outcome' = Outcome(newItem, "miss")
  /\ UNCHANGED <<flash, flashSize, credits>>

(* Not enough credit: the least recently used objects of DRAM leave the    *)
(* cache until there is room.                                              *)
EvictDramLru ==
  /\ MakesRoom /\ ~ Paid
  /\ LET stay == Max({n \in 0 .. Len(dramLru) :
                        newItem.size + SizeOf(SubSeq(dramLru, 1, n)) =< DRAM_SIZE})
         gone == SubSeq(dramLru, stay + 1, Len(dramLru))
     IN /\ dram' = Erase(dram, ToSet(gone)) /\ dramLru' = Erase(dramLru, ToSet(gone))
        /\ globalLru' = Erase(globalLru, ToSet(gone))
        /\ allObjects' = Unbind(allObjects, ToSet(gone))
        /\ dramSize' = dramSize - SizeOf(gone)
  /\ recency' = StillCached
  /\ UNCHANGED <<flash, flashSize, credits>>

FitsInFlash == flashSize + allObjects[mfuKid].size =< FLASH_SIZE

MoveToFlash ==
  /\ MakesRoom /\ Paid /\ FitsInFlash
  /\ dram' = Front(dram) /\ dramLru' = Drop(dramLru, mfuKid)
  /\ flash' = <<mfuKid>> \o flash
  /\ allObjects' = [allObjects EXCEPT ![mfuKid].isInDram = FALSE]
  /\ credits' = credits - allObjects[mfuKid].size
  /\ dramSize' = dramSize - allObjects[mfuKid].size
  /\ flashSize' = flashSize + allObjects[mfuKid].size
  /\ UNCHANGED <<globalLru, recency>>

(* Flash is full: the least recently used object of either tier leaves,    *)
(* which may be the one that was to be moved.                              *)
EvictGlobalLru ==
  /\ MakesRoom /\ Paid /\ ~ FitsInFlash
  /\ TakeOut(Last(globalLru))
  /\ recency' = StillCached
  /\ UNCHANGED credits

Proceed == Insert \/ EvictDramLru \/ MoveToFlash \/ EvictGlobalLru
Next == (\E r \in Requests : Proc(r)) \/ Proceed

(* proc runs to its end; nothing makes the trace go on. *)
Spec == Init /\ [][Next]_vars /\ WF_vars(Proceed)

-------------------------------------------------------------------------------
(* Every write to flash was paid for: credits never run below zero.        *)
TypeOK ==
  /\ pc \in {"ready", "insert"}
  /\ newItem \in Requests \union {NoItem}
  /\ \A q \in {dram, dramLru, flash, globalLru, recency} : q \in Seq(Keys)
  /\ DOMAIN allObjects \subseteq Keys
  /\ \A k \in DOMAIN allObjects : allObjects[k] \in [size : Sizes, isInDram : BOOLEAN]
  /\ credits \in 0 .. DRAM_SIZE /\ dramSize \in Nat /\ flashSize \in Nat

InDram == {k \in DOMAIN allObjects : allObjects[k].isInDram}
IsListOf(q, S) == ToSet(q) = S /\ Len(q) = Cardinality(S)

(* The four lists and the hash table agree on what is where, and the bytes *)
(* of each tier are counted and within bounds, whatever of moving up,      *)
(* moving out and evicting follow each other in one request.               *)
Consistent ==
  /\ IsListOf(dram, InDram) /\ IsListOf(dramLru, InDram)
  /\ IsListOf(flash, DOMAIN allObjects \ InDram)
  /\ IsListOf(globalLru, DOMAIN allObjects)
  /\ dramSize = SizeOf(dram) /\ dramSize =< DRAM_SIZE
  /\ flashSize = SizeOf(flash) /\ flashSize =< FLASH_SIZE

Oldest(k, S) ==
  \A i, j \in DOMAIN recency : recency[i] = k /\ recency[j] \in S => j =< i

(* What is evicted was used before everything that stays in DRAM.          *)
EvictsOldest ==
  \A k \in DOMAIN allObjects \ DOMAIN allObjects' :
    Oldest(k, InDram \intersect DOMAIN allObjects')

(* What the replay loop sees of the two tiers. *)
Contents == [k \in DOMAIN allObjects |-> allObjects[k].size]
===============================================================================
