----------------------------- MODULE VictimCache -----------------------------
(***************************************************************************)
(* The two-tier cache of src/src/victim_cache.{h,cpp}: requested objects   *)
(* are in a DRAM queue, what the DRAM queue evicts goes to a flash queue,  *)
(* and what that one evicts is gone.  A hit brings an object back to the   *)
(* front of the DRAM queue from either tier.                               *)
(*                                                                         *)
(* One call of VictimCache::proc leads from pc = "ready" back to it; each  *)
(* round of the loop of insertToDram, with the rounds of the loop inside   *)
(* it, is a step.                                                          *)
(***************************************************************************)
EXTENDS Integers, FiniteSetsExt, SequencesExt, Filter

CONSTANTS
  Keys,       \* request::kid
  Sizes,      \* request::size()
  DRAM_SIZE,  \* bytes of the DRAM tier
  FLASH_SIZE  \* bytes of the flash tier

(* proc asserts newItem.size <= DRAM_SIZE. *)
TiersAssumption ==
  /\ DRAM_SIZE \in Nat /\ FLASH_SIZE \in Nat
  /\ Sizes \subseteq 1 .. DRAM_SIZE

VARIABLES
  pc,          \* "ready", "insert" or "crashed"
  item,        \* the argument of insertToDram, when pc = "insert"
  dram,        \* the keys of the DRAM tier, newest first
  flash,       \* the keys of the flash tier, newest first
  allObjects,  \* kid -> its size and whether it is in DRAM
  dramSize,
  flashSize,
  recency,     \* all keys by their last request, newest first (not in the code)
  outcome      \* the last completed request and what became of it

sizeVars == <<dramSize, flashSize>>
vars == <<pc, item, dram, flash, allObjects, sizeVars, recency, outcome>>

Requests == [kid : Keys, size : Sizes]

Outcome(r, result) == [kid |-> r.kid, size |-> r.size, result |-> result]
SizeOf(q)   == SumFunctionOnSet([k \in DOMAIN allObjects |-> allObjects[k].size], ToSet(q))
Drop(q, k)  == Erase(q, {k})
Unbind(f, K)  == [x \in DOMAIN f \ K |-> f[x]]
Bind(f, k, v) == [x \in DOMAIN f \union {k} |-> IF x = k THEN v ELSE f[x]]
NoItem == [kid |-> CHOOSE k \in Keys : TRUE, size |-> 0, hit |-> FALSE]

Init ==
  /\ pc = "ready" /\ item = NoItem /\ outcome = [result |-> "none"]
  /\ dram = <<>> /\ flash = <<>> /\ allObjects = [k \in {} |-> 0]
  /\ dramSize = 0 /\ flashSize = 0 /\ recency = <<>>

IsHit(r) == r.kid \in DOMAIN allObjects /\ allObjects[r.kid].size = r.size

(* Whatever comes of it, a requested object that is cached leaves its      *)
(* tier.                                                                   *)
TakeOut(k) ==
  IF allObjects[k].isInDram
  THEN /\ dram' = Drop(dram, k)
       /\ dramSize' = dramSize - allObjects[k].size
       /\ UNCHANGED <<flash, flashSize>>
  ELSE /\ flash' = Drop(flash, k)
       /\ flashSize' = flashSize - allObjects[k].size
       /\ UNCHANGED <<dram, dramSize>>

(* The lookup of proc. *)
Proc(r) ==
  /\ pc = "ready" /\ pc' = "insert"
  /\ item' = [kid |-> r.kid, size |-> r.size, hit |-> IsHit(r)]
  /\ IF r.kid \in DOMAIN allObjects THEN TakeOut(r.kid)
                                    ELSE UNCHANGED <<dram, flash, sizeVars>>
  /\ allObjects' = IF IsHit(r) THEN allObjects ELSE Unbind(allObjects, {r.kid})
  /\ UNCHANGED <<recency, outcome>>

MustDemote == item.size + dramSize > DRAM_SIZE

(* How many objects of the flash tier may stay when one of size bytes      *)
(* comes in: the oldest ones leave first.                                  *)
FlashStays(size) ==
  {n \in 0 .. Len(flash) :
     size + flashSize - SizeOf(SubSeq(flash, n + 1, Len(flash))) =< FLASH_SIZE}

(* Where the victim of the DRAM tier is put; the first form is the         *)
(* mutation that puts it at the old end.                                   *)
AtBack(q, k)  == Append(q, k)
AtFront(q, k) == <<k>> \o q

(* One round of the loop of insertToDram.                                  *)
Demote ==
  /\ pc = "insert" /\ MustDemote /\ dram # <<>>
  /\ LET victim == Last(dram)
         size   == allObjects[victim].size
     IN /\ FlashStays(size) # {}
        /\ LET gone == SubSeq(flash, Max(FlashStays(size)) + 1, Len(flash))
           IN /\ flash' = AtFront(SubSeq(flash, 1, Max(FlashStays(size))), victim)
              /\ flashSize' = flashSize - SizeOf(gone) + size
              /\ allObjects' = Unbind([allObjects EXCEPT ![victim].isInDram = FALSE],
                                      ToSet(gone))
        /\ dram' = Front(dram)
        /\ dramSize' = dramSize - size
  /\ UNCHANGED <<pc, item, recency, outcome>>

(* The loops take the last element of an empty list: back() then returns   *)
(* what is not a key, and erasing the item it stands for ends the process  *)
(* (what this round has changed before is not kept: nobody sees it).       *)
Crash ==
  /\ pc = "insert" /\ MustDemote
  /\ dram # <<>> => FlashStays(allObjects[Last(dram)].size) = {}
  /\ pc' = "crashed"
  /\ UNCHANGED <<item, dram, flash, allObjects, sizeVars, recency, outcome>>

(* The object goes to the front of the DRAM tier, and proc returns. *)
Insert ==
  /\ pc = "insert" /\ ~ MustDemote
  /\ pc' = "ready" /\ item' = NoItem
  /\ dram' = <<item.kid>> \o dram
  /\ dramSize' = dramSize + item.size
  /\ allObjects' = Bind(allObjects, item.kid, [size |-> item.size, isInDram |-> TRUE])
  /\ recency' = <<item.kid>> \o Drop(recency, item.kid)
  /\ outcome' = Outcome(item, IF item.hit THEN "hit" ELSE "miss")
  /\ UNCHANGED <<flash, flashSize>>

Proceed == Demote \/ Crash \/ Insert
Next == (\E r \in Requests : Proc(r)) \/ Proceed

(* proc runs to its end; nothing makes the trace go on. *)
Spec == Init /\ [][Next]_vars /\ WF_vars(Proceed)

-------------------------------------------------------------------------------
TypeOK ==
  /\ pc \in {"ready", "insert", "crashed"}
  /\ dram \in Seq(Keys) /\ flash \in Seq(Keys) /\ recency \in Seq(Keys)
  /\ DOMAIN allObjects \subseteq Keys
  /\ \A k \in DOMAIN allObjects : allObjects[k] \in [size : Sizes, isInDram : BOOLEAN]
  /\ dramSize \in Nat /\ flashSize \in Nat

(* The object a hit has taken out of its tier, while it is in neither. *)
OnItsWay == IF pc # "ready" /\ item.hit THEN {item.kid} ELSE {}

(* Each object is in one tier, the one isInDram names, and once; each tier *)
(* counts what it holds, and holds no more than fits: also while objects   *)
(* are handed down, come back up, or change their size in either tier.     *)
Consistent ==
  /\ \A k \in DOMAIN allObjects \ OnItsWay :
       k \in ToSet(IF allObjects[k].isInDram THEN dram ELSE flash)
  /\ ToSet(dram) \union ToSet(flash) = DOMAIN allObjects \ OnItsWay
  /\ Len(dram) + Len(flash) = Cardinality(DOMAIN allObjects \ OnItsWay)
  /\ dramSize = SizeOf(dram) /\ dramSize =< DRAM_SIZE
  /\ flashSize = SizeOf(flash) /\ flashSize =< FLASH_SIZE

(* The two tiers are one LRU list cut in two: every object in DRAM was     *)
(* used after every object in flash, and in each tier the order is that of *)
(* the last use.                                                           *)
TiersAreOneLru ==
  LET both == dram \o flash
  IN both = Keep(recency, ToSet(both))

(* The lists are never read when they are empty, unless an object is       *)
(* larger than the flash tier.                                             *)
CrashesOnlyOversize ==
  pc = "crashed" =>
    dram # <<>> /\ allObjects[Last(dram)].size > FLASH_SIZE

(* What the replay loop sees of the two tiers. *)
Contents == [k \in DOMAIN allObjects |-> allObjects[k].size]
===============================================================================
