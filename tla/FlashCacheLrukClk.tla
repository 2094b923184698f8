-------------------------- MODULE FlashCacheLrukClk --------------------------
(***************************************************************************)
(* The two-tier cache of src/src/flash_cache_lruk_clock.{h,cpp}: DRAM is   *)
(* the K-queue LRU of FlashCacheLruk, but only objects of the high queues  *)
(* move to flash.  When flash is full a clock over both tiers chooses what *)
(* leaves, and when no queue is high enough the LRU list of DRAM does.     *)
(*                                                                         *)
(* One call of proc leads from pc = "ready" back to it; each round of its  *)
(* loop and each nested call of dramAddandReorder is a step.               *)
(***************************************************************************)
EXTENDS Integers, FiniteSetsExt, SequencesExt, ClockRing

CONSTANTS
  Keys, Sizes,                 \* request::kid and request::size()
  FC_K_LRU,                    \* FC_K_LRU_CLK, the number of queues
  FC_KLRU_QUEUE_SIZE,          \* the bytes each queue but the first may hold
  DRAM_SIZE, FLASH_SIZE,
  CLOCK_START_VAL, CLOCK_JUMP, CLOCK_MAX_VALUE,
  MIN_QUEUE_TO_MOVE_TO_FLASH

VARIABLES
  pc,          \* "ready", "insert", "reorder" or "aborted"
  newItem,     \* the request room is made for, when pc = "insert"
  call,        \* the arguments of dramAddandReorder, when pc = "reorder"
  dram,        \* the queues of DRAM, newest first
  kLruSizes,   \* the bytes counted for each
  dramLru,     \* the keys in DRAM, most recently used first
  flash,       \* the keys in flash, as they came
  clockLru,    \* the ring of all keys
  allObjects,  \* kid -> size, isInDram, queueNumber, clockJumpStatus
  dramSize, flashSize,
  hits,        \* kid -> its hits since it was cached (not in the code)
  outcome      \* the last completed request and what became of it

Queues == INSTANCE FlashCacheLruk WITH globalLru <- dramLru

(* proc asserts newItem.size <= FC_KLRU_QUEUE_SIZE_CLK; without a queue to *)
(* look at, proc would take key 0 for the one to be moved.                 *)
TiersAssumption ==
  /\ FC_K_LRU \in Nat \ {0} /\ MIN_QUEUE_TO_MOVE_TO_FLASH \in 0 .. FC_K_LRU - 1
  /\ FC_KLRU_QUEUE_SIZE \in 0 .. DRAM_SIZE /\ FLASH_SIZE \in Nat
  /\ CLOCK_MAX_VALUE \in Nat /\ CLOCK_START_VAL \in 0 .. CLOCK_MAX_VALUE /\ CLOCK_JUMP \in Nat
  /\ Sizes \subseteq 1 .. FC_KLRU_QUEUE_SIZE

dramVars == <<dram, kLruSizes, dramLru, dramSize>>
tierVars == <<dramVars, flash, flashSize, clockLru, allObjects, hits>>
vars == <<pc, newItem, call, tierVars, outcome>>

Drop(q, k) == SelectSeq(q, LAMBDA x : x # k)

Init == Queues!Init /\ clockLru = <<>>

-------------------------------------------------------------------------------
(* Every hit gives the clock more to count down, up to its maximum; what   *)
(* the sweep took is back at once.  The first form is the mutation without *)
(* the maximum.                                                            *)
Uncapped(k) == allObjects[k].clockJumpStatus + CLOCK_JUMP
Jump(k) == Min({allObjects[k].clockJumpStatus + CLOCK_JUMP, CLOCK_MAX_VALUE})

Hit(r) ==
  /\ Queues!IsHit(r)
  /\ allObjects' = [allObjects EXCEPT ![r.kid].clockJumpStatus = Jump(r.kid)]
  /\ clockLru' = SetCount(clockLru, r.kid, Jump(r.kid))
  /\ hits' = [hits EXCEPT ![r.kid] = Min({@ + 1, FC_K_LRU - 1})]
  /\ outcome' = Queues!Outcome(r, "hit")
  /\ IF allObjects[r.kid].isInDram
     THEN LET qN == allObjects[r.kid].queueNumber
          IN /\ dramLru' = <<r.kid>> \o Drop(dramLru, r.kid)
             /\ Queues!LeaveQueue(r.kid)
             /\ Queues!Reorder(<<r.kid>>, r.size, Min({qN + 1, FC_K_LRU - 1}), qN + 1 # FC_K_LRU)
     ELSE UNCHANGED <<pc, call, dramVars>>
  /\ UNCHANGED <<newItem, flash, flashSize>>

(* deleteItem, when the hand is where ring starts. *)
DeleteItem(k, ring) ==
  /\ clockLru' = Leave(ring, k)
  /\ allObjects' = Queues!Unbind(allObjects, k) /\ hits' = Queues!Unbind(hits, k)
  /\ IF allObjects[k].isInDram
     THEN /\ Queues!LeaveQueue(k)
          /\ dramLru' = Drop(dramLru, k)
          /\ UNCHANGED <<flash, flashSize>>
     ELSE /\ flash' = Drop(flash, k)
          /\ flashSize' = flashSize - allObjects[k].size
          /\ UNCHANGED dramVars

Miss(r) ==
  /\ ~ Queues!IsHit(r)
  /\ pc' = "insert" /\ newItem' = [kid |-> r.kid, size |-> r.size]
  /\ IF r.kid \in DOMAIN allObjects THEN DeleteItem(r.kid, clockLru) ELSE UNCHANGED tierVars
  /\ UNCHANGED <<call, outcome>>

Proc(r) == pc = "ready" /\ (Hit(r) \/ Miss(r))

(* One nested call of dramAddandReorder. *)
AddAndReorder ==
  /\ pc = "reorder"
  /\ IF Queues!AssertionsHold(call) THEN Queues!ReorderCall
     ELSE pc' = "aborted" /\ UNCHANGED <<newItem, call, dramVars, flash, flashSize,
                                        allObjects, hits, outcome>>
  /\ UNCHANGED clockLru

(* The new object enters queue 0, and the clock right behind the hand.     *)
InsertAs(item) ==
  /\ pc = "insert" /\ Queues!HasRoom
  /\ pc' = "ready" /\ newItem' = Queues!NoItem
  /\ dram' = [dram EXCEPT ![0] = <<newItem.kid>> \o @]
  /\ kLruSizes' = [kLruSizes EXCEPT ![0] = @ + newItem.size]
  /\ dramSize' = dramSize + newItem.size
  /\ dramLru' = <<newItem.kid>> \o dramLru
  /\ clockLru' = Enter(clockLru, newItem.kid, CLOCK_START_VAL)
  /\ allObjects' = Queues!Bind(allObjects, newItem.kid, item)
  /\ hits' = Queues!Bind(hits, newItem.kid, 0)
  /\ outcome' = Queues!Outcome(newItem, "miss")
  /\ UNCHANGED <<call, flash, flashSize>>
Insert == InsertAs([size |-> newItem.size, isInDram |-> TRUE, queueNumber |-> 0,
                    clockJumpStatus |-> CLOCK_START_VAL])

(* "Find the MRU item": the newest one of the highest queue with bytes,    *)
(* if one is high enough.  The first form is the mutation with < for <=.   *)
AlmostHigh == {k \in MIN_QUEUE_TO_MOVE_TO_FLASH - 1 .. FC_K_LRU - 1 : kLruSizes[k] > 0}
HighQueues == {k \in MIN_QUEUE_TO_MOVE_TO_FLASH .. FC_K_LRU - 1 : kLruSizes[k] > 0}
mfuKid == Head(dram[Max(HighQueues)])
FitsInFlash(k) == flashSize + allObjects[k].size =< FLASH_SIZE
MakesRoom ==
  pc = "insert" /\ ~ Queues!HasRoom /\ UNCHANGED <<pc, newItem, call, outcome>>

Move(k, item) ==
  /\ Queues!LeaveQueue(k)
  /\ dramLru' = Drop(dramLru, k)
  /\ flash' = <<k>> \o flash
  /\ flashSize' = flashSize + allObjects[k].size
  /\ allObjects' = [allObjects EXCEPT ![k] = item]
  /\ UNCHANGED <<clockLru, hits>>

MoveToFlash ==
  /\ MakesRoom /\ HighQueues # {} /\ FitsInFlash(mfuKid)
  /\ Move(mfuKid, [allObjects[mfuKid] EXCEPT !.isInDram = FALSE])

(* "We will delete the first item with clock 0 and make room for the new   *)
(* item", in DRAM or in flash.                                             *)
EvictByClock ==
  /\ MakesRoom /\ HighQueues # {} /\ ~ FitsInFlash(mfuKid)
  /\ DeleteItem(VictimOf(clockLru), Swept(clockLru))

(* No object may go to flash: the least recently used one of DRAM leaves.  *)
EvictDramLru ==
  /\ MakesRoom /\ HighQueues = {}
  /\ DeleteItem(Last(dramLru), clockLru)

Proceed == AddAndReorder \/ Insert \/ MoveToFlash \/ EvictByClock \/ EvictDramLru
Next == (\E r \in Queues!Requests : Proc(r)) \/ Proceed

(* proc runs to its end; nothing makes the trace go on. *)
Spec == Init /\ [][Next]_vars /\ WF_vars(Proceed)

-------------------------------------------------------------------------------
TypeOK ==
  /\ pc \in {"ready", "insert", "reorder", "aborted"}
  /\ newItem \in Queues!Requests \union {Queues!NoItem}
  /\ dram \in [Queues!Levels -> Seq(Keys)] /\ kLruSizes \in [Queues!Levels -> Nat]
  /\ dramLru \in Seq(Keys) /\ flash \in Seq(Keys)
  /\ clockLru \in Seq([kid : Keys, count : 0 .. CLOCK_MAX_VALUE])
  /\ DOMAIN allObjects \subseteq Keys /\ DOMAIN hits = DOMAIN allObjects
  /\ \A k \in DOMAIN allObjects :
       allObjects[k] \in [size : Sizes, isInDram : BOOLEAN, queueNumber : Queues!Levels,
                          clockJumpStatus : 0 .. CLOCK_MAX_VALUE]
  /\ call.objects \in Seq(Keys) /\ call.k \in Queues!Levels
  /\ dramSize \in Nat /\ flashSize \in Nat

(* The queues, the LRU list of DRAM, flash, the clock and the hash table   *)
(* agree, except for what a cascade has in hand; queues and tiers count    *)
(* their bytes and keep their bounds; and the clock never has more to      *)
(* count down for an object than its hits gave it.                         *)
Consistent ==
  /\ \A k \in Queues!Levels :
       /\ Queues!IsListOf(dram[k], Queues!QueueOf(k))
       /\ kLruSizes[k] = Queues!SizeOf(dram[k])
       /\ k > 0 => kLruSizes[k] =< FC_KLRU_QUEUE_SIZE
  /\ Queues!IsListOf(dramLru, {k \in DOMAIN allObjects : allObjects[k].isInDram})
  /\ Queues!IsListOf(flash, {k \in DOMAIN allObjects : ~ allObjects[k].isInDram})
  /\ Queues!IsListOf([i \in DOMAIN clockLru |-> clockLru[i].kid], DOMAIN allObjects)
  /\ \A i \in DOMAIN clockLru : clockLru[i].count =< allObjects[clockLru[i].kid].clockJumpStatus
  /\ dramSize + Queues!SizeOf(call.objects) =< DRAM_SIZE
  /\ dramSize = MapThenSumSet(LAMBDA k : kLruSizes[k], Queues!Levels)
  /\ flashSize = Queues!SizeOf(flash) /\ flashSize =< FLASH_SIZE

(* No assertion fails: a cascade always finds room. *)
NeverAborts == pc # "aborted"

(* An object is written to flash only after as many hits as the queues it  *)
(* had to climb, whatever cascades and evictions did to the queues.        *)
FlashIsEarned ==
  \A k \in DOMAIN allObjects :
    /\ allObjects[k].queueNumber =< hits[k]
    /\ allObjects[k].isInDram \/ hits[k] >= MIN_QUEUE_TO_MOVE_TO_FLASH

(* What the replay loop sees of the two tiers. *)
Contents == [k \in DOMAIN allObjects |-> allObjects[k].size]
===============================================================================
