---------------------------- MODULE FlashCacheLruk ----------------------------
(***************************************************************************)
(* The two-tier cache of src/src/flash_cache_lruk.{h,cpp}: DRAM is a       *)
(* K-queue LRU (queue 0 takes new objects and has no bound of its own, a   *)
(* hit lifts an object by one queue), and when DRAM is full the newest     *)
(* object of the highest queue moves to flash.                             *)
(*                                                                         *)
(* One call of FlashCacheLruk::proc leads from pc = "ready" back to it;    *)
(* each round of its loop and each nested call of dramAddandReorder is a   *)
(* step.  An assertion that fails aborts the program.                      *)
(***************************************************************************)
EXTENDS Integers, FiniteSetsExt, SequencesExt, Filter

CONSTANTS
  Keys,                \* request::kid
  Sizes,               \* request::size()
  FC_K_LRU,            \* the number of queues
  FC_KLRU_QUEUE_SIZE,  \* the bytes each queue but the first may hold
  DRAM_SIZE,           \* DRAM_SIZE_FC_KLRU
  FLASH_SIZE           \* FLASH_SIZE_FC_KLRU

(* proc asserts newItem.size <= DRAM_SIZE_FC_KLRU; an object may be larger *)
(* than a queue.                                                           *)
TiersAssumption ==
  /\ FC_K_LRU \in Nat \ {0} /\ FC_KLRU_QUEUE_SIZE \in Nat
  /\ DRAM_SIZE \in Nat /\ FLASH_SIZE \in Nat
  /\ Sizes \subseteq 1 .. DRAM_SIZE

VARIABLES
  pc,          \* "ready", "insert", "reorder" or "aborted"
  newItem,     \* the request room is made for, when pc = "insert"
  call,        \* the arguments of dramAddandReorder, when pc = "reorder"
  dram,        \* the queues of DRAM, newest first
  kLruSizes,   \* the bytes counted for each
  flash,       \* the keys in flash, as they came
  globalLru,   \* all keys, most recently used first
  allObjects,  \* kid -> its size, whether it is in DRAM, and in which queue
  dramSize,
  flashSize,
  hits,        \* kid -> its hits since it was cached (not in the code)
  outcome      \* the last completed request and what became of it

queueVars == <<dram, kLruSizes, dramSize>>
tierVars  == <<queueVars, flash, flashSize, globalLru, allObjects, hits>>
vars == <<pc, newItem, call, tierVars, outcome>>

Levels   == 0 .. FC_K_LRU - 1
Requests == [kid : Keys, size : Sizes]
NoCall   == [objects |-> <<>>, sum |-> 0, k |-> 0, updateWrites |-> TRUE]
NoItem   == [kid |-> "none", size |-> 0]

Outcome(r, result) == [kid |-> r.kid, size |-> r.size, result |-> result]
SizeOf(q)  == SumFunctionOnSet([k \in DOMAIN allObjects |-> allObjects[k].size], ToSet(q))
Drop(q, k) == Erase(q, {k})
Bind(f, k, v) == [x \in DOMAIN f \union {k} |-> IF x = k THEN v ELSE f[x]]
Unbind(f, k)  == [x \in DOMAIN f \ {k} |-> f[x]]

Init ==
  /\ pc = "ready" /\ newItem = NoItem /\ call = NoCall /\ outcome = [result |-> "none"]
  /\ dram = [k \in Levels |-> <<>>] /\ kLruSizes = [k \in Levels |-> 0]
  /\ flash = <<>> /\ globalLru = <<>> /\ dramSize = 0 /\ flashSize = 0
  /\ allObjects = [k \in {} |-> 0] /\ hits = [k \in {} |-> 0]

(* The object leaves its queue of DRAM, and its bytes are given back.      *)
LeaveQueue(kid) ==
  LET qN == allObjects[kid].queueNumber
  IN /\ dram' = [dram EXCEPT ![qN] = Drop(@, kid)]
     /\ kLruSizes' = [kLruSizes EXCEPT ![qN] = @ - allObjects[kid].size]
     /\ dramSize' = dramSize - allObjects[kid].size

Reorder(objects, sum, k, updateWrites) ==
  /\ pc' = "reorder"
  /\ call' = [objects |-> objects, sum |-> sum, k |-> k, updateWrites |-> updateWrites]

IsHit(r) == r.kid \in DOMAIN allObjects /\ allObjects[r.kid].size = r.size

(* A hit in flash moves nothing; one in DRAM lifts the object by a queue,  *)
(* or renews it in the last one.                                           *)
Hit(r) ==
  /\ IsHit(r)
  /\ globalLru' = <<r.kid>> \o Drop(globalLru, r.kid)
  /\ outcome' = Outcome(r, "hit")
  /\ hits' = [hits EXCEPT ![r.kid] = Min({@ + 1, FC_K_LRU - 1})]
  /\ IF allObjects[r.kid].isInDram
     THEN LET qN == allObjects[r.kid].queueNumber
          IN /\ LeaveQueue(r.kid)
             /\ Reorder(<<r.kid>>, r.size, Min({qN + 1, FC_K_LRU - 1}), qN + 1 # FC_K_LRU)
     ELSE UNCHANGED <<pc, call, queueVars>>
  /\ UNCHANGED <<newItem, flash, flashSize, allObjects>>

(* The object of key k leaves every list it is in. *)
TakeOut(k) ==
  /\ globalLru' = Drop(globalLru, k)
  /\ allObjects' = Unbind(allObjects, k) /\ hits' = Unbind(hits, k)
  /\ IF allObjects[k].isInDram
     THEN LeaveQueue(k) /\ UNCHANGED <<flash, flashSize>>
     ELSE /\ flash' = Drop(flash, k)
          /\ flashSize' = flashSize - allObjects[k].size
          /\ UNCHANGED queueVars

Miss(r) ==
  /\ ~ IsHit(r)
  /\ pc' = "insert" /\ newItem' = [kid |-> r.kid, size |-> r.size]
  /\ IF r.kid \in DOMAIN allObjects THEN TakeOut(r.kid) ELSE UNCHANGED tierVars
  /\ UNCHANGED <<call, outcome>>

Proc(r) == pc = "ready" /\ (Hit(r) \/ Miss(r))

HasRoom == newItem.size + dramSize =< DRAM_SIZE
MakesRoom == pc = "insert" /\ ~ HasRoom /\ UNCHANGED <<pc, newItem, call, outcome>>

(* The new object enters queue 0. *)
Insert ==
  /\ pc = "insert" /\ HasRoom
  /\ pc' = "ready" /\ newItem' = NoItem
  /\ globalLru' = <<newItem.kid>> \o globalLru
  /\ dram' = [dram EXCEPT ![0] = <<newItem.kid>> \o @]
  /\ kLruSizes' = [kLruSizes EXCEPT ![0] = @ + newItem.size]
  /\ dramSize' = dramSize + newItem.size
  /\ allObjects' = Bind(allObjects, newItem.kid,
                        [size |-> newItem.size, isInDram |-> TRUE, queueNumber |-> 0])
  /\ hits' = Bind(hits, newItem.kid, 0)
  /\ outcome' = Outcome(newItem, "miss")
  /\ UNCHANGED <<call, flash, flashSize>>

(* "Find the MRU item": the newest one of the highest queue with bytes.    *)
mfuKid == Head(dram[Max({k \in Levels : kLruSizes[k] > 0})])
FitsInFlash == flashSize + allObjects[mfuKid].size =< FLASH_SIZE

MoveToFlash ==
  /\ MakesRoom /\ FitsInFlash
  /\ LeaveQueue(mfuKid)
  /\ flash' = <<mfuKid>> \o flash
  /\ flashSize' = flashSize + allObjects[mfuKid].size
  /\ allObjects' = [allObjects EXCEPT ![mfuKid].isInDram = FALSE]
  /\ UNCHANGED <<globalLru, hits>>

(* Flash is full: the least recently used object of either tier leaves. *)
EvictGlobalLru ==
  /\ MakesRoom /\ ~ FitsInFlash
  /\ TakeOut(Last(globalLru))

(* How many objects of queue k stay when sum bytes are to be added.        *)
Stays(k, sum) ==
  {n \in 0 .. Len(dram[k]) :
     sum + kLruSizes[k] - SizeOf(SubSeq(dram[k], n + 1, Len(dram[k]))) =< FC_KLRU_QUEUE_SIZE}

(* The objects popped for sum bytes; none from queue 0, whose own loop     *)
(* "shouldnt get to here".                                                 *)
Popped(k, sum) ==
  IF k = 0 THEN <<>>
  ELSE SubSeq(dram[k], Max(Stays(k, sum)) + 1, Len(dram[k]))

(* The assertions of one call of dramAddandReorder: a bounded queue has    *)
(* room once it is empty, there is room in DRAM for what drops to queue 0, *)
(* and an object that stays in the last queue pushes nothing out.          *)
AssertionsHold(c) ==
  /\ IF c.k = 0 THEN c.sum + dramSize =< DRAM_SIZE ELSE Stays(c.k, c.sum) # {}
  /\ c.updateWrites \/ Popped(c.k, c.sum) = <<>>

(* One call of dramAddandReorder: what is popped goes one queue down. *)
ReorderCall ==
  /\ pc = "reorder" /\ AssertionsHold(call)
  /\ LET k      == call.k
         popped == Popped(k, call.sum)
     IN /\ dram' = [dram EXCEPT ![k] =
                      Reverse(call.objects) \o SubSeq(@, 1, Len(@) - Len(popped))]
        /\ kLruSizes' = [kLruSizes EXCEPT ![k] =
                           @ - SizeOf(popped) + SizeOf(call.objects)]
        /\ dramSize' = dramSize - SizeOf(popped) + SizeOf(call.objects)
        /\ allObjects' = [x \in DOMAIN allObjects |->
                            IF x \in ToSet(call.objects)
                            THEN [allObjects[x] EXCEPT !.queueNumber = k] ELSE allObjects[x]]
        /\ IF popped # <<>>
           THEN Reorder(Reverse(popped), SizeOf(popped), k - 1, TRUE)
           ELSE pc' = "ready" /\ call' = NoCall
  /\ UNCHANGED <<newItem, flash, flashSize, globalLru, hits, outcome>>

Abort ==
  /\ pc = "reorder" /\ ~ AssertionsHold(call)
  /\ pc' = "aborted"
  /\ UNCHANGED <<newItem, call, tierVars, outcome>>

Proceed == Insert \/ MoveToFlash \/ EvictGlobalLru \/ ReorderCall \/ Abort
Next == (\E r \in Requests : Proc(r)) \/ Proceed

(* proc runs to its end; nothing makes the trace go on. *)
Spec == Init /\ [][Next]_vars /\ WF_vars(Proceed)

-------------------------------------------------------------------------------
TypeOK ==
  /\ pc \in {"ready", "insert", "reorder", "aborted"}
  /\ newItem \in Requests \union {NoItem}
  /\ dram \in [Levels -> Seq(Keys)] /\ kLruSizes \in [Levels -> Nat]
  /\ flash \in Seq(Keys) /\ globalLru \in Seq(Keys)
  /\ DOMAIN allObjects \subseteq Keys /\ DOMAIN hits = DOMAIN allObjects
  /\ \A k \in DOMAIN allObjects :
       allObjects[k] \in [size : Sizes, isInDram : BOOLEAN, queueNumber : Levels]
  /\ call.objects \in Seq(Keys) /\ call.k \in Levels
  /\ dramSize \in Nat /\ flashSize \in Nat

QueueOf(q) ==
  {k \in DOMAIN allObjects \ ToSet(call.objects) :
     allObjects[k].isInDram /\ allObjects[k].queueNumber = q}
IsListOf(q, S) == ToSet(q) = S /\ Len(q) = Cardinality(S)

(* The queues, the flash list, the global list and the hash table agree on *)
(* what is where, except for what a cascade has in hand; queues and tiers  *)
(* count their bytes and keep their bounds, all the way down a cascade.    *)
Consistent ==
  /\ \A k \in Levels :
       /\ IsListOf(dram[k], QueueOf(k))
       /\ kLruSizes[k] = SizeOf(dram[k])
       /\ k > 0 => kLruSizes[k] =< FC_KLRU_QUEUE_SIZE
  /\ IsListOf(flash, {k \in DOMAIN allObjects : ~ allObjects[k].isInDram})
  /\ IsListOf(globalLru, DOMAIN allObjects)
  /\ dramSize = SumFunctionOnSet(kLruSizes, Levels)
  /\ dramSize + SizeOf(call.objects) =< DRAM_SIZE
  /\ flashSize = SizeOf(flash) /\ flashSize =< FLASH_SIZE

(* Only a hit on an object that is larger than a queue aborts: a cascade   *)
(* always finds room, in DRAM too.                                         *)
AbortsOnlyOversize == pc = "aborted" => call.sum > FC_KLRU_QUEUE_SIZE /\ Len(call.objects) = 1

(* An object is in a queue of DRAM only if it was hit that often: however  *)
(* cascades push it around, and evictions empty the queues.                *)
PromotionIsEarned ==
  \A k \in DOMAIN allObjects : allObjects[k].queueNumber =< hits[k]

(* What the replay loop sees of the two tiers. *)
Contents == [k \in DOMAIN allObjects |-> allObjects[k].size]
===============================================================================
