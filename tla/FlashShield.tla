----------------------------- MODULE FlashShield -----------------------------
(***************************************************************************)
(* The cache of src/src/flash_shield.{h,cpp}: DRAM is a K-queue LRU, flash *)
(* holds blocks, and only objects a classifier approved of on their last   *)
(* hit are written to flash.  An object that is evicted from flash stays   *)
(* in its block as a ghost until the block, the oldest one, is given up.   *)
(*                                                                         *)
(* One call of proc leads from pc = "ready" back to it; each nested call   *)
(* of dramAddandReorder, the prediction, and each round of a loop is a     *)
(* step.  The classifier is external: what it says is left open.           *)
(***************************************************************************)
EXTENDS Integers, FiniteSetsExt, SequencesExt, ClockRing

CONSTANTS
  Keys,             \* request::kid
  Sizes,            \* request::size()
  K_LRU_QUEUES,     \* FLASH_SHILD_K_LRU_QUEUES, the number of queues
  KLRU_QUEUE_SIZE,  \* FLASH_SHILD_KLRU_QUEUE_SIZE, the bytes each but the first may hold
  DRAM_SIZE, FLASH_SIZE,
  BLOCK_SIZE,       \* FLASH_SHILD_BLOCK_SIZE
  Min_Block_Fill_Threshold, threshold, \* in percent
  CLOCK_MAX_VALUE   \* FLASH_SHILD_CLOCK_MAX_VALUE

(* proc asserts newItem.size <= FLASH_SHILD_KLRU_QUEUE_SIZE. *)
BlocksAssumption ==
  /\ K_LRU_QUEUES \in Nat \ {0} /\ CLOCK_MAX_VALUE \in Nat
  /\ KLRU_QUEUE_SIZE \in 0 .. DRAM_SIZE /\ BLOCK_SIZE \in 1 .. FLASH_SIZE
  /\ threshold \in 1 .. 100 /\ Min_Block_Fill_Threshold \in 1 .. 100
  /\ Sizes \subseteq 1 .. KLRU_QUEUE_SIZE

VARIABLES
  pc,          \* "ready", "reorder", "predict", "revive", "insert", "trim", and
               \* the ends "aborted" (an assertion failed) and "undefined"
  newItem,     \* the request at hand
  call,        \* the arguments of dramAddandReorder, when pc = "reorder"
  dram,        \* the queues of DRAM, newest first
  kLruSizes,   \* the bytes counted for each
  dramLru,     \* the keys in DRAM, most recently used first
  flash,       \* the blocks, the newest one first
  clockLru,    \* the ring of the keys that are no ghosts
  allObjects,  \* kid -> size, isInDram, isGhost, queueNumber, and SVMResult,
               \* the last prediction (false where hasItem is)
  dramSize, flashSize,
  svm_size,    \* the bytes of DRAM that are approved
  outcome      \* the last completed request and what became of it

queueVars == <<dram, kLruSizes, dramSize>>
dramVars  == <<queueVars, dramLru, svm_size>>
flashVars == <<flash, flashSize>>
tierVars  == <<dramVars, flashVars, clockLru, allObjects>>
vars == <<pc, newItem, call, tierVars, outcome>>

Levels    == 0 .. K_LRU_QUEUES - 1
Requests  == [kid : Keys, size : Sizes]
maxBlocks == FLASH_SIZE \div BLOCK_SIZE
NoItem    == [kid |-> "none", size |-> 0]
NoCall    == [objects |-> <<>>, sum |-> 0, k |-> 0, updateWrites |-> TRUE]

Outcome(r, result) == [kid |-> r.kid, size |-> r.size, result |-> result]
Bytes(S) == MapThenSumSet(LAMBDA k : allObjects[k].size, S)
Drop(q, k) == SelectSeq(q, LAMBDA x : x # k)
Without(f, S) == [x \in DOMAIN f \ S |-> f[x]]
Bind(f, k, v) == [x \in DOMAIN f \union {k} |-> IF x = k THEN v ELSE f[x]]

(* dramSize + flashSize in percent, and the limit it is compared with.     *)
Total == 100 * (dramSize + flashSize)
Limit == 100 * DRAM_SIZE + threshold * FLASH_SIZE

Init ==
  /\ pc = "ready" /\ newItem = NoItem /\ call = NoCall /\ outcome = [result |-> "none"]
  /\ dram = [k \in Levels |-> <<>>] /\ kLruSizes = [k \in Levels |-> 0]
  /\ dramLru = <<>> /\ flash = <<>> /\ clockLru = <<>> /\ allObjects = [k \in {} |-> 0]
  /\ dramSize = 0 /\ flashSize = 0 /\ svm_size = 0

BlockOf(k) == CHOOSE b \in DOMAIN flash : k \in ToSet(flash[b].items)
Approved(k) == allObjects[k].isInDram /\ allObjects[k].SVMResult

(* The object leaves its queue of DRAM, and its bytes are given back.      *)
LeaveQueue(k) ==
  LET qN == allObjects[k].queueNumber
  IN /\ dram' = [dram EXCEPT ![qN] = Drop(@, k)]
     /\ kLruSizes' = [kLruSizes EXCEPT ![qN] = @ - allObjects[k].size]
     /\ dramSize' = dramSize - allObjects[k].size

Reorder(objects, sum, k, updateWrites) ==
  /\ pc' = "reorder"
  /\ call' = [objects |-> objects, sum |-> sum, k |-> k, updateWrites |-> updateWrites]

IsHit(r) == r.kid \in DOMAIN allObjects /\ allObjects[r.kid].size = r.size

(* A hit in DRAM lifts the object by a queue; one on a ghost brings it     *)
(* back to life where it lies, at the end of the clock; one in flash       *)
(* renews its counter.                                                     *)
HitInDram(r) ==
  /\ allObjects[r.kid].isInDram
  /\ clockLru' = SetCount(clockLru, r.kid, CLOCK_MAX_VALUE)
  /\ dramLru' = <<r.kid>> \o Drop(dramLru, r.kid)
  /\ LeaveQueue(r.kid)
  /\ LET qN == allObjects[r.kid].queueNumber
     IN Reorder(<<r.kid>>, r.size, Min({qN + 1, K_LRU_QUEUES - 1}), qN + 1 # K_LRU_QUEUES)
  /\ newItem' = [kid |-> r.kid, size |-> r.size]
  /\ UNCHANGED <<flashVars, svm_size, allObjects>>

HitGhost(r) ==
  /\ allObjects[r.kid].isGhost
  /\ pc' = "revive"
  /\ allObjects' = [allObjects EXCEPT ![r.kid].isGhost = FALSE]
  /\ flash' = [flash EXCEPT ![BlockOf(r.kid)].size = @ + r.size]
  /\ flashSize' = flashSize + r.size
  /\ clockLru' = Enter(clockLru, r.kid, CLOCK_MAX_VALUE)
  /\ UNCHANGED <<newItem, call, dramVars>>

HitInFlash(r) ==
  /\ ~ allObjects[r.kid].isInDram /\ ~ allObjects[r.kid].isGhost
  /\ clockLru' = SetCount(clockLru, r.kid, CLOCK_MAX_VALUE)
  /\ UNCHANGED <<pc, newItem, call, dramVars, flashVars, allObjects>>

Hit(r) ==
  /\ IsHit(r)
  /\ outcome' = Outcome(r, "hit")
  /\ HitInDram(r) \/ HitGhost(r) \/ HitInFlash(r)

(* The objects that dramAddandReorder pops from queue k for sum bytes.     *)
Stays(k, sum) ==
  {n \in 0 .. Len(dram[k]) :
     sum + kLruSizes[k] - Bytes(ToSet(SubSeq(dram[k], n + 1, Len(dram[k])))) =< KLRU_QUEUE_SIZE}
Popped(k, sum) ==
  IF k = 0 THEN <<>> ELSE SubSeq(dram[k], Max(Stays(k, sum)) + 1, Len(dram[k]))

AssertionsHold(c) ==
  /\ c.k > 0 => Stays(c.k, c.sum) # {}
  /\ c.updateWrites \/ Popped(c.k, c.sum) = <<>>

(* One call of dramAddandReorder: what is popped goes one queue down.      *)
AddAndReorder ==
  /\ LET k == call.k
         popped == Popped(k, call.sum)
         added == Bytes(ToSet(call.objects))
         lost == Bytes(ToSet(popped))
     IN /\ dram' = [dram EXCEPT ![k] =
                      Reverse(call.objects) \o SubSeq(@, 1, Len(@) - Len(popped))]
        /\ kLruSizes' = [kLruSizes EXCEPT ![k] = @ - lost + added]
        /\ dramSize' = dramSize - lost + added
        /\ allObjects' = [x \in DOMAIN allObjects |->
                            IF x \in ToSet(call.objects)
                            THEN [allObjects[x] EXCEPT !.queueNumber = k] ELSE allObjects[x]]
        /\ IF popped # <<>> THEN Reorder(Reverse(popped), lost, k - 1, TRUE)
           ELSE pc' = "predict" /\ call' = NoCall
  /\ UNCHANGED <<dramLru, svm_size, flashVars, clockLru>>

ReorderCall ==
  /\ pc = "reorder"
  /\ IF AssertionsHold(call) THEN AddAndReorder
     ELSE pc' = "aborted" /\ UNCHANGED <<call, tierVars>>
  /\ UNCHANGED <<newItem, outcome>>

(* ColectItemDataAndPredict: the object that was hit is judged again, and  *)
(* svm_size follows.  The first form is the mutation that only adds.       *)
OnlyAdd(k, approved) == svm_size + (IF approved THEN allObjects[k].size ELSE 0)
SvmSizeWith(k, approved) ==
  svm_size - (IF Approved(k) THEN allObjects[k].size ELSE 0)
           + (IF approved THEN allObjects[k].size ELSE 0)

Predict ==
  /\ pc = "predict"
  /\ \E approved \in BOOLEAN :
       /\ svm_size' = SvmSizeWith(newItem.kid, approved)
       /\ allObjects' = [allObjects EXCEPT ![newItem.kid].SVMResult = approved]
  /\ pc' = "ready" /\ newItem' = NoItem
  /\ UNCHANGED <<call, queueVars, dramLru, flashVars, clockLru, outcome>>

(* evict_item: an object of DRAM is erased, one of flash becomes a ghost of *)
(* its block.                                                              *)
EraseFromDram(k) ==
  /\ LeaveQueue(k)
  /\ dramLru' = Drop(dramLru, k)
  /\ svm_size' = svm_size - (IF Approved(k) THEN allObjects[k].size ELSE 0)
  /\ allObjects' = Without(allObjects, {k})
  /\ UNCHANGED flashVars

EvictItem(k, ring) ==
  /\ clockLru' = Leave(ring, k)
  /\ \/ allObjects[k].isInDram /\ EraseFromDram(k)
     \/ /\ ~ allObjects[k].isInDram
        /\ allObjects' = [allObjects EXCEPT ![k].isGhost = TRUE]
        /\ flash' = [flash EXCEPT ![BlockOf(k)].size = @ - allObjects[k].size]
        /\ flashSize' = flashSize - allObjects[k].size
        /\ UNCHANGED dramVars

(* The request's key is cached with another size: that object leaves.  For *)
(* one of DRAM, proc then reads isInDram of the object that evict_item has *)
(* erased.                                                                 *)
Replace(k) ==
  LET b == BlockOf(k)
      items == Drop(flash[b].items, k)
  IN \/ /\ allObjects[k].isInDram
        /\ EvictItem(k, clockLru)
        /\ pc' \in {"insert", "undefined"}
     \/ /\ ~ allObjects[k].isInDram
        /\ LET alive == IF allObjects[k].isGhost THEN 0 ELSE allObjects[k].size
           IN /\ flash' = [flash EXCEPT ![b] = [size |-> @.size - alive, items |-> items]]
              /\ flashSize' = flashSize - alive
        /\ clockLru' = Leave(clockLru, k)
        /\ allObjects' = Without(allObjects, {k})
        /\ pc' = "insert" /\ UNCHANGED dramVars

Miss(r) ==
  /\ ~ IsHit(r)
  /\ newItem' = [kid |-> r.kid, size |-> r.size]
  /\ IF r.kid \in DOMAIN allObjects THEN Replace(r.kid)
     ELSE pc' = "insert" /\ UNCHANGED tierVars
  /\ UNCHANGED <<call, outcome>>

Proc(r) == pc = "ready" /\ (Hit(r) \/ Miss(r))

(* The clock chooses, and the object leaves.                               *)
EvictByClock == EvictItem(VictimOf(clockLru), Swept(clockLru))

(* The loop after a ghost came back to life. *)
Revive ==
  /\ pc = "revive"
  /\ IF Total > Limit THEN EvictByClock /\ UNCHANGED pc
     ELSE pc' = "ready" /\ UNCHANGED tierVars
  /\ UNCHANGED <<newItem, call, outcome>>

HasRoom ==
  newItem.size + dramSize =< DRAM_SIZE /\ Total + 100 * newItem.size =< Limit

(* "We always insert new requests to the DRAM": into queue 0, and to the   *)
(* end of the clock.                                                       *)
Insert ==
  /\ pc = "insert" /\ HasRoom
  /\ pc' = "ready" /\ newItem' = NoItem
  /\ dram' = [dram EXCEPT ![0] = <<newItem.kid>> \o @]
  /\ kLruSizes' = [kLruSizes EXCEPT ![0] = @ + newItem.size]
  /\ dramSize' = dramSize + newItem.size
  /\ dramLru' = <<newItem.kid>> \o dramLru
  /\ clockLru' = Enter(clockLru, newItem.kid, CLOCK_MAX_VALUE)
  /\ allObjects' = Bind(allObjects, newItem.kid,
                        [size |-> newItem.size, isInDram |-> TRUE, isGhost |-> FALSE,
                         queueNumber |-> 0, SVMResult |-> FALSE])
  /\ outcome' = Outcome(newItem, "miss")
  /\ UNCHANGED <<call, svm_size, flashVars>>

MakesRoom == pc = "insert" /\ ~ HasRoom /\ UNCHANGED <<newItem, call, outcome>>
IsFull == Total + 100 * newItem.size >= Limit

(* Neither tier has room: the clock chooses.                               *)
EvictGlobal == MakesRoom /\ IsFull /\ EvictByClock /\ UNCHANGED pc

(* All blocks are in use: the ghosts of the oldest one are gone, the other *)
(* objects return to queue 0, to be judged anew.  The size of the block is *)
(* read after the block was erased.                                        *)
EvictBlock ==
  /\ MakesRoom /\ ~ IsFull /\ Len(flash) = maxBlocks
  /\ LET block  == Last(flash)
         ghosts == {k \in ToSet(block.items) : allObjects[k].isGhost}
         alive  == SelectSeq(block.items, LAMBDA k : k \notin ghosts)
     IN /\ dram' = [dram EXCEPT ![0] = Reverse(alive) \o @]
        /\ kLruSizes' = [kLruSizes EXCEPT ![0] = @ + Bytes(ToSet(alive))]
        /\ dramSize' = dramSize + Bytes(ToSet(alive))
        /\ dramLru' = Reverse(alive) \o dramLru
        /\ flash' = Front(flash) /\ flashSize' = flashSize - block.size
        /\ allObjects' = [k \in DOMAIN allObjects \ ghosts |->
                            IF k \in ToSet(alive)
                            THEN [allObjects[k] EXCEPT !.isInDram = TRUE, !.queueNumber = 0]
                            ELSE allObjects[k]]
  /\ pc' \in {"insert", "undefined"}
  /\ UNCHANGED <<svm_size, clockLru>>

(* The approved objects of the queues, the highest queue and the newest    *)
(* object first, that fill a block; enough of them, or none are written.   *)
IsFilled(bytes) == 100 * bytes >= Min_Block_Fill_Threshold * BLOCK_SIZE
AllQueues == FoldLeft(LAMBDA q, k : dram[k] \o q, <<>>, [i \in 1 .. K_LRU_QUEUES |-> i - 1])
Chosen ==
  FoldLeft(LAMBDA q, k :
             IF IsFilled(Bytes(ToSet(q))) \/ Bytes(ToSet(q)) + allObjects[k].size >= BLOCK_SIZE
             THEN q ELSE Append(q, k),
           <<>>, SelectSeq(AllQueues, Approved))
FoundMfu == svm_size >= BLOCK_SIZE /\ IsFilled(Bytes(ToSet(Chosen)))

HasFreeBlock == MakesRoom /\ ~ IsFull /\ Len(flash) < maxBlocks

(* The objects leave their queues and the prediction is forgotten; their   *)
(* queue number is set to 8, and then used to count one down beyond the    *)
(* end of kLruAmountOfSVM.                                                 *)
AllocateFlashBlock ==
  /\ HasFreeBlock /\ FoundMfu
  /\ LET moved == ToSet(Chosen)
         Rest(q) == SelectSeq(q, LAMBDA k : k \notin moved)
     IN /\ dram' = [k \in Levels |-> Rest(dram[k])]
        /\ kLruSizes' = [k \in Levels |-> kLruSizes[k] - Bytes(ToSet(dram[k]) \intersect moved)]
        /\ dramLru' = Rest(dramLru)
        /\ dramSize' = dramSize - Bytes(moved) /\ svm_size' = svm_size - Bytes(moved)
        /\ flash' = <<[size |-> Bytes(moved), items |-> Reverse(Chosen)]>> \o flash
        /\ flashSize' = flashSize + Bytes(moved)
        /\ allObjects' = [k \in DOMAIN allObjects |->
                            IF k \in moved
                            THEN [allObjects[k] EXCEPT !.isInDram = FALSE, !.SVMResult = FALSE,
                                                       !.queueNumber = 8]
                            ELSE allObjects[k]]
        /\ pc' \in IF flashSize' =< FLASH_SIZE THEN {"insert", "undefined"} ELSE {"aborted"}
  /\ UNCHANGED clockLru

(* "If we don't find an MRU item to move to flash we will delete items     *)
(* from dram by LRU", until the new object fits there.                     *)
FindNone ==
  /\ HasFreeBlock /\ ~ FoundMfu
  /\ pc' = "trim"
  /\ UNCHANGED tierVars

Trim ==
  /\ pc = "trim"
  /\ IF newItem.size + dramSize > DRAM_SIZE
     THEN EvictItem(Last(dramLru), clockLru) /\ UNCHANGED pc
     ELSE pc' = "insert" /\ UNCHANGED tierVars
  /\ UNCHANGED <<newItem, call, outcome>>

Proceed ==
  \/ ReorderCall \/ Predict \/ Revive \/ Insert \/ EvictGlobal \/ EvictBlock
  \/ AllocateFlashBlock \/ FindNone \/ Trim
Next == (\E r \in Requests : Proc(r)) \/ Proceed

(* proc runs to its end; nothing makes the trace go on. *)
Spec == Init /\ [][Next]_vars /\ WF_vars(Proceed)

-------------------------------------------------------------------------------
TypeOK ==
  /\ pc \in {"ready", "reorder", "predict", "revive", "insert", "trim", "aborted", "undefined"}
  /\ newItem \in Requests \union {NoItem}
  /\ dram \in [Levels -> Seq(Keys)] /\ kLruSizes \in [Levels -> Nat]
  /\ dramLru \in Seq(Keys) /\ call.objects \in Seq(Keys) /\ call.k \in Levels
  /\ \A b \in DOMAIN flash : flash[b].size \in Nat /\ flash[b].items \in Seq(Keys)
  /\ clockLru \in Seq([kid : Keys, count : 0 .. CLOCK_MAX_VALUE])
  /\ DOMAIN allObjects \subseteq Keys
  /\ \A k \in DOMAIN allObjects :
       allObjects[k] \in [size : Sizes, isInDram : BOOLEAN, isGhost : BOOLEAN,
                          queueNumber : Levels \union {8}, SVMResult : BOOLEAN]
  /\ dramSize \in Nat /\ flashSize \in Nat /\ svm_size \in Nat

InDram == {k \in DOMAIN allObjects : allObjects[k].isInDram}
Ghosts == {k \in DOMAIN allObjects : allObjects[k].isGhost}
IsListOf(q, S) == ToSet(q) = S /\ Len(q) = Cardinality(S)

(* The queues, the LRU list, the blocks, the clock and the hash table      *)
(* agree, except for what a cascade has in hand; every byte is counted     *)
(* once, and svm_size, kept by hand in five places, is the bytes of DRAM   *)
(* the classifier approved of; the bounded queues keep their bound, and    *)
(* the two tiers together keep theirs between two requests.                *)
Consistent ==
  /\ \A q \in Levels :
       /\ IsListOf(dram[q], {k \in InDram \ ToSet(call.objects) : allObjects[k].queueNumber = q})
       /\ kLruSizes[q] = Bytes(ToSet(dram[q]))
       /\ q > 0 => kLruSizes[q] =< KLRU_QUEUE_SIZE
  /\ IsListOf(dramLru, InDram)
  /\ dramSize = Bytes(InDram \ ToSet(call.objects))
  /\ svm_size = Bytes({k \in InDram : allObjects[k].SVMResult})
  /\ IsListOf([i \in DOMAIN clockLru |-> clockLru[i].kid], DOMAIN allObjects \ Ghosts)
  /\ IsListOf(FoldLeft(LAMBDA q, b : q \o b.items, <<>>, flash), DOMAIN allObjects \ InDram)
  /\ \A b \in DOMAIN flash : flash[b].size = Bytes(ToSet(flash[b].items) \ Ghosts)
  /\ flashSize = FoldLeft(LAMBDA sum, b : sum + b.size, 0, flash)
  /\ pc = "ready" => Total =< Limit

(* No assertion fails. *)
NeverAborts == pc # "aborted"

(* What the replay loop sees: ghosts are hits, for they are still there.   *)
Contents == [k \in DOMAIN allObjects |-> allObjects[k].size]
===============================================================================
