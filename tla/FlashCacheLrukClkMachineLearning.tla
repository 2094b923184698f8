------------------- MODULE FlashCacheLrukClkMachineLearning -------------------
(***************************************************************************)
(* The two-tier cache of src/src/flash_cache_lruk_clock_machinelearning.   *)
(* {h,cpp}: FlashCacheLrukClk, in which a classifier says which objects of *)
(* DRAM are worth flash.  For some time the hits are recorded to train it, *)
(* then it is fitted, once, and all objects are judged.                    *)
(*                                                                         *)
(* The classifier is external: what it says is left open, and so are the   *)
(* numbers it is told.  The counts of approved objects are kept as the     *)
(* code keeps them: they drift, for an object that is judged again counts  *)
(* twice, and one that finds no room in flash no longer counts.            *)
(***************************************************************************)
EXTENDS Integers, FiniteSetsExt, SequencesExt, ClockRing

CONSTANTS
  Keys, Sizes,                            \* request::kid and request::size()
  FC_K_LRU, FC_KLRU_QUEUE_SIZE, DRAM_SIZE, FLASH_SIZE, CLOCK_MAX_VALUE,
  MIN_QUEUE_TO_MOVE_TO_FLASH,             \* as in FlashCacheLrukClk
  HitStartTimes,                          \* hit_start_time, the end of warmup
  MaxDrift                                \* bounds the counts, between two requests

VARIABLES
  pc, newItem, call, dram, kLruSizes, dramLru, flash, clockLru, dramSize, flashSize, hits,
  outcome,            \* as in FlashCacheLrukClk, with "undefined" for pc; newItem is
                      \* also the request that hit, until it is judged
  allObjects,         \* kid -> size, isInDram, queueNumber, hasDramItem, SVMResult
                      \* (false where hasDramItem is), hasSVMItem
  dramItemList,       \* the keys whose DramItem is in the list
  svmItems,           \* the keys whose SVMItem is in SVMCalculationItemList
  kLruAmountOfSVM,    \* for each queue, an integer: of a size_t that wraps, only
                      \* whether it is 0 matters
  AmountOfSVM_1,
  SVMCalculationRun,
  time,               \* the phase the trace is in, see below
  hit_start_time

(* 0 up to ML_START_TIME, then 1 and 2 until the last update of an SVMItem *)
(* at ML_END_TIME + 3600, then 3 from ML_TIME_TO_RUN_SVM on; nothing is    *)
(* done between the two, and the trace is ordered by time.                 *)
Times == 0 .. 3
inTimesforupdate == time \in {1, 2}
TimeToRunSVM == time = 3
warmup == time < hit_start_time

Base == INSTANCE FlashCacheLrukClk WITH
          CLOCK_START_VAL <- CLOCK_MAX_VALUE, CLOCK_JUMP <- CLOCK_MAX_VALUE
Queues == INSTANCE FlashCacheLruk WITH globalLru <- dramLru

TiersAssumption == Base!TiersAssumption /\ HitStartTimes \subseteq Nat /\ MaxDrift \in Nat

dramVars  == <<dram, kLruSizes, dramLru, dramSize>>
flashVars == <<flash, flashSize>>
svmVars   == <<dramItemList, kLruAmountOfSVM, AmountOfSVM_1>>
fitVars   == <<svmItems, SVMCalculationRun>>
timeVars  == <<time, hit_start_time>>
vars == <<pc, newItem, call, dramVars, flashVars, clockLru, allObjects, hits, outcome, svmVars,
          fitVars, timeVars>>

Init ==
  /\ Base!Init
  /\ dramItemList = {} /\ kLruAmountOfSVM = [k \in Queues!Levels |-> 0] /\ AmountOfSVM_1 = 0
  /\ svmItems = {} /\ SVMCalculationRun = FALSE
  /\ time = 0 /\ hit_start_time \in HitStartTimes

One(b) == IF b THEN 1 ELSE 0
ApprovedIn(S) == Cardinality({k \in S : allObjects[k].SVMResult})

-------------------------------------------------------------------------------
Idle == pc = "ready" /\ newItem = Queues!NoItem

Tick ==
  /\ Idle /\ time < 3
  /\ time' = time + 1
  /\ UNCHANGED <<pc, newItem, call, dramVars, flashVars, clockLru, allObjects, hits, outcome,
                 svmVars, fitVars, hit_start_time>>

(* SVMFunctionCalculation, before anything else the first request does     *)
(* that is late enough.  AmountOfSVM_1 also counts the examples it was     *)
(* trained with, none or some.                                             *)
SVMFunctionCalculation ==
  /\ Idle /\ TimeToRunSVM /\ ~ SVMCalculationRun
  /\ SVMCalculationRun' = TRUE /\ svmItems' = {}
  /\ \E approved \in SUBSET dramItemList, examples \in {0, 1} :
       /\ allObjects' = [k \in DOMAIN allObjects |->
                           IF k \in dramItemList
                           THEN [allObjects[k] EXCEPT !.SVMResult = k \in approved]
                           ELSE allObjects[k]]
       /\ kLruAmountOfSVM' = [q \in Queues!Levels |->
            kLruAmountOfSVM[q] + Cardinality({k \in approved : allObjects[k].queueNumber = q})]
       /\ AmountOfSVM_1' = examples + Cardinality(approved)
  /\ UNCHANGED <<pc, newItem, call, dramVars, flashVars, clockLru, hits, outcome, dramItemList,
                 timeVars>>

(* A hit renews the counter of the clock; in DRAM the object is lifted by  *)
(* a queue, and takes its approval there.                                  *)
Hit(r) ==
  /\ Queues!IsHit(r)
  /\ clockLru' = SetCount(clockLru, r.kid, CLOCK_MAX_VALUE)
  /\ hits' = [hits EXCEPT ![r.kid] = Min({@ + 1, FC_K_LRU - 1})]
  /\ outcome' = Queues!Outcome(r, "hit")
  /\ newItem' = [kid |-> r.kid, size |-> r.size]
  /\ IF allObjects[r.kid].isInDram
     THEN LET qN == allObjects[r.kid].queueNumber
          IN /\ dramLru' = <<r.kid>> \o Base!Drop(dramLru, r.kid)
             /\ Queues!LeaveQueue(r.kid)
             /\ kLruAmountOfSVM' =
                  [kLruAmountOfSVM EXCEPT ![qN] = @ - One(allObjects[r.kid].SVMResult)]
             /\ Queues!Reorder(<<r.kid>>, r.size, Min({qN + 1, FC_K_LRU - 1}), qN + 1 # FC_K_LRU)
     ELSE UNCHANGED <<pc, call, dramVars, kLruAmountOfSVM>>
  /\ UNCHANGED <<flashVars, allObjects, dramItemList, AmountOfSVM_1, fitVars>>

(* deleteItem, when the hand is where ring starts, and counts and amount   *)
(* are what is left of the counts.                                         *)
DeleteItem(k, ring, counts, amount) ==
  /\ Base!DeleteItem(k, ring)
  /\ kLruAmountOfSVM' = [q \in Queues!Levels |->
       counts[q] - One(allObjects[k].SVMResult /\ q = allObjects[k].queueNumber)]
  /\ AmountOfSVM_1' = amount - One(allObjects[k].SVMResult)
  /\ dramItemList' = dramItemList \ {k}
  /\ svmItems' = svmItems \ {k}
  /\ UNCHANGED SVMCalculationRun

(* An object that changes its size leaves, with its SVMItem as long as     *)
(* these are updated: the item must still be in the list.                  *)
ErasesSvmItem(k) == inTimesforupdate /\ allObjects[k].hasSVMItem
Miss(r) ==
  /\ ~ Queues!IsHit(r)
  /\ newItem' = [kid |-> r.kid, size |-> r.size]
  /\ IF r.kid \in DOMAIN allObjects
     THEN /\ DeleteItem(r.kid, clockLru, kLruAmountOfSVM, AmountOfSVM_1)
          /\ pc' = IF ErasesSvmItem(r.kid) => r.kid \in svmItems THEN "insert" ELSE "undefined"
     ELSE /\ pc' = "insert"
          /\ UNCHANGED <<dramVars, flashVars, clockLru, allObjects, hits, svmVars, fitVars>>
  /\ UNCHANGED <<call, outcome>>

Bounded == \A n \in {AmountOfSVM_1} \union {kLruAmountOfSVM[q] : q \in Queues!Levels} :
             n \in -MaxDrift .. MaxDrift
Proc(r) ==
  /\ Idle /\ (TimeToRunSVM => SVMCalculationRun) /\ Bounded
  /\ Hit(r) \/ Miss(r)
  /\ UNCHANGED timeVars

-------------------------------------------------------------------------------
(* One nested call of dramAddandReorder; what it moves takes its approval  *)
(* along.                                                                  *)
AddAndReorder ==
  /\ pc = "reorder"
  /\ LET popped == ToSet(Queues!Popped(call.k, call.sum))
     IN IF Queues!AssertionsHold(call)
        THEN /\ Base!AddAndReorder
             /\ kLruAmountOfSVM' = [kLruAmountOfSVM EXCEPT ![call.k] =
                                      @ - ApprovedIn(popped) + ApprovedIn(ToSet(call.objects))]
        ELSE /\ pc' = "aborted"
             /\ UNCHANGED <<newItem, call, dramVars, flashVars, clockLru, allObjects, hits,
                            outcome, kLruAmountOfSVM>>
  /\ UNCHANGED <<dramItemList, AmountOfSVM_1, fitVars, timeVars>>

(* ColectItemDataAndPredict: the object that was hit is judged, in DRAM,   *)
(* at its first hit, and at later ones after warmup.                       *)
IsJudged(item) == item.isInDram /\ (item.hasDramItem => ~ warmup)

Predict(approved) ==
  LET item == allObjects[newItem.kid]
  IN IF IsJudged(item)
     THEN /\ kLruAmountOfSVM' = [q \in Queues!Levels |->
                                   kLruAmountOfSVM[q] + One(approved /\ q = item.queueNumber)]
          /\ AmountOfSVM_1' = AmountOfSVM_1 + One(approved)
          /\ dramItemList' = dramItemList \union {newItem.kid}
     ELSE /\ approved = item.SVMResult
          /\ UNCHANGED svmVars

(* SVMWarmUPCalculation: the hit is recorded to train the classifier, with *)
(* an SVMItem that must still be in the list.                              *)
Records == warmup /\ inTimesforupdate
Learn ==
  LET k == newItem.kid
      item == allObjects[k]
      dangles == Records /\ item.hasSVMItem /\ k \notin svmItems
  IN /\ pc = "ready" /\ k \in Keys
     /\ \E approved \in BOOLEAN :
          /\ Predict(approved)
          /\ allObjects' = [allObjects EXCEPT ![k] =
                              [@ EXCEPT !.SVMResult = approved,
                                        !.hasDramItem = item.hasDramItem \/ IsJudged(item),
                                        !.hasSVMItem = item.hasSVMItem \/ Records]]
     /\ svmItems' = IF Records THEN svmItems \union {k} ELSE svmItems
     /\ pc' = IF dangles THEN "undefined" ELSE "ready"
     /\ newItem' = Queues!NoItem
     /\ UNCHANGED <<call, dramVars, flashVars, clockLru, hits, outcome, SVMCalculationRun,
                    timeVars>>

-------------------------------------------------------------------------------
(* The new object is in DRAM and has yet to be judged. *)
Insert ==
  /\ Base!InsertAs([size |-> newItem.size, isInDram |-> TRUE, queueNumber |-> 0,
                    hasDramItem |-> FALSE, SVMResult |-> FALSE, hasSVMItem |-> FALSE])
  /\ UNCHANGED <<svmVars, fitVars, timeVars>>

(* "Find the MRU item": after warmup, and as long as any are counted, the  *)
(* newest approved object of the highest queue that is said to have one;   *)
(* otherwise the newest object of the highest queue.                       *)
UsesSVM == ~ warmup /\ AmountOfSVM_1 # 0
ApprovedOf(q) == SelectSeq(dram[q], LAMBDA k : allObjects[k].SVMResult)
ApprovedQueues ==
  {q \in MIN_QUEUE_TO_MOVE_TO_FLASH .. FC_K_LRU - 1 :
     kLruAmountOfSVM[q] # 0 /\ ApprovedOf(q) # <<>>}
FoundMfu == IF UsesSVM THEN ApprovedQueues # {} ELSE Base!HighQueues # {}
mfuKid == IF UsesSVM THEN Head(ApprovedOf(Max(ApprovedQueues))) ELSE Base!mfuKid

(* The object that was found is taken off the counts at once, even if it   *)
(* finds no room in flash.                                                 *)
CountsLeft ==
  [q \in Queues!Levels |-> kLruAmountOfSVM[q] - One(UsesSVM /\ q = allObjects[mfuKid].queueNumber)]
AmountLeft == AmountOfSVM_1 - One(UsesSVM)

(* Its queue number is set to 8, and what was found out about it is gone.  *)
MoveToFlash ==
  /\ Base!MakesRoom /\ FoundMfu /\ Base!FitsInFlash(mfuKid)
  /\ Base!Move(mfuKid, [allObjects[mfuKid] EXCEPT !.isInDram = FALSE, !.queueNumber = 8,
                                                  !.hasDramItem = FALSE, !.SVMResult = FALSE])
  /\ kLruAmountOfSVM' = CountsLeft /\ AmountOfSVM_1' = AmountLeft
  /\ dramItemList' = dramItemList \ {mfuKid}
  /\ UNCHANGED <<fitVars, timeVars>>

(* ClockFindItemToErase *)
EvictByClock ==
  /\ Base!MakesRoom /\ FoundMfu /\ ~ Base!FitsInFlash(mfuKid)
  /\ DeleteItem(VictimOf(clockLru), Swept(clockLru), CountsLeft, AmountLeft)
  /\ UNCHANGED timeVars

(* "If we don't find an MRU item to move to flash we will delete items     *)
(* from dram by LRU".                                                      *)
EvictDramLru ==
  /\ Base!MakesRoom /\ ~ FoundMfu
  /\ DeleteItem(Last(dramLru), clockLru, kLruAmountOfSVM, AmountOfSVM_1)
  /\ UNCHANGED timeVars

Proceed == AddAndReorder \/ Learn \/ Insert \/ MoveToFlash \/ EvictByClock \/ EvictDramLru
Next ==
  \/ Tick \/ SVMFunctionCalculation
  \/ \E r \in Queues!Requests : Proc(r)
  \/ Proceed

(* proc runs to its end; nothing makes the trace go on. *)
Spec == Init /\ [][Next]_vars /\ WF_vars(Proceed)

-------------------------------------------------------------------------------
Items == [size : Sizes, isInDram : BOOLEAN, queueNumber : Queues!Levels \union {8},
          hasDramItem : BOOLEAN, SVMResult : BOOLEAN, hasSVMItem : BOOLEAN]

(* The bound on the counts leaves room for what one request changes. *)
TypeOK ==
  /\ pc \in {"ready", "insert", "reorder", "aborted", "undefined"}
  /\ newItem \in Queues!Requests \union {Queues!NoItem}
  /\ dram \in [Queues!Levels -> Seq(Keys)] /\ kLruSizes \in [Queues!Levels -> Nat]
  /\ dramLru \in Seq(Keys) /\ flash \in Seq(Keys)
  /\ clockLru \in Seq([kid : Keys, count : 0 .. CLOCK_MAX_VALUE])
  /\ DOMAIN allObjects \subseteq Keys /\ \A k \in DOMAIN allObjects : allObjects[k] \in Items
  /\ kLruAmountOfSVM \in [Queues!Levels -> Int] /\ AmountOfSVM_1 \in Int
  /\ dramItemList \subseteq Keys /\ svmItems \subseteq Keys
  /\ dramSize \in Nat /\ flashSize \in Nat /\ time \in Times

(* The queues, the LRU list, flash, the clock and the hash table agree, as *)
(* in FlashCacheLrukClk; the list of DramItems names the judged objects of *)
(* DRAM and no others, so that the fit makes no object up; and an object   *)
(* with an SVMItem has one in the list until the list is cleared.          *)
Consistent ==
  /\ \A k \in Queues!Levels :
       /\ Queues!IsListOf(dram[k], Queues!QueueOf(k))
       /\ kLruSizes[k] = Queues!SizeOf(dram[k])
       /\ k > 0 => kLruSizes[k] =< FC_KLRU_QUEUE_SIZE
  /\ Queues!IsListOf(dramLru, {k \in DOMAIN allObjects : allObjects[k].isInDram})
  /\ Queues!IsListOf(flash, {k \in DOMAIN allObjects : ~ allObjects[k].isInDram})
  /\ Queues!IsListOf([i \in DOMAIN clockLru |-> clockLru[i].kid], DOMAIN allObjects)
  /\ dramSize + Queues!SizeOf(call.objects) =< DRAM_SIZE
  /\ flashSize = Queues!SizeOf(flash) /\ flashSize =< FLASH_SIZE
  /\ dramItemList = {k \in DOMAIN allObjects : allObjects[k].hasDramItem}
  /\ \A k \in dramItemList : allObjects[k].isInDram
  /\ ~ SVMCalculationRun => svmItems = {k \in DOMAIN allObjects : allObjects[k].hasSVMItem}

(* No assertion fails, and no SVMItem is used that the fit has cleared:    *)
(* updates end before it, only by what the constants say.                  *)
NeverDies == pc \notin {"aborted", "undefined"}

(* Whatever the drifting counts say, an object reaches flash only after as *)
(* many hits as the queues it had to climb.                                *)
FlashIsEarned ==
  \A k \in DOMAIN allObjects :
    IF allObjects[k].isInDram THEN allObjects[k].queueNumber =< hits[k]
    ELSE hits[k] >= MIN_QUEUE_TO_MOVE_TO_FLASH

(* What the replay loop sees of the two tiers. *)
Contents == [k \in DOMAIN allObjects |-> allObjects[k].size]
===============================================================================
