------------------------------ MODULE Simulator ------------------------------
(***************************************************************************)
(* src/src/lsm-sim.cpp: one policy is chosen on the command line and is    *)
(* given every request of the trace.  The policies that work on single     *)
(* objects are composed here, and what multi does to its shares of memory  *)
(* instead of stealing; each keeps the variables of its own module, and    *)
(* modules that never run together share those of the same name.  The      *)
(* variables of the policies that were not chosen never change.            *)
(***************************************************************************)
EXTENDS Integers, FiniteSetsExt, SequencesExt

CONSTANTS
  Keys, Sizes,      \* request::kid and request::size()
  GlobalMem,        \* -s, the memory of fifo and clock
  MemSizes,         \* the memory an lru queue may have or be given
  CLOCK_MAX_VALUE,
  K_LRU, KLRU_QUEUE_SIZE,
  DRAM_SIZE, FLASH_SIZE,
  FewKeys,          \* the keys requested from flashcache and flashcachelruk
  FC_K_LRU, FC_KLRU_QUEUE_SIZE, DRAM_SIZE_FC_KLRU,
  Wrap,             \* one more than the largest size_t
  top_data_bound, page_size, number_of_pages, num_hash_functions,  \* segment_util
  Apps, TargetMem, MinMemPct, OSIZE, AET_PGAP, WorkingSets, Misses,
  TaxRate, InUse, MaxPoints,                                       \* the shares of multi
  smallest_class, CHUNK_ALIGN_BYTES, item_size_max, MAX_NUMBER_OF_SLAB_CLASSES,
  FactorNum, FactorDen, memcachier_count, SLABSIZE,                \* shadowslab
  partitions                                                       \* partslab

VARIABLES
  policy,                                                \* policy_type
  pc, outcome, queue, allObjects, bytes_cached,          \* of several policies
  map, global_mem,                                       \* of Lru
  curve, removed, seen,                                  \* of the shadow policies
  current_size,                                          \* of Fifo
  req, ring, lruSize, firstEviction, behind,             \* of Clock
  call, kLru, kLruSizes, hits,                           \* of Lruk
  dram, flash, dramSize, flashSize, recency,             \* of policies with tiers
  item,                                                  \* of VictimCache
  newItem, dramLru, globalLru, credits,                  \* of FlashCache, -Lruk
  objects, dataSize, todo, pageSizes, bytesCached, extent,   \* of SegmentUtil
  credit_bytes, MRC, maxes, E, P, BestA, W, current_misses,  \* of Arbitration
  slabs, slabBytes, slabids, slab_for_key, next_slabid,  \* of ShadowSlab
  klassOf, parts, partBytes                              \* of PartSlab

lruVars    == <<map, global_mem>>
removeVars == <<removed, seen>>
shadowVars == <<curve, removeVars>>
clockVars  == <<req, ring, lruSize, firstEviction, behind>>
lrukVars   == <<call, kLru, kLruSizes, hits>>
tierVars   == <<flash, dramSize, flashSize>>
creditVars == <<dramLru, credits>>
pageVars   == <<objects, dataSize, todo, pageSizes, bytesCached, extent>>
shareVars  == <<credit_bytes, MRC, maxes, E, P, BestA, W, current_misses>>
slabVars   == <<slabs, slabBytes, slabids, slab_for_key, next_slabid>>
partVars   == <<klassOf, parts, partBytes>>
otherVars  == <<pageVars, shareVars, slabVars, partVars>>
sharedVars == <<pc, outcome, queue, allObjects, bytes_cached>>
flashVars  == <<tierVars, item, dram, recency, newItem, globalLru, creditVars>>
vars == <<policy, sharedVars, lruVars, shadowVars, current_size, clockVars,
          lrukVars, flashVars, otherVars>>

Policies == {"lru", "shadowlru", "fifo", "clock", "lruk", "victimcache",
             "flashcache", "flashcachelruk", "segment_util", "multi",
             "shadowslab", "shadowslab_memcachier", "partslab"}

(* fifo refuses an object that is too large, the policies with tiers and   *)
(* clock assert that there is none.                                        *)
UpTo(mem) == {s \in Sizes : s =< mem}
AlsoTooLarge == Sizes \union {GlobalMem + 1}

Lru    == INSTANCE Lru
Shadow == INSTANCE ShadowLru
Fifo   == INSTANCE Fifo WITH Sizes <- AlsoTooLarge
Clock  == INSTANCE Clock WITH Sizes <- UpTo(GlobalMem)
Lruk   == INSTANCE Lruk
Victim == INSTANCE VictimCache WITH Sizes <- UpTo(DRAM_SIZE)
Flash  == INSTANCE FlashCache WITH Keys <- FewKeys, Sizes <- UpTo(DRAM_SIZE)
Klru   == INSTANCE FlashCacheLruk WITH Keys <- FewKeys, dram <- kLru,
            DRAM_SIZE <- DRAM_SIZE_FC_KLRU, Sizes <- UpTo(DRAM_SIZE_FC_KLRU)
Pages  == INSTANCE SegmentUtil WITH Keys <- FewKeys, Sizes <- AlsoTooLarge
Shares == INSTANCE Arbitration
Slabs  == INSTANCE ShadowSlab WITH
            Keys <- FewKeys, Sizes <- AlsoTooLarge, memcachier_classes <- FALSE
SlabsM == INSTANCE ShadowSlab WITH
            Keys <- FewKeys, Sizes <- AlsoTooLarge, memcachier_classes <- TRUE
Parts  == INSTANCE PartSlab WITH Keys <- FewKeys

ASSUME PolicyAssumptions ==
  /\ Lru!SizesAssumption /\ Shadow!WrapAssumption /\ Fifo!SizesAssumption
  /\ Clock!SizesAssumption /\ Lruk!QueuesAssumption /\ Victim!TiersAssumption
  /\ Flash!TiersAssumption /\ Klru!TiersAssumption
  /\ Pages!PagesAssumption /\ Shares!ArbitrationAssumption
  /\ Slabs!SlabsAssumption /\ SlabsM!SlabsAssumption /\ partitions \in Nat \ {0}
  /\ FewKeys \subseteq Keys

(* The switch over policy_type.  Only an lru is ever expanded, and hashes  *)
(* matter to partslab: elsewhere one value of each is enough.              *)
Init ==
  /\ policy \in Policies
  /\ Lru!Init /\ Shadow!Init /\ Fifo!Init /\ Clock!Init /\ Lruk!Init /\ Victim!Init
  /\ Flash!Init /\ Klru!Init /\ Pages!Init /\ Shares!Init
  /\ (IF policy = "shadowslab_memcachier" THEN SlabsM!Init ELSE Slabs!Init) /\ Parts!Init
  /\ policy # "lru" => global_mem = Max(MemSizes)
  /\ policy # "partslab" => klassOf = [k \in FewKeys |-> 0]

(* One member function of the policy, or one step of it. *)
RunLru ==
  /\ policy = "lru" /\ Lru!Next
  /\ UNCHANGED <<pc, allObjects, shadowVars, current_size, clockVars, lrukVars, flashVars,
                 otherVars>>
RunShadow ==
  /\ policy = "shadowlru" /\ Shadow!Next
  /\ UNCHANGED <<pc, outcome, allObjects, lruVars, current_size, clockVars, lrukVars, flashVars,
                 otherVars>>
RunFifo ==
  /\ policy = "fifo" /\ Fifo!Next
  /\ UNCHANGED <<pc, allObjects, bytes_cached, lruVars, shadowVars, clockVars, lrukVars,
                 flashVars, otherVars>>
RunClock(Step) ==
  /\ policy = "clock" /\ Step
  /\ UNCHANGED <<queue, bytes_cached, lruVars, shadowVars, current_size, lrukVars, flashVars,
                 otherVars>>
RunLruk(Step) ==
  /\ policy = "lruk" /\ Step
  /\ UNCHANGED <<queue, bytes_cached, lruVars, shadowVars, current_size, clockVars, flashVars,
                 otherVars>>
RunVictim(Step) ==
  /\ policy = "victimcache" /\ Step
  /\ UNCHANGED <<queue, bytes_cached, lruVars, shadowVars, current_size, clockVars, lrukVars,
                 newItem, globalLru, creditVars, otherVars>>
RunFlash(Step) ==
  /\ policy = "flashcache" /\ Step
  /\ UNCHANGED <<queue, bytes_cached, lruVars, shadowVars, current_size, clockVars, lrukVars,
                 item, otherVars>>
RunKlru(Step) ==
  /\ policy = "flashcachelruk" /\ Step
  /\ UNCHANGED <<queue, bytes_cached, lruVars, shadowVars, current_size, clockVars,
                 item, dram, recency, creditVars, otherVars>>
RunPages(Step) ==
  /\ policy = "segment_util" /\ Step
  /\ UNCHANGED <<queue, allObjects, bytes_cached, lruVars, shadowVars, current_size, clockVars,
                 lrukVars, flashVars, shareVars, slabVars, partVars>>
RunShares(Step) ==
  /\ policy = "multi" /\ Step
  /\ UNCHANGED <<outcome, queue, allObjects, bytes_cached, lruVars, shadowVars, current_size,
                 clockVars, lrukVars, flashVars, pageVars, slabVars, partVars>>
RunSlabs(variant, Step) ==
  /\ policy = variant /\ Step
  /\ UNCHANGED <<outcome, queue, allObjects, bytes_cached, lruVars, removeVars, current_size,
                 clockVars, lrukVars, flashVars, pageVars, shareVars, partVars>>
RunParts ==
  /\ policy = "partslab" /\ Parts!Next
  /\ UNCHANGED <<sharedVars, lruVars, removeVars, current_size, clockVars, lrukVars, flashVars,
                 pageVars, shareVars, slabVars>>

(* The policies whose proc takes more than one step go on with it. *)
Proceed ==
  \/ RunClock(Clock!Proceed) \/ RunLruk(Lruk!Proceed) \/ RunVictim(Victim!Proceed)
  \/ RunFlash(Flash!Proceed) \/ RunKlru(Klru!Proceed)
  \/ RunPages(Pages!Proceed) \/ RunShares(Shares!Proceed)

Next ==
  /\ \/ RunLru \/ RunShadow \/ RunFifo
     \/ RunClock(Clock!Next) \/ RunLruk(Lruk!Next) \/ RunVictim(Victim!Next)
     \/ RunFlash(Flash!Next) \/ RunKlru(Klru!Next)
     \/ RunPages(Pages!Next) \/ RunShares(Shares!Next)
     \/ RunSlabs("shadowslab", Slabs!Next) \/ RunSlabs("shadowslab_memcachier", SlabsM!Next)
     \/ RunParts
  /\ UNCHANGED policy

(* proc runs to its end; nothing makes the trace go on. *)
Spec == Init /\ [][Next]_vars /\ WF_vars(Proceed /\ UNCHANGED policy)

-------------------------------------------------------------------------------
TypeOK ==
  CASE policy = "lru" -> Lru!TypeOK
    [] policy = "shadowlru" -> Shadow!TypeOK
    [] policy = "fifo" -> Fifo!TypeOK
    [] policy = "clock" -> Clock!TypeOK
    [] policy = "lruk" -> Lruk!TypeOK
    [] policy = "victimcache" -> Victim!TypeOK
    [] policy = "flashcache" -> Flash!TypeOK
    [] policy = "flashcachelruk" -> Klru!TypeOK
    [] policy = "segment_util" -> Pages!TypeOK
    [] policy = "multi" -> Shares!TypeOK
    [] policy = "shadowslab" -> Slabs!TypeOK
    [] policy = "shadowslab_memcachier" -> SlabsM!TypeOK
    [] policy = "partslab" -> Parts!TypeOK

(* In every policy the lists, the hash table and the byte counts that are  *)
(* kept by hand agree, in the middle of an eviction as well as after it,   *)
(* and no queue holds more than it may; pages hold objects without a gap,  *)
(* shares of memory come to all of it, and no distance leads out of the    *)
(* slabs of its class: see Consistent in each module.                      *)
Consistent ==
  CASE policy = "lru" -> Lru!Consistent
    [] policy = "shadowlru" -> Shadow!Consistent
    [] policy = "fifo" -> Fifo!Consistent
    [] policy = "clock" -> Clock!Consistent
    [] policy = "lruk" -> Lruk!Consistent
    [] policy = "victimcache" -> Victim!Consistent
    [] policy = "flashcache" -> Flash!Consistent
    [] policy = "flashcachelruk" -> Klru!Consistent
    [] policy = "segment_util" -> Pages!Consistent
    [] policy = "multi" -> Shares!Consistent
    [] policy = "shadowslab" -> Slabs!Consistent
    [] policy = "shadowslab_memcachier" -> SlabsM!Consistent
    [] policy = "partslab" -> Parts!Consistent

(* clock: a used object outlives those that had run out of credit before. *)
SecondChance == [][RunClock(Clock!Proceed) => Clock!OutOfCreditFirst]_vars

(* lruk and flashcachelruk: an object is only as high up as it was hit. *)
PromotionIsEarned ==
  /\ policy = "lruk" => Lruk!PromotionIsEarned
  /\ policy = "flashcachelruk" => Klru!PromotionIsEarned

(* victimcache: DRAM and flash are one LRU list cut in two. *)
TiersAreOneLru == policy = "victimcache" => Victim!TiersAreOneLru

(* flashcache: what it gives up, for lack of credit or of flash, was used  *)
(* before everything that stays in DRAM.                                   *)
EvictsOldest == [][RunFlash(Flash!Proceed) => Flash!EvictsOldest]_vars

(* No assertion fails and no empty list is read, unless an object is       *)
(* larger than the queue or tier it has to go to.                          *)
DiesOnlyOversize ==
  /\ policy = "lruk" => Lruk!AbortsOnlyOversize
  /\ policy = "victimcache" => Victim!CrashesOnlyOversize
  /\ policy = "flashcachelruk" => Klru!AbortsOnlyOversize

(* Every policy that serves objects is a cache as the replay loop expects  *)
(* one: a request hits exactly when its key is held in its size, a miss    *)
(* installs it, and nothing leaves or enters otherwise, however the work   *)
(* of one request interleaves lookups, evictions and moves.                *)
Contents ==
  CASE policy = "lru" -> Lru!Contents
    [] policy = "fifo" -> Fifo!Contents
    [] policy = "clock" -> Clock!Contents
    [] policy = "lruk" -> Lruk!Contents
    [] policy = "victimcache" -> Victim!Contents
    [] policy = "flashcache" -> Flash!Contents
    [] policy = "flashcachelruk" -> Klru!Contents
    [] OTHER -> [k \in {} |-> 0]
C == INSTANCE Cache WITH contents <- Contents, Sizes <- AlsoTooLarge
IsCache == C!CacheSpec

(* The eviction loops and the recursion come to an end: proc returns, or   *)
(* the process dies.                                                       *)
RequestCompletes ==
  pc \in {"evict", "insert", "reorder", "place", "shrink", "divide"}
    ~> pc \in {"ready", "aborted", "crashed", "exited"}
===============================================================================
