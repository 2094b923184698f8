------------------------------ MODULE RamShield ------------------------------
(***************************************************************************)
(* The caches of src/src/ram_shield.{h,cpp}, ram_shield_fifo.cpp and       *)
(* ram_shield_sel.cpp.  New objects go to DRAM and move to flash a block   *)
(* at a time, the most promising first.  An object that is evicted from    *)
(* flash stays in its block as a ghost until the block is given up, and    *)
(* what is still alive then returns to DRAM.                               *)
(*                                                                         *)
(* One call of proc leads from pc = "ready" back to it; each eviction of   *)
(* an object, each eviction of a block and each allocation is a step.      *)
(***************************************************************************)
EXTENDS Integers, FiniteSetsExt, SequencesExt

CONSTANTS
  Variant,         \* "ram_shield", "fifo" or "sel": which block is given up, and when
  Keys,            \* request::kid
  Sizes,           \* request::size()
  DRAM_SIZE, FLASH_SIZE,
  block_size,      \* the constructor's argument: what flash is divided by
  stat_block_size, \* stat.block_size: what a block may hold
  threshold        \* stat.threshold, in percent

(* proc asserts newItem.size <= DRAM_SIZE. *)
BlocksAssumption ==
  /\ DRAM_SIZE \in Nat /\ FLASH_SIZE \in Nat /\ block_size \in 1 .. FLASH_SIZE
  /\ stat_block_size \in {0, block_size}
  /\ threshold \in 1 .. 100
  /\ Sizes \subseteq 1 .. DRAM_SIZE

VARIABLES
  pc,          \* "ready", "revive", "insert", "evict_block", "allocate", and the
               \* ends "aborted" (an assertion failed) and "undefined"
  newItem,     \* the request room is made for
  resume,      \* the block to be evicted, and where to go on after that
  dram,        \* the keys in DRAM, the one with the highest flashiness last
  flash,       \* the blocks, the newest one first
  globalLru,   \* the keys that are no ghosts, most recently used first
  allObjects,  \* kid -> its size, whether it is in DRAM, whether it is a ghost
  dramSize, flashSize,
  outcome      \* the last completed request and what became of it

dramVars  == <<dram, dramSize>>
flashVars == <<flash, flashSize>>
tierVars  == <<dramVars, flashVars, globalLru, allObjects>>
vars == <<pc, newItem, resume, tierVars, outcome>>

Requests  == [kid : Keys, size : Sizes]
maxBlocks == FLASH_SIZE \div block_size
NoItem    == [kid |-> "none", size |-> 0]
NoResume  == [block |-> 0, next |-> "ready"]

Outcome(r, result) == [kid |-> r.kid, size |-> r.size, result |-> result]
Bytes(S) == MapThenSumSet(LAMBDA k : allObjects[k].size, S)
Drop(q, k) == SelectSeq(q, LAMBDA x : x # k)
Without(f, S) == [x \in DOMAIN f \ S |-> f[x]]
Bind(f, k, v) == [x \in DOMAIN f \union {k} |-> IF x = k THEN v ELSE f[x]]

(* dramSize + flashSize against DRAM_SIZE + FLASH_SIZE * threshold. *)
OverLimit(bytes) == 100 * bytes > 100 * DRAM_SIZE + threshold * FLASH_SIZE
Total == dramSize + flashSize

Init ==
  /\ pc = "ready" /\ newItem = NoItem /\ resume = NoResume /\ outcome = [result |-> "none"]
  /\ dram = <<>> /\ flash = <<>> /\ globalLru = <<>> /\ allObjects = [k \in {} |-> 0]
  /\ dramSize = 0 /\ flashSize = 0

BlockOf(k) == CHOOSE b \in DOMAIN flash : k \in ToSet(flash[b].items)

(* dramAdd(p, tmp): with one credit more the object moves towards the end  *)
(* of dram, or stays; the credits themselves are left out.                 *)
DramAdd(k) ==
  LET place == CHOOSE i \in DOMAIN dram : dram[i] = k
  IN {InsertAt(Drop(dram, k), i, k) : i \in place .. Len(dram)}

(* dramAddFirst: the object takes its place after 30% of the others (P_FC) *)
DramAddFirst(q, k) == InsertAt(q, (3 * Len(q) + 9) \div 10 + 1, k)

(* A hit needs the size, too.  The first form is the mutation without it.  *)
HasKey(r) == r.kid \in DOMAIN allObjects
IsHit(r) == r.kid \in DOMAIN allObjects /\ allObjects[r.kid].size = r.size

(* A hit on a ghost brings it back to life where it lies, and other        *)
(* objects may have to go for that.                                        *)
Hit(r) ==
  /\ IsHit(r)
  /\ globalLru' = <<r.kid>> \o Drop(globalLru, r.kid)
  /\ outcome' = Outcome(r, "hit")
  /\ \/ /\ allObjects[r.kid].isInDram
        /\ dram' \in DramAdd(r.kid)
        /\ UNCHANGED <<pc, flashVars, allObjects>>
     \/ /\ allObjects[r.kid].isGhost
        /\ pc' = "revive"
        /\ allObjects' = [allObjects EXCEPT ![r.kid].isGhost = FALSE]
        /\ flash' = [flash EXCEPT ![BlockOf(r.kid)].size = @ + r.size]
        /\ flashSize' = flashSize + r.size
        /\ UNCHANGED dram
     \/ /\ ~ allObjects[r.kid].isInDram /\ ~ allObjects[r.kid].isGhost
        /\ UNCHANGED <<pc, dram, flashVars, allObjects>>
  /\ UNCHANGED <<newItem, resume, dramSize>>

(* evict_item on an object of DRAM. *)
EvictFromDram(k) ==
  /\ globalLru' = Drop(globalLru, k)
  /\ dram' = Drop(dram, k) /\ dramSize' = dramSize - allObjects[k].size
  /\ allObjects' = Without(allObjects, {k})
  /\ UNCHANGED flashVars

(* In ram_shield itself a block that falls below the threshold is evicted  *)
(* at once, which first asserts that DRAM is within its bounds.            *)
BlockFallsShort(b, size) ==
  Variant = "ram_shield" /\ 100 * (flash[b].size - size) < threshold * stat_block_size

AfterLoss(b, size, next) ==
  IF BlockFallsShort(b, size)
  THEN IF dramSize =< DRAM_SIZE
       THEN pc' = "evict_block" /\ resume' = [block |-> b, next |-> next]
       ELSE pc' = "aborted" /\ resume' = resume
  ELSE pc' = next /\ resume' = resume

(* evict_item on an object of flash: it becomes a ghost of its block.      *)
LoseBytes(k) ==
  /\ globalLru' = Drop(globalLru, k)
  /\ flash' = [flash EXCEPT ![BlockOf(k)].size = @ - allObjects[k].size]
  /\ flashSize' = flashSize - allObjects[k].size

EvictItem(k, next) ==
  \/ /\ allObjects[k].isInDram
     /\ EvictFromDram(k)
     /\ pc' = next /\ UNCHANGED resume
  \/ /\ ~ allObjects[k].isInDram
     /\ LoseBytes(k)
     /\ allObjects' = [allObjects EXCEPT ![k].isGhost = TRUE]
     /\ AfterLoss(BlockOf(k), allObjects[k].size, next)
     /\ UNCHANGED dramVars

(* The request's key is cached with another size: that object leaves.  For *)
(* one of DRAM, proc then reads isInDram of the object that evict_item has *)
(* erased.                                                                 *)
Replace(k) ==
  LET b == BlockOf(k)
      items == Drop(flash[b].items, k)
  IN \/ /\ allObjects[k].isInDram
        /\ EvictFromDram(k)
        /\ pc' \in {"insert", "undefined"} /\ UNCHANGED resume
     \/ /\ allObjects[k].isGhost
        /\ flash' = [flash EXCEPT ![b].items = items]
        /\ allObjects' = Without(allObjects, {k})
        /\ pc' = "insert" /\ UNCHANGED <<resume, globalLru, dramVars, flashSize>>
     \/ /\ ~ allObjects[k].isInDram /\ ~ allObjects[k].isGhost
        /\ flash' = [flash EXCEPT ![b] = [size |-> @.size - allObjects[k].size, items |-> items]]
        /\ flashSize' = flashSize - allObjects[k].size
        /\ globalLru' = Drop(globalLru, k)
        /\ allObjects' = Without(allObjects, {k})
        /\ AfterLoss(b, allObjects[k].size, "insert")
        /\ UNCHANGED dramVars

Miss(r) ==
  /\ ~ IsHit(r)
  /\ newItem' = [kid |-> r.kid, size |-> r.size]
  /\ IF r.kid \in DOMAIN allObjects THEN Replace(r.kid)
     ELSE pc' = "insert" /\ UNCHANGED <<resume, tierVars>>
  /\ UNCHANGED outcome

Proc(r) == pc = "ready" /\ (Hit(r) \/ Miss(r))

(* The loop after a ghost came back to life. *)
Revive ==
  /\ pc = "revive"
  /\ IF OverLimit(Total) THEN EvictItem(Last(globalLru), "revive")
     ELSE pc' = "ready" /\ UNCHANGED <<resume, tierVars>>
  /\ UNCHANGED <<newItem, outcome>>

(* The first form is the mutation with < for <=.                           *)
HasMoreRoom == newItem.size + dramSize < DRAM_SIZE /\ ~ OverLimit(Total + newItem.size)
HasRoom == newItem.size + dramSize =< DRAM_SIZE /\ ~ OverLimit(Total + newItem.size)

(* "We always insert new requests to the DRAM." *)
Insert ==
  /\ pc = "insert" /\ HasRoom
  /\ pc' = "ready" /\ newItem' = NoItem
  /\ dram' = DramAddFirst(dram, newItem.kid) /\ dramSize' = dramSize + newItem.size
  /\ globalLru' = <<newItem.kid>> \o globalLru
  /\ allObjects' = Bind(allObjects, newItem.kid,
                        [size |-> newItem.size, isInDram |-> TRUE, isGhost |-> FALSE])
  /\ outcome' = Outcome(newItem, "miss")
  /\ UNCHANGED <<resume, flashVars>>

MakesRoom == pc = "insert" /\ ~ HasRoom /\ UNCHANGED <<newItem, outcome>>
(* The first form is the mutation that leaves the new object out.          *)
IsOver == OverLimit(Total)
MustEvict == OverLimit(Total + newItem.size)

(* DRAM and flash together hold too much: the least recently used object   *)
(* of either leaves.                                                       *)
EvictGlobalLru ==
  /\ MakesRoom /\ MustEvict
  /\ EvictItem(Last(globalLru), "insert")

(* evict_block: the ghosts are gone, the others return to DRAM.  The size  *)
(* of the block is read after the block was erased, which leads to next or *)
(* is beyond what the language defines.                                    *)
EvictBlock(b, next) ==
  LET items  == flash[b].items
      ghosts == {k \in ToSet(items) : allObjects[k].isGhost}
      alive  == SelectSeq(items, LAMBDA k : k \notin ghosts)
  IN /\ dram' = FoldLeft(DramAddFirst, dram, alive)
     /\ dramSize' = dramSize + Bytes(ToSet(alive))
     /\ flash' = RemoveAt(flash, b) /\ flashSize' = flashSize - flash[b].size
     /\ allObjects' = [k \in DOMAIN allObjects \ ghosts |->
                         IF k \in ToSet(alive) THEN [allObjects[k] EXCEPT !.isInDram = TRUE]
                         ELSE allObjects[k]]
     /\ pc' \in {next, "undefined"}
     /\ UNCHANGED globalLru

EvictShortBlock ==
  /\ pc = "evict_block"
  /\ EvictBlock(resume.block, "allocate")
  /\ UNCHANGED <<newItem, resume, outcome>>

(* The block that the other two give up once all of flash is in use: the   *)
(* oldest one, or the one with the least bytes alive.                      *)
Victim ==
  IF Variant = "fifo" THEN Len(flash)
  ELSE CHOOSE b \in DOMAIN flash :
         \A c \in DOMAIN flash :
           flash[b].size < flash[c].size \/ (flash[b].size = flash[c].size /\ b =< c)

EvictVictim ==
  /\ MakesRoom /\ ~ MustEvict
  /\ Len(flash) = maxBlocks /\ Variant \in {"fifo", "sel"}
  /\ EvictBlock(Victim, "insert")
  /\ UNCHANGED resume

(* allocate_flash_block passes over dram from its end, never taking the    *)
(* first, and takes what still fits into the block.                        *)
Fill ==
  FoldLeft(LAMBDA b, k :
             IF b.size + allObjects[k].size > stat_block_size THEN b
             ELSE [size |-> b.size + allObjects[k].size, items |-> <<k>> \o b.items],
           [size |-> 0, items |-> <<>>],
           IF dram = <<>> THEN <<>> ELSE Reverse(Tail(dram)))

(* It asserts that flash is within bounds; the loop of the other two also  *)
(* that DRAM is, after a block was taken back.                             *)
AllocateBlock(next) ==
  LET moved == ToSet(Fill.items)
  IN /\ dram' = SelectSeq(dram, LAMBDA k : k \notin moved)
     /\ dramSize' = dramSize - Fill.size
     /\ flash' = <<Fill>> \o flash /\ flashSize' = flashSize + Fill.size
     /\ allObjects' = [k \in DOMAIN allObjects |->
                         IF k \in moved THEN [allObjects[k] EXCEPT !.isInDram = FALSE]
                         ELSE allObjects[k]]
     /\ pc' = IF /\ Len(flash') =< maxBlocks /\ flashSize' =< FLASH_SIZE
                 /\ Variant = "ram_shield" \/ dramSize' =< DRAM_SIZE
              THEN next ELSE "aborted"
     /\ UNCHANGED globalLru

Allocate ==
  \/ /\ MakesRoom /\ ~ MustEvict
     /\ Len(flash) < maxBlocks
     /\ AllocateBlock("insert") /\ UNCHANGED resume
  \/ /\ pc = "allocate"
     /\ AllocateBlock(resume.next) /\ resume' = NoResume
     /\ UNCHANGED <<newItem, outcome>>

(* ram_shield has no block left, and none that fell below the threshold.   *)
Abort ==
  /\ MakesRoom /\ ~ MustEvict
  /\ Len(flash) = maxBlocks /\ Variant = "ram_shield"
  /\ pc' = "aborted"
  /\ UNCHANGED <<resume, tierVars>>

Proceed ==
  \/ Revive \/ Insert \/ EvictGlobalLru \/ EvictShortBlock \/ EvictVictim
  \/ Allocate \/ Abort
Next == (\E r \in Requests : Proc(r)) \/ Proceed

(* proc runs to its end; nothing makes the trace go on. *)
Spec == Init /\ [][Next]_vars /\ WF_vars(Proceed)

-------------------------------------------------------------------------------
TypeOK ==
  /\ pc \in {"ready", "revive", "insert", "evict_block", "allocate", "aborted", "undefined"}
  /\ newItem \in Requests \union {NoItem}
  /\ dram \in Seq(Keys) /\ globalLru \in Seq(Keys)
  /\ \A b \in DOMAIN flash : flash[b].size \in Nat /\ flash[b].items \in Seq(Keys)
  /\ DOMAIN allObjects \subseteq Keys
  /\ \A k \in DOMAIN allObjects :
       allObjects[k] \in [size : Sizes, isInDram : BOOLEAN, isGhost : BOOLEAN]
  /\ dramSize \in Nat /\ flashSize \in Nat

InDram == {k \in DOMAIN allObjects : allObjects[k].isInDram}
Ghosts == {k \in DOMAIN allObjects : allObjects[k].isGhost}
IsListOf(q, S) == ToSet(q) = S /\ Len(q) = Cardinality(S)

(* An object is in dram or in exactly one block; a ghost is in no LRU list *)
(* and its bytes count nowhere, all others count once; and between two     *)
(* requests DRAM and flash together hold no more than their limit.         *)
Consistent ==
  /\ IsListOf(dram, InDram) /\ dramSize = Bytes(InDram)
  /\ Ghosts \intersect InDram = {}
  /\ IsListOf(globalLru, DOMAIN allObjects \ Ghosts)
  /\ IsListOf(FoldLeft(LAMBDA q, b : q \o b.items, <<>>, flash), DOMAIN allObjects \ InDram)
  /\ \A b \in DOMAIN flash : flash[b].size = Bytes(ToSet(flash[b].items) \ Ghosts)
  /\ flashSize = FoldLeft(LAMBDA sum, b : sum + b.size, 0, flash)
  /\ pc = "ready" => ~ OverLimit(Total)

(* No assertion fails as long as every block holds the threshold.          *)
AbortsOnlyShort ==
  pc = "aborted" => \E b \in DOMAIN flash : 100 * flash[b].size < threshold * stat_block_size

(* "We always insert new requests to the DRAM": no request ends in the     *)
(* assertion at the end of the loop instead.                               *)
AlwaysInserted == pc # "aborted"

(* What the replay loop sees: ghosts are hits, for they are still there.   *)
Contents == [k \in DOMAIN allObjects |-> allObjects[k].size]
===============================================================================
