-------------------------------- MODULE Ripq --------------------------------
(***************************************************************************)
(* The flash cache of src/src/ripq.{h,cpp}.  Flash is cut into sections of *)
(* blocks, the most important section first.  Objects are written to       *)
(* physical blocks and never moved in place: a hit lets an object count    *)
(* for a virtual block further ahead, and when its physical block is       *)
(* evicted it is written again to wherever its virtual block is by then.   *)
(*                                                                         *)
(* add and evict call each other; `stack' holds the calls that are under   *)
(* way, the innermost first, and each round of their loops is a step.      *)
(*                                                                         *)
(* An object that was replaced stays in its block as a ghost, and a block  *)
(* may outlive all that it counts for.  evict skips the one and frees the  *)
(* other, and nothing else looks at them: both are left out here.          *)
(***************************************************************************)
EXTENDS Integers, FiniteSetsExt, SequencesExt

CONSTANTS
  Keys,          \* request::kid
  Sizes,         \* request::size()
  num_sections,
  section_size,  \* flash_size / num_sections
  block_size     \* stat.block_size

(* The constructor asserts all but the last: with larger objects add       *)
(* aborts as soon as they do not fit.                                      *)
SectionsAssumption ==
  /\ num_sections \in Nat \ {0} /\ section_size \in Nat \ {0} /\ block_size \in Nat \ {0}
  /\ Sizes \subseteq 1 .. block_size

VARIABLES
  pc,            \* "ready", "busy", and the ends "aborted" (an assertion failed)
                 \* and "undefined"
  newItem,       \* the request that missed
  stack,         \* the calls of add, add_virtual and evict under way
  sections,      \* each with its sealed blocks, newest first, its two active
                 \* blocks, and the bytes counted for its sealed blocks
  map,           \* kid -> the size it is cached with
  bytes_cached,  \* stat.bytes_cached
  outcome        \* the last completed request and what became of it

flashVars == <<sections, map, bytes_cached>>
vars == <<pc, newItem, stack, flashVars, outcome>>

Requests == [kid : Keys, size : Sizes]
NoItem   == [kid |-> "none", size |-> 0]
Sections == 0 .. num_sections - 1
Bottom   == num_sections - 1

Outcome(r, result) == [kid |-> r.kid, size |-> r.size, result |-> result]
Without(f, S)  == [x \in DOMAIN f \ S |-> f[x]]
Bind(f, k, v)  == [x \in DOMAIN f \union {k} |-> IF x = k THEN v ELSE f[x]]

(* A physical block has items; refs are the keys whose virtual_block is    *)
(* this block.                                                             *)
NewBlock(is_virtual) ==
  [is_virtual |-> is_virtual, filled |-> 0, num_items |-> 0, items |-> <<>>, refs |-> {}]
NewSection ==
  [blocks |-> <<>>, phy |-> NewBlock(FALSE), vir |-> NewBlock(TRUE), filled |-> 0]

Call(op, item, section) ==
  [op |-> op, items |-> <<item>>, section |-> section, draining |-> FALSE, fresh |-> FALSE]
FreshCall(item) == [Call("add", item, Bottom) EXCEPT !.fresh = TRUE]
EvictCall(items) ==
  [op |-> "evict", items |-> items, section |-> Bottom, draining |-> FALSE, fresh |-> FALSE]

Init ==
  /\ pc = "ready" /\ newItem = NoItem /\ stack = <<>> /\ outcome = [result |-> "none"]
  /\ sections = [s \in Sections |-> NewSection]
  /\ map = [k \in {} |-> 0] /\ bytes_cached = 0

-------------------------------------------------------------------------------
Holds(b, k) == \E i \in DOMAIN b.items : b.items[i].kid = k
BlocksOf(s) == ToSet(sections[s].blocks) \union {sections[s].phy, sections[s].vir}
IsPromoted(k) == \E s \in Sections : \E b \in BlocksOf(s) : k \in b.refs
IsActive(k) == \E s \in Sections : Holds(sections[s].phy, k)

(* virtual_block->s->id: an object that was never promoted counts for its  *)
(* physical block.                                                         *)
SectionOf(k) ==
  CHOOSE s \in Sections : \E b \in BlocksOf(s) :
    IF IsPromoted(k) THEN k \in b.refs ELSE Holds(b, k)

(* The sections with Change applied to every block, and what is not needed *)
(* any more left out.                                                      *)
ForBlocks(secs, Change(_)) ==
  [s \in Sections |->
     [secs[s] EXCEPT
        !.blocks = SelectSeq([i \in DOMAIN @ |-> Change(@[i])],
                             LAMBDA b : b.items # <<>> \/ b.refs # {}),
        !.phy = Change(@), !.vir = Change(@)]]

(* block::remove on the virtual_block of the object: its bytes no longer   *)
(* count there, nor in the section if the block is sealed.                 *)
RemoveFrom(secs, k, size) ==
  LET Counts(b) == IF IsPromoted(k) THEN k \in b.refs ELSE Holds(b, k)
      Less(b) == IF Counts(b) THEN [b EXCEPT !.filled = @ - size, !.num_items = @ - 1] ELSE b
      less == ForBlocks(secs, Less)
  IN [s \in Sections |->
        [less[s] EXCEPT
           !.filled = IF \E b \in ToSet(secs[s].blocks) : Counts(b) THEN @ - size ELSE @]]

(* The object's virtual_block is another one from now on.                  *)
Unref(secs, k) == ForBlocks(secs, LAMBDA b : [b EXCEPT !.refs = @ \ {k}])
(* The object is no longer in its physical block.                          *)
Unlist(secs, k) == ForBlocks(secs, LAMBDA b : [b EXCEPT !.items = SelectSeq(@, LAMBDA x : x.kid # k)])

(* balance(start): sections that hold too much hand their oldest blocks on *)
(* to the next one.                                                        *)
BytesIn(bs) == FoldLeft(LAMBDA sum, b : sum + b.filled, 0, bs)
PushBlocks(secs, s, n) ==
  LET bs == secs[s].blocks
      moved == SubSeq(bs, n + 1, Len(bs))
  IN [secs EXCEPT ![s].blocks = SubSeq(bs, 1, n), ![s].filled = @ - BytesIn(moved),
                  ![s + 1].blocks = moved \o @, ![s + 1].filled = @ + BytesIn(moved)]
Push(secs, s) ==
  LET bs == secs[s].blocks
      Fits(n) == secs[s].filled - BytesIn(SubSeq(bs, n + 1, Len(bs))) =< section_size
  IN PushBlocks(secs, s, Max({n \in 0 .. Len(bs) : Fits(n)}))
Balance(secs, start) ==
  FoldLeft(Push, secs, [i \in 1 .. num_sections - 1 - start |-> start + i - 1])

(* seal_phy_block, seal_vir_block: the active block becomes the newest of  *)
(* its section, and its bytes count there.  The first form is the mutation *)
(* that makes it the oldest.                                               *)
SealAtBack(secs, s) ==
  LET b == secs[s].vir
  IN [secs EXCEPT ![s].vir = NewBlock(TRUE), ![s].filled = @ + b.filled,
                  ![s].blocks = IF b.refs = {} THEN @ ELSE @ \o <<b>>]
SealVir(secs, s) ==
  LET b == secs[s].vir
  IN [secs EXCEPT ![s].vir = NewBlock(TRUE), ![s].filled = @ + b.filled,
                  ![s].blocks = IF b.refs = {} THEN @ ELSE <<b>> \o @]
SealPhy(secs, s) ==
  LET b == secs[s].phy
  IN [secs EXCEPT ![s].phy = NewBlock(FALSE), ![s].filled = @ + b.filled,
                  ![s].blocks = <<b>> \o @]

-------------------------------------------------------------------------------
IsHit(r) == r.kid \in DOMAIN map /\ map[r.kid] = r.size

(* A hit moves the object one section ahead: one that is still in its      *)
(* active block is added there anew, any other counts for the active       *)
(* virtual block there.                                                    *)
Promote(k, size) ==
  LET ahead == Max({SectionOf(k) - 1, 0})
      removed == Unref(RemoveFrom(sections, k, size), k)
      item == [kid |-> k, size |-> size]
  IN IF IsActive(k)
     THEN /\ sections' = Unlist(removed, k)
          /\ map' = Without(map, {k})
          /\ stack' = <<Call("add", item, ahead)>>
     ELSE /\ sections' = [removed EXCEPT ![ahead].vir =
                            [@ EXCEPT !.filled = @ + size, !.num_items = @ + 1,
                                      !.refs = @ \union {k}]]
          /\ stack' = <<Call("add_virtual", item, ahead)>>
          /\ UNCHANGED map

Hit(r) ==
  /\ IsHit(r)
  /\ Promote(r.kid, r.size)
  /\ pc' = "busy" /\ outcome' = Outcome(r, "hit")
  /\ UNCHANGED <<newItem, bytes_cached>>

(* The key is cached with another size: that object becomes a ghost.  proc *)
(* asserts that it is not all that is cached.                              *)
Replace(k) ==
  /\ sections' = Unlist(Unref(RemoveFrom(sections, k, map[k]), k), k)
  /\ map' = Without(map, {k})

Miss(r) ==
  /\ ~ IsHit(r)
  /\ IF r.kid \notin DOMAIN map
     THEN /\ pc' = "busy" /\ bytes_cached' = bytes_cached + r.size
          /\ UNCHANGED <<sections, map>>
     ELSE IF bytes_cached > map[r.kid]
     THEN /\ pc' = "busy" /\ bytes_cached' = bytes_cached - map[r.kid] + r.size
          /\ Replace(r.kid)
     ELSE pc' = "aborted" /\ UNCHANGED flashVars
  /\ newItem' = [kid |-> r.kid, size |-> r.size]
  /\ stack' = <<FreshCall(newItem')>>
  /\ UNCHANGED outcome

Proc(r) == pc = "ready" /\ (Hit(r) \/ Miss(r))

-------------------------------------------------------------------------------
Top == Head(stack)
Item == Last(Top.items)
Running(op) == pc = "busy" /\ Top.op = op /\ ~ Top.draining
Return ==
  /\ stack' = Tail(stack)
  /\ pc' = IF Tail(stack) = <<>> THEN "ready" ELSE "busy"

(* section::add asserts what add has made sure of, but reads the block     *)
(* size through a reference to the constructor's argument, which is gone.  *)
Fits == sections[Top.section].phy.filled + Item.size =< block_size
DanglingStat ==
  /\ Running("add") /\ Fits
  /\ pc' = "undefined"
  /\ UNCHANGED <<newItem, stack, flashVars, outcome>>

(* The object is written to the active physical block.                     *)
AddItem ==
  /\ Running("add") /\ Fits
  /\ sections' = [sections EXCEPT ![Top.section].phy =
                    [@ EXCEPT !.filled = @ + Item.size, !.num_items = @ + 1,
                              !.items = <<Item>> \o @]]
  /\ map' = Bind(map, Item.kid, Item.size)
  /\ IF Top.fresh THEN newItem' = NoItem /\ outcome' = Outcome(newItem, "miss")
     ELSE UNCHANGED <<newItem, outcome>>
  /\ Return
  /\ UNCHANGED bytes_cached

(* The active block is full: it is sealed, and what the section holds too  *)
(* much goes down.  "First make enough space in the target active physical *)
(* block", but "first add the item to the virtual active block".           *)
Seal(sealed) ==
  /\ IF Item.size < block_size
     THEN /\ sections' = Balance(sealed, Top.section)
          /\ stack' = <<[Top EXCEPT !.draining = TRUE]>> \o Tail(stack)
          /\ UNCHANGED pc
     ELSE pc' = "aborted" /\ UNCHANGED <<sections, stack>>
  /\ UNCHANGED <<newItem, map, bytes_cached, outcome>>

SealPhysical ==
  /\ Running("add") /\ ~ Fits
  /\ Seal(SealVir(SealPhy(sections, Top.section), Top.section))

SealVirtual ==
  /\ Running("add_virtual") /\ sections[Top.section].vir.filled > block_size
  /\ Seal(SealVir(sections, Top.section))

VirtualFits ==
  /\ Running("add_virtual") /\ sections[Top.section].vir.filled =< block_size
  /\ Return
  /\ UNCHANGED <<newItem, flashVars, outcome>>

(* evict takes the oldest block out of the last section.  Its promoted     *)
(* objects no longer count for their virtual blocks from here on, even if  *)
(* it takes nested evictions until they are written there.  A virtual      *)
(* block must not count for any object by then.                            *)
TooMuch == sections[Bottom].filled > section_size
Oldest == Last(sections[Bottom].blocks)
EvictAssertions == (Oldest.is_virtual => Oldest.num_items = 0) /\ bytes_cached > Oldest.filled
WithoutOldest ==
  [sections EXCEPT ![Bottom].blocks = Front(@), ![Bottom].filled = @ - Oldest.filled]
Detached ==
  FoldLeft(LAMBDA secs, x : IF IsPromoted(x.kid) THEN RemoveFrom(secs, x.kid, x.size) ELSE secs,
           WithoutOldest, Oldest.items)

InHand(x) == [kid |-> x.kid, size |-> x.size, promoted |-> IsPromoted(x.kid)]

EvictBlock(cached) ==
  /\ IF EvictAssertions
     THEN /\ sections' = Detached
          /\ stack' = <<EvictCall([i \in DOMAIN Oldest.items |-> InHand(Oldest.items[i])])>> \o stack
          /\ bytes_cached' = cached
          /\ UNCHANGED pc
     ELSE pc' = "aborted" /\ UNCHANGED <<sections, stack, bytes_cached>>
  /\ UNCHANGED <<newItem, map, outcome>>

Drain(cached) ==
  /\ pc = "busy" /\ Top.draining
  /\ IF TooMuch THEN EvictBlock(cached)
     ELSE /\ stack' = <<[Top EXCEPT !.draining = FALSE]>> \o Tail(stack)
          /\ UNCHANGED <<pc, newItem, flashVars, outcome>>

(* One object of the evicted block, the oldest first: it is gone, or is    *)
(* added to the section its virtual block is in; that block may have been  *)
(* evicted itself, from the last section.                                  *)
EvictNext(promoted) ==
  /\ Running("evict") /\ Top.items # <<>> /\ Item.promoted = promoted
  /\ map' = Without(map, {Item.kid})
  /\ UNCHANGED <<pc, newItem, outcome>>
Popped == <<[Top EXCEPT !.items = Front(@)]>> \o Tail(stack)

Target(k) == IF IsPromoted(k) THEN SectionOf(k) ELSE Bottom
Rewrite ==
  /\ EvictNext(TRUE)
  /\ sections' = Unref(sections, Item.kid)
  /\ stack' = <<Call("add", [kid |-> Item.kid, size |-> Item.size], Target(Item.kid))>> \o Popped
  /\ UNCHANGED bytes_cached

EvictItem ==
  /\ EvictNext(FALSE)
  /\ stack' = Popped
  /\ UNCHANGED <<sections, bytes_cached>>

EvictDone ==
  /\ Running("evict") /\ Top.items = <<>>
  /\ sections' = Balance(sections, 0)
  /\ Return
  /\ UNCHANGED <<newItem, map, bytes_cached, outcome>>

(* What ripq_shield inherits, and the rest of ripq.                        *)
ProceedBase ==
  \/ DanglingStat \/ AddItem \/ SealPhysical \/ SealVirtual \/ VirtualFits
  \/ Rewrite \/ EvictDone
Proceed == ProceedBase \/ Drain(bytes_cached - Oldest.filled) \/ EvictItem
Next == (\E r \in Requests : Proc(r)) \/ Proceed

(* proc runs to its end; nothing makes the trace go on. *)
Spec == Init /\ [][Next]_vars /\ WF_vars(Proceed)

-------------------------------------------------------------------------------
Blocks == [is_virtual : BOOLEAN, filled : Nat, num_items : Nat, items : Seq(Requests),
           refs : SUBSET Keys]

(* No count of block::remove and section::evict_block becomes negative,    *)
(* which both assert.                                                      *)
TypeOK ==
  /\ pc \in {"ready", "busy", "aborted", "undefined"}
  /\ newItem \in Requests \union {NoItem}
  /\ \A s \in Sections : BlocksOf(s) \subseteq Blocks /\ sections[s].filled \in Nat
  /\ DOMAIN map \subseteq Keys /\ \A k \in DOMAIN map : map[k] \in Sizes
  /\ bytes_cached \in Nat

KeysOf(items) == {items[i].kid : i \in DOMAIN items}
CallsOf(op) == {stack[i] : i \in {j \in DOMAIN stack : stack[j].op = op}}
(* The keys an eviction has in hand, and those an add is about to write.   *)
Held    == UNION {KeysOf(c.items) : c \in CallsOf("evict")}
Removed == UNION {{x.kid : x \in {y \in ToSet(c.items) : ~ y.promoted}} : c \in CallsOf("evict")}
Added   == UNION {ToSet(c.items) : c \in CallsOf("add")}

(* The places in the sections whose block has the object.                  *)
BlocksIn(s) == sections[s].blocks \o <<sections[s].phy, sections[s].vir>>
HoldersOf(k) ==
  UNION {{<<s, i>> : i \in {j \in DOMAIN BlocksIn(s) : Holds(BlocksIn(s)[j], k)}} : s \in Sections}

Counted(b) == IF b.is_virtual THEN b.refs \ Held ELSE {k \in KeysOf(b.items) : ~ IsPromoted(k)}
SumOf(S, Size(_)) == MapThenSumSet(Size, S)

(* However deep evictions and writes are nested: every object of the map   *)
(* is in exactly one physical block or in the hands of one eviction; a     *)
(* block counts the objects that count for it and no others, a section its *)
(* sealed blocks, and bytes_cached what is cached or about to be; and no   *)
(* section holds too much between two requests.                            *)
ConsistentFlash ==
  /\ \A k \in DOMAIN map \ Held : Cardinality(HoldersOf(k)) = 1
  /\ \A s \in Sections :
       /\ \A b \in BlocksOf(s) :
            /\ ToSet(b.items) \subseteq [kid : DOMAIN map \ Held, size : Sizes]
            /\ \A i \in DOMAIN b.items : b.items[i].size = map[b.items[i].kid]
            /\ Len(b.items) = Cardinality(KeysOf(b.items))
            /\ b.filled = SumOf(Counted(b), LAMBDA k : map[k])
            /\ b.num_items = Cardinality(Counted(b))
       /\ sections[s].filled = BytesIn(sections[s].blocks)
       /\ sections[s].phy.filled =< block_size
       /\ pc = "ready" => sections[s].filled =< section_size

Consistent ==
  /\ ConsistentFlash
  /\ pc # "aborted" =>
       bytes_cached = SumOf(DOMAIN map \ Removed, LAMBDA k : map[k])
                        + SumOf(Added, LAMBDA x : x.size)

(* Where the object's virtual block is: its section, and its place there.  *)
PlacesOf(s, Good(_)) ==
  {i \in DOMAIN sections[s].blocks : Good(sections[s].blocks[i])}
    \union (IF Good(sections[s].phy) \/ Good(sections[s].vir) THEN {0} ELSE {})

(* An object that was promoted counts for a virtual block that will be     *)
(* evicted after its physical block, so that the object is written again   *)
(* before that, and evict finds every virtual block empty.                 *)
VirtualAhead ==
  \A k \in DOMAIN map \ Held : IsPromoted(k) =>
    \A v, p \in Sections :
      \A i \in PlacesOf(v, LAMBDA b : k \in b.refs), j \in PlacesOf(p, LAMBDA b : Holds(b, k)) :
        v < p \/ (v = p /\ i < j)

(* Only a request that replaces all that is cached aborts.                 *)
AbortsOnlyLast ==
  pc = "aborted" => DOMAIN map = {newItem.kid} \/ \E s \in Sizes : s >= block_size

(* The objects an add or an eviction has in hand are cached as well, but   *)
(* not the one of a request that has not been served yet.                  *)
Moving == UNION {ToSet(c.items) : c \in {d \in CallsOf("add") : ~ d.fresh}}
Contents ==
  [k \in DOMAIN map \union {x.kid : x \in Moving} |->
     IF k \in DOMAIN map THEN map[k] ELSE (CHOOSE x \in Moving : x.kid = k).size]
===============================================================================
