----------------------------- MODULE RipqShield -----------------------------
(***************************************************************************)
(* The flash cache of src/src/ripq_shield.{h,cpp}: a ripq behind sections  *)
(* of DRAM.  A new object enters the last section and moves one ahead with *)
(* each hit; a hit in the first writes it to flash, and what flash evicts  *)
(* returns to the first.  dram_add runs as one step: it calls nothing that *)
(* comes back to it.                                                       *)
(***************************************************************************)
EXTENDS Integers, FiniteSetsExt, SequencesExt

CONSTANTS
  Keys, Sizes, num_sections, section_size, block_size, \* as in Ripq
  num_dsections,
  dsection_size  \* dram_size / num_dsections

VARIABLES
  pc, newItem, stack, sections, map, bytes_cached, outcome, \* as in Ripq
  dsections      \* the sections of DRAM, each with its items, newest first,
                 \* and the bytes counted for them

Base == INSTANCE Ripq

(* The constructor asserts that DRAM has sections, dram_add that an object *)
(* is smaller than one.                                                    *)
SectionsAssumption ==
  /\ Base!SectionsAssumption
  /\ num_dsections \in Nat \ {0} /\ Sizes \subseteq 1 .. dsection_size - 1

vars == <<Base!vars, dsections>>

DSections == 0 .. num_dsections - 1
Lowest    == num_dsections - 1

Init == Base!Init /\ dsections = [d \in DSections |-> [items |-> <<>>, filled |-> 0]]

-------------------------------------------------------------------------------
BytesOf(items) == FoldLeft(LAMBDA sum, x : sum + x.size, 0, items)
InDram(k) == \E d \in DSections : Base!Holds(dsections[d], k)
DSectionOf(k) == CHOOSE d \in DSections : Base!Holds(dsections[d], k)
InDsection(d, k) == CHOOSE x \in ToSet(dsections[d].items) : x.kid = k

(* dram_section::add and ::remove *)
Enter(dsecs, d, items) ==
  [dsecs EXCEPT ![d] = [items |-> items \o @.items, filled |-> @.filled + BytesOf(items)]]
Leave(d, k) ==
  [dsections EXCEPT ![d] = [items |-> SelectSeq(@.items, LAMBDA x : x.kid # k),
                            filled |-> @.filled - InDsection(d, k).size]]

(* dram_section::evict, until the section is no longer overfull. *)
Stay(dsec) ==
  Max({n \in 0 .. Len(dsec.items) :
         dsec.filled - BytesOf(SubSeq(dsec.items, n + 1, Len(dsec.items))) =< dsection_size})
Evicted(dsec) == SubSeq(dsec.items, Stay(dsec) + 1, Len(dsec.items))
Cut(dsec) ==
  [items |-> SubSeq(dsec.items, 1, Stay(dsec)), filled |-> dsec.filled - BytesOf(Evicted(dsec))]

(* dbalance(start) *)
Pass(dsecs, d) == Enter([dsecs EXCEPT ![d] = Cut(@)], d + 1, Evicted(dsecs[d]))
Dbalance(dsecs, start) ==
  FoldLeft(Pass, dsecs, [i \in 1 .. Lowest - start |-> start + i - 1])

(* dram_add, with its loop of dram_evict; cached is stat.bytes_cached.     *)
DramAdd(dsecs, x, d, cached) ==
  LET balanced == Dbalance(Enter(dsecs, d, <<[kid |-> x.kid, size |-> x.size]>>), d)
  IN /\ dsections' = [balanced EXCEPT ![Lowest] = Cut(@)]
     /\ bytes_cached' = cached - BytesOf(Evicted(balanced[Lowest]))

-------------------------------------------------------------------------------
DramHit(r) ==
  LET d == DSectionOf(r.kid)
  IN /\ InDram(r.kid) /\ InDsection(d, r.kid).size = r.size
     /\ IF d = 0
        THEN /\ dsections' = Leave(d, r.kid)
             /\ stack' = <<Base!Call("add", [kid |-> r.kid, size |-> r.size], Base!Bottom)>>
             /\ pc' = "busy" /\ UNCHANGED bytes_cached
        ELSE /\ DramAdd(Leave(d, r.kid), r, d - 1, bytes_cached)
             /\ UNCHANGED <<pc, stack>>
     /\ outcome' = Base!Outcome(r, "hit")
     /\ UNCHANGED <<newItem, sections, map>>

FlashHit(r) == Base!Hit(r) /\ UNCHANGED dsections

(* An object of another size under this key leaves, one in flash as a      *)
(* ghost; proc asserts afterwards that it was not all that is cached.      *)
Miss(r) ==
  LET inDram == InDram(r.kid)
      known == inDram \/ r.kid \in DOMAIN map
      size == IF inDram THEN InDsection(DSectionOf(r.kid), r.kid).size ELSE map[r.kid]
      lost == IF known THEN size ELSE 0
      left == IF inDram THEN Leave(DSectionOf(r.kid), r.kid) ELSE dsections
  IN /\ known => size # r.size
     /\ IF known /\ bytes_cached =< lost
        THEN /\ pc' = "aborted" /\ newItem' = [kid |-> r.kid, size |-> r.size]
             /\ UNCHANGED <<dsections, sections, map, bytes_cached, outcome>>
        ELSE /\ IF known /\ ~ inDram THEN Base!Replace(r.kid) ELSE UNCHANGED <<sections, map>>
             /\ DramAdd(left, r, Lowest, bytes_cached - lost + r.size)
             /\ outcome' = Base!Outcome(r, "miss")
             /\ UNCHANGED <<pc, newItem>>
     /\ UNCHANGED stack

Proc(r) == pc = "ready" /\ (DramHit(r) \/ FlashHit(r) \/ Miss(r))

(* evict: what is not written to flash again goes to DRAM.                 *)
EvictToDram ==
  /\ Base!EvictNext(FALSE)
  /\ stack' = Base!Popped
  /\ DramAdd(dsections, Base!Item, 0, bytes_cached)
  /\ UNCHANGED sections

Proceed ==
  \/ (Base!ProceedBase \/ Base!Drain(bytes_cached)) /\ UNCHANGED dsections
  \/ EvictToDram
Next == (\E r \in Base!Requests : Proc(r)) \/ Proceed

(* proc runs to its end; nothing makes the trace go on. *)
Spec == Init /\ [][Next]_vars /\ WF_vars(Proceed)

-------------------------------------------------------------------------------
TypeOK ==
  /\ Base!TypeOK
  /\ \A d \in DSections : dsections[d] \in [items : Seq(Base!Requests), filled : Nat]

DramContents ==
  LET items == UNION {ToSet(dsections[d].items) : d \in DSections}
  IN [k \in {x.kid : x \in items} |-> (CHOOSE x \in items : x.kid = k).size]

(* The flash side is consistent as in ripq.  An object is in one place of  *)
(* DRAM or in flash, never in both, the sections of DRAM count what they   *)
(* hold and are within bounds even while flash evicts into them, and       *)
(* bytes_cached counts DRAM, flash and what is about to be written.        *)
Consistent ==
  /\ Base!ConsistentFlash
  /\ DOMAIN DramContents \intersect (DOMAIN map \union {x.kid : x \in Base!Added}) = {}
  /\ FoldLeft(LAMBDA n, d : n + Len(dsections[d - 1].items), 0, [d \in 1 .. num_dsections |-> d])
       = Cardinality(DOMAIN DramContents)
  /\ \A d \in DSections :
       dsections[d].filled = BytesOf(dsections[d].items) /\ dsections[d].filled =< dsection_size
  /\ bytes_cached = Base!SumOf(DOMAIN map, LAMBDA k : map[k])
                      + Base!SumOf(Base!Added, LAMBDA x : x.size)
                      + Base!SumOf(DOMAIN DramContents, LAMBDA k : DramContents[k])

(* Where a promoted object is written again, as in ripq. *)
VirtualAhead == Base!VirtualAhead

Contents ==
  [k \in DOMAIN Base!Contents \union DOMAIN DramContents |->
     IF k \in DOMAIN DramContents THEN DramContents[k] ELSE Base!Contents[k]]

(* Only a request that replaces all that is cached aborts. *)
AbortsOnlyLast ==
  pc = "aborted" => DOMAIN Contents = {newItem.kid} \/ \E s \in Sizes : s >= block_size
===============================================================================
