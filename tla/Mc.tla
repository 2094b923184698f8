---------------------------------- MODULE Mc ----------------------------------
(***************************************************************************)
(* The slab classes an allocator rounds its objects up to: the table that  *)
(* memcached computes (src/src/mc.cpp), and the powers of two of           *)
(* memcachier (get_slab_class, src/src/shadowslab.cpp).  A class is its    *)
(* number, from zero.                                                      *)
(***************************************************************************)
EXTENDS Integers, FiniteSetsExt, SequencesExt

CONSTANTS
  memcachier_classes,  \* -M
  smallest_class,      \* sizeof(item) + chunk_size, or 64
  CHUNK_ALIGN_BYTES, item_size_max, MAX_NUMBER_OF_SLAB_CLASSES,
  FactorNum, FactorDen,  \* -g, as a fraction
  memcachier_count       \* slab_count with -M

ClassesAssumption ==
  /\ memcachier_classes \in BOOLEAN
  /\ {smallest_class, CHUNK_ALIGN_BYTES, item_size_max, MAX_NUMBER_OF_SLAB_CLASSES,
      FactorNum, FactorDen, memcachier_count} \subseteq Nat \ {0}
  /\ FactorNum > FactorDen

(* "Make sure items are always n-byte aligned". *)
Aligned(n) == n + ((- n) % CHUNK_ALIGN_BYTES)

(* slabs_init: the unaligned sizes its loop passes, from class 0 on.  A    *)
(* factor may be a fraction, the product is cut off.                       *)
unaligned(n) ==
  FoldLeft(LAMBDA size, i : (Aligned(size) * FactorNum) \div FactorDen,
           smallest_class, [i \in 1 .. n |-> i])

(* power_largest, the class of the largest objects, numbered from one.     *)
power_largest ==
  Min({i \in 1 .. MAX_NUMBER_OF_SLAB_CLASSES - 1 :
         \/ i = MAX_NUMBER_OF_SLAB_CLASSES - 1
         \/ unaligned(i - 1) * FactorNum > item_size_max * FactorDen})

(* slabs_clsid gives up when it comes to the largest class, which is then  *)
(* never used.                                                             *)
Classes   == 0 .. (IF memcachier_classes THEN memcachier_count ELSE power_largest - 1) - 1
ClassSize(c) ==
  IF memcachier_classes THEN smallest_class * 2 ^ c ELSE Aligned(unaligned(c))
HasRoom(c, size) ==
  IF memcachier_classes THEN size < ClassSize(c) ELSE size =< ClassSize(c)

(* get_slab_class: the first class that has room, if any. *)
SlabClass(size) ==
  {c \in Classes : HasRoom(c, size) /\ \A d \in Classes : HasRoom(d, size) => c =< d}

(* What slab allocators take for granted: classes grow, so that the first  *)
(* that has room wastes least, and have room for every object below the    *)
(* largest of them.                                                        *)
ClassesAreTight ==
  /\ \A c, d \in Classes : c < d => ClassSize(c) < ClassSize(d)
  /\ \A size \in 1 .. Max({ClassSize(c) : c \in Classes}) - 1 :
       \E c \in SlabClass(size) : \A d \in Classes : d < c => ClassSize(d) =< size
===============================================================================
