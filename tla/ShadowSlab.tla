------------------------------ MODULE ShadowSlab ------------------------------
(***************************************************************************)
(* The hit rates of slab allocators of every size in one pass,             *)
(* src/src/shadowslab.{h,cpp}: one shadow queue for each slab class.       *)
(* Whenever a class has grown beyond the slabs it was given it is given    *)
(* the next one; a hit counts at the place its slab has among all slabs.   *)
(***************************************************************************)
EXTENDS Mc, ShadowQueue

CONSTANT SLABSIZE

VARIABLES
  pc,            \* "ready", or "aborted" by an exception
  slabs,         \* class -> the queue of its shadowlru
  slabBytes,     \* class -> the bytes_cached of its shadowlru
  slabids,       \* class -> its slabs, in the order it was given them
  slab_for_key,  \* the class an object was last put into, where it is known
  next_slabid,
  curve          \* what the last call of proc has added to size_curve

vars == <<pc, slabs, slabBytes, slabids, slab_for_key, next_slabid, curve>>

SlabsAssumption == ClassesAssumption /\ ClassesAreTight /\ SLABSIZE \in Nat \ {0}

Init ==
  /\ pc = "ready"
  /\ slabs = [c \in Classes |-> <<>>] /\ slabBytes = [c \in Classes |-> 0]
  /\ slabids = [c \in Classes |-> <<>>] /\ next_slabid = 0
  /\ slab_for_key = [k \in {} |-> 0]
  /\ curve = [entry |-> "none"]

(* proc: no class has room. *)
TooLarge(r) ==
  /\ SlabClass(r.size) = {}
  /\ curve' = [entry |-> "miss"]
  /\ UNCHANGED <<pc, slabs, slabBytes, slabids, slab_for_key, next_slabid>>

(* The classes the key is taken from: the one it is known to be in, when   *)
(* it is another, and where remove finds it (see ShadowLru!RemoveKey).     *)
Known(k) == {slab_for_key[j] : j \in DOMAIN slab_for_key \cap {k}}
Leaves(k, c) == {d \in Known(k) \ {c} : PlaceOf(slabs[d], k) \in 2 .. Len(slabs[d])}

(* The slabs class c is given so that it has one more than bytes fill. *)
NewIds(c, bytes) ==
  [i \in 1 .. Max({0, bytes \div SLABSIZE + 1 - Len(slabids[c])}) |-> next_slabid + i - 1]

(* The call of the class with the object rounded up, and what becomes of   *)
(* the distance it returns: an object that comes first is a miss, and is   *)
(* not noted down.                                                         *)
Ask(r, c) ==
  LET distance == SizeDistance(slabs[c], r.kid)
      bytes    == slabBytes[c] - BytesOf(slabs[c], r.kid) + ClassSize(c)
      ids      == slabids[c] \o NewIds(c, bytes)
      index    == distance \div SLABSIZE + 1
      others   == [k \in DOMAIN slab_for_key \ (IF Known(r.kid) \subseteq {c} THEN {} ELSE {r.kid})
                     |-> slab_for_key[k]]
  IN /\ slabs' = [d \in Classes |->
           CASE d = c -> <<[kid |-> r.kid, size |-> ClassSize(c)]>> \o Drop(slabs[c], r.kid)
             [] d \in Leaves(r.kid, c) -> Drop(slabs[d], r.kid)
             [] OTHER -> slabs[d]]
     /\ slabBytes' = [d \in Classes |->
           CASE d = c -> bytes
             [] d \in Leaves(r.kid, c) -> slabBytes[d] - BytesOf(slabs[d], r.kid)
             [] OTHER -> slabBytes[d]]
     /\ IF distance = PROC_MISS
        THEN /\ slab_for_key' = others
             /\ curve' = [entry |-> "miss"]
             /\ UNCHANGED <<pc, slabids, next_slabid>>
        ELSE /\ slab_for_key' = [k \in DOMAIN others \union {r.kid} |->
                                   IF k = r.kid THEN c ELSE others[k]]
             /\ slabids' = [slabids EXCEPT ![c] = ids]
             /\ next_slabid' = next_slabid + Len(NewIds(c, bytes))
             /\ IF index \in DOMAIN ids
                THEN /\ curve' = [entry |-> "hit",
                                  at |-> (ids[index] * SLABSIZE) + (distance % SLABSIZE)]
                     /\ UNCHANGED pc
                ELSE pc' = "aborted" /\ UNCHANGED curve

Proc(r) ==
  /\ pc = "ready"
  /\ TooLarge(r) \/ \E c \in SlabClass(r.size) : Ask(r, c)

Next == \E r \in Requests : Proc(r)
Spec == Init /\ [][Next]_vars

-------------------------------------------------------------------------------
TypeOK ==
  /\ pc \in {"ready", "aborted"} /\ next_slabid \in Nat
  /\ \A c \in Classes : slabids[c] \in Seq(Nat) /\ slabBytes[c] \in Nat
  /\ \A k \in DOMAIN slab_for_key : k \in Keys /\ slab_for_key[k] \in Classes

(* Every class has what it is noted to have, each object once and in the   *)
(* size of the class, and its bytes are counted right, although objects    *)
(* are left behind in classes they were moved out of.  The slabs that were *)
(* given out are numbered without a gap and each has one owner, so that    *)
(* get_next_slab finds it.  No distance leads out of the slabs of the      *)
(* class (no `at` throws): a hit counts in a slab that was given out.      *)
Consistent ==
  /\ \A c \in Classes :
       /\ \A i \in DOMAIN slabs[c] : slabs[c][i].size = ClassSize(c)
       /\ Cardinality(KeysOf(slabs[c])) = Len(slabs[c])
       /\ slabBytes[c] = SizeOf(slabs[c])
       /\ Len(slabs[c]) > 1 => Len(slabids[c]) > slabBytes[c] \div SLABSIZE
  /\ \A k \in DOMAIN slab_for_key : k \in KeysOf(slabs[slab_for_key[k]])
  /\ \A n \in 0 .. next_slabid - 1 :
       \E c \in Classes : n \in ToSet(slabids[c])
          /\ \A d \in Classes : n \in ToSet(slabids[d]) => d = c
  /\ next_slabid = MapThenSumSet(LAMBDA c : Len(slabids[c]), Classes)
  /\ pc # "aborted"
  /\ curve.entry = "hit" => curve.at < next_slabid * SLABSIZE
===============================================================================
