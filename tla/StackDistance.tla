---------------------------- MODULE StackDistance ----------------------------
(***************************************************************************)
(* The shadow queue of src/src/shadowlru.cpp next to two of the caches it  *)
(* predicts, a smaller and a larger LRU queue of src/src/lru.cpp: all three *)
(* are given the same trace.  Everything the simulator concludes from      *)
(* stack distances rests on how the three queues are related.              *)
(***************************************************************************)
EXTENDS Integers, FiniteSetsExt, SequencesExt, RequestLists

CONSTANTS
  Keys, Sizes, Wrap,
  SmallMem,  \* global_mem of the smaller LRU queue
  LargeMem   \* and of the larger one

ASSUME SmallIsSmaller == SmallMem \in Nat /\ LargeMem \in Nat /\ SmallMem =< LargeMem

VARIABLES
  menu,  \* the sizes of the objects of this trace: all of them, or one
  shadow, shadowBytes, curve, removed, seen,
  smallQ, smallMap, smallBytes, smallMem, smallOutcome,
  largeQ, largeMap, largeBytes, largeMem, largeOutcome

smallVars == <<smallQ, smallMap, smallBytes, smallMem, smallOutcome>>
largeVars == <<largeQ, largeMap, largeBytes, largeMem, largeOutcome>>
vars == <<menu, shadow, shadowBytes, curve, removed, seen, smallVars, largeVars>>

D == INSTANCE ShadowLru WITH queue <- shadow, bytes_cached <- shadowBytes
S == INSTANCE Lru WITH queue <- smallQ, map <- smallMap, outcome <- smallOutcome,
                       bytes_cached <- smallBytes, global_mem <- smallMem,
                       MemSizes <- {SmallMem}
L == INSTANCE Lru WITH queue <- largeQ, map <- largeMap, outcome <- largeOutcome,
                       bytes_cached <- largeBytes, global_mem <- largeMem,
                       MemSizes <- {LargeMem}

ASSUME QueueAssumptions == D!WrapAssumption /\ S!SizesAssumption /\ L!SizesAssumption

(* The loop of lsm-sim.cpp over the trace, once per queue. *)
Init ==
  /\ D!Init /\ S!Init /\ L!Init
  /\ menu \in {Sizes} \union {{s} : s \in Sizes}
Next ==
  /\ \E r \in {q \in D!Requests : q.size \in menu} : D!Proc(r) /\ S!Proc(r) /\ L!Proc(r)
  /\ UNCHANGED menu
Spec == Init /\ [][Next]_vars

-------------------------------------------------------------------------------
(* Inclusion: whatever the sizes of the objects, and even when some grow,  *)
(* shrink or fit into one queue only, the smaller queue is the newest end  *)
(* of the larger one, and that of the shadow queue, object by object.      *)
Inclusion == IsPrefix(smallQ, largeQ) /\ IsPrefix(largeQ, shadow)

(* The curve never promises too little: a cache that hits has been         *)
(* credited with the hit, for the distance of the last byte of the object  *)
(* is below the size of the cache.  And when all objects have one size it  *)
(* is exact for keys that were requested before: a distance below the size *)
(* of a cache is a hit of it.                                              *)
Credited(outcome, mem) ==
  outcome.result = "hit" => curve.entry = "hit" /\ curve.at < mem
Exact(outcome, mem) ==
  curve.entry = "hit" /\ curve.at < mem => outcome.result = "hit"
CurveIsRight ==
  [][/\ Credited(smallOutcome, SmallMem)' /\ Credited(largeOutcome, LargeMem)'
     /\ Cardinality(menu) = 1 /\ largeOutcome'.kid \in seen =>
          Exact(smallOutcome, SmallMem)' /\ Exact(largeOutcome, LargeMem)']_vars
===============================================================================
