-------------------------------- MODULE Clock --------------------------------
(***************************************************************************)
(* The CLOCK policy of src/src/clock.{h,cpp}.  The list clockLru and the   *)
(* iterator clockIt into it are a ring: here it is the sequence that       *)
(* begins at the hand and goes on, over the end of the list, to what lies  *)
(* just behind the hand.  A hit fills an object's counter, the hand takes  *)
(* one from every counter it passes and evicts where it finds zero.        *)
(*                                                                         *)
(* One call of Clock::proc leads from pc = "ready" back to it; each round  *)
(* of its eviction loop is a step.                                         *)
(***************************************************************************)
EXTENDS Integers, FiniteSetsExt, SequencesExt, RequestLists

CONSTANTS
  Keys,             \* request::kid
  Sizes,            \* request::size()
  GlobalMem,        \* stat.global_mem
  CLOCK_MAX_VALUE

(* proc asserts newItem.size <= global_mem. *)
SizesAssumption ==
  /\ GlobalMem \in Nat /\ Sizes \subseteq 1 .. GlobalMem
  /\ CLOCK_MAX_VALUE \in Nat \ {0}

VARIABLES
  pc,             \* "ready", or "evict" while proc makes room
  req,            \* the request room is made for, when pc = "evict"
  ring,           \* clockLru from the hand on: keys and their counters
  allObjects,     \* kid -> the size it is cached with
  lruSize,
  firstEviction,
  behind,         \* kid -> the keys whose counter was zero when its own was
                  \* filled, and who were not used since (not in the code)
  outcome         \* the last completed request and what became of it

vars == <<pc, req, ring, allObjects, lruSize, firstEviction, behind, outcome>>

Requests == [kid : Keys, size : Sizes]

Outcome(r, result) == [kid |-> r.kid, size |-> r.size, result |-> result]
Entry(k, n) == [kid |-> k, ref |-> n]
Without(f, k) == [x \in DOMAIN f \ {k} |-> f[x]]
Used(k) == [x \in DOMAIN behind |-> behind[x] \ {k}]
Zeros(q) == {q[i].kid : i \in {j \in DOMAIN q : q[j].ref = 0}}

Init ==
  /\ pc = "ready" /\ req = (CHOOSE r \in Requests : TRUE) /\ outcome = [result |-> "none"]
  /\ ring = <<>> /\ allObjects = [k \in {} |-> 0] /\ lruSize = 0
  /\ firstEviction = FALSE /\ behind = [k \in {} |-> {}]

(* The counter of k is filled where it is; the first form is the mutation  *)
(* that does not fill it.                                                  *)
Unfilled(q, k) == q
Filled(q, k) == [i \in DOMAIN q |->
                   IF q[i].kid = k THEN Entry(k, CLOCK_MAX_VALUE) ELSE q[i]]

(* proc: the object is cached in the size of the request.  The first form  *)
(* is the mutation that does not compare the sizes.                        *)
IsCached(r) == r.kid \in DOMAIN allObjects
IsHit(r) == r.kid \in DOMAIN allObjects /\ allObjects[r.kid] = r.size

Hit(r) ==
  /\ IsHit(r)
  /\ ring' = Filled(ring, r.kid)
  /\ behind' = [Used(r.kid) EXCEPT ![r.kid] = Zeros(ring) \ {r.kid}]
  /\ outcome' = Outcome(r, "hit")
  /\ UNCHANGED <<pc, req, allObjects, lruSize, firstEviction>>

(* A resized object leaves the ring, the hand moving on if it points to it.*)
Miss(r) ==
  /\ ~ IsHit(r)
  /\ pc' = "evict" /\ req' = r
  /\ ring' = Drop(ring, r.kid)
  /\ allObjects' = Without(allObjects, r.kid)
  /\ lruSize' = IF r.kid \in DOMAIN allObjects THEN lruSize - allObjects[r.kid] ELSE lruSize
  /\ behind' = Without(Used(r.kid), r.kid)
  /\ UNCHANGED <<firstEviction, outcome>>

Proc(r) == pc = "ready" /\ (Hit(r) \/ Miss(r))

(* How far the hand goes: to the first counter that is zero, or once all   *)
(* the way round to where it started (noZeros).                            *)
Stops == {i \in DOMAIN ring : ring[i].ref = 0}
Stop  == IF Stops # {} THEN Min(Stops) ELSE 1

(* The counters the hand passes, and what is left of one. *)
Passed == IF Stops # {} THEN SubSeq(ring, 1, Stop - 1) ELSE <<>>
Ahead  == SubSeq(ring, Stop + 1, Len(ring))
Sweep(q) == [i \in DOMAIN q |-> Entry(q[i].kid, q[i].ref - 1)]

(* One round of the loop: the object the hand stops at is deleted, and the *)
(* hand points to the next one.                                            *)
EvictOne ==
  /\ pc = "evict" /\ lruSize + req.size > GlobalMem /\ ring # <<>>
  /\ LET victim == ring[Stop].kid
     IN /\ ring' = IF Stops # {} THEN Ahead \o Sweep(Passed) ELSE Sweep(Ahead)
        /\ lruSize' = lruSize - allObjects[victim]
        /\ allObjects' = Without(allObjects, victim)
        /\ behind' = Without(Used(victim), victim)
  /\ firstEviction' = TRUE
  /\ UNCHANGED <<pc, req, outcome>>

(* The new object is linked in just behind the hand.  Its counter is full  *)
(* once the cache has had to evict, and empty until then.                  *)
Insert ==
  /\ pc = "evict" /\ lruSize + req.size =< GlobalMem
  /\ pc' = "ready"
  /\ ring' = Append(ring, Entry(req.kid, IF firstEviction THEN CLOCK_MAX_VALUE ELSE 0))
  /\ allObjects' = [k \in DOMAIN allObjects \union {req.kid} |->
                      IF k = req.kid THEN req.size ELSE allObjects[k]]
  /\ lruSize' = lruSize + req.size
  /\ behind' = [k \in DOMAIN behind \union {req.kid} |->
                  IF k # req.kid THEN behind[k]
                  ELSE IF firstEviction THEN Zeros(ring) ELSE {}]
  /\ outcome' = Outcome(req, "miss")
  /\ UNCHANGED <<req, firstEviction>>

Proceed == EvictOne \/ Insert
Next == (\E r \in Requests : Proc(r)) \/ Proceed

(* proc runs to its end; nothing makes the trace go on. *)
Spec == Init /\ [][Next]_vars /\ WF_vars(Proceed)

-------------------------------------------------------------------------------
TypeOK ==
  /\ pc \in {"ready", "evict"} /\ (pc = "evict" => req \in Requests)
  /\ ring \in Seq([kid : Keys, ref : 0 .. CLOCK_MAX_VALUE])
  /\ DOMAIN allObjects \subseteq Keys
  /\ \A k \in DOMAIN allObjects : allObjects[k] \in Sizes
  /\ lruSize \in Nat /\ firstEviction \in BOOLEAN

(* The ring and the hash table hold the same objects, each once, and       *)
(* lruSize is what they take, also while the hand is at an object that is  *)
(* resized or evicted.                                                     *)
Consistent ==
  /\ KeysOf(ring) = DOMAIN allObjects
  /\ Len(ring) = Cardinality(DOMAIN allObjects)
  /\ lruSize = SumFunctionOnSet(allObjects, DOMAIN allObjects)
  /\ lruSize =< GlobalMem

(* Second chance: an object that was used is evicted only when those that  *)
(* had run out of credit by then, and were not used since, are gone,       *)
(* however often the hand goes round in between.                           *)
OutOfCreditFirst == \A k \in DOMAIN allObjects \ DOMAIN allObjects' : behind[k] = {}
SecondChance == [][EvictOne => OutOfCreditFirst]_vars

(* What the replay loop sees of the ring. *)
Contents == allObjects
===============================================================================
