------------------------------ MODULE ShadowLru ------------------------------
(***************************************************************************)
(* The unbounded LRU queue of src/src/shadowlru.{h,cpp}.  It holds every   *)
(* object it was asked for and answers a request with a stack distance,    *)
(* the number of bytes an LRU cache would have needed to still hold the    *)
(* object; the distances add up to a hit-rate curve.                       *)
(***************************************************************************)
EXTENDS ShadowQueue

WrapAssumption ==
  /\ IsFiniteSet(Keys) /\ IsFiniteSet(Sizes) /\ Sizes \subseteq Nat \ {0}
  /\ Wrap \in Nat /\ Wrap > Cardinality(Keys) * Max(Sizes) + 1

VARIABLES
  queue,         \* the requests seen, newest first
  bytes_cached,  \* stat.bytes_cached
  curve,         \* what the last call of proc has added to size_curve
  removed,       \* the keys remove was called for last (not in the code)
  seen           \* the keys that were ever requested (not in the code)

vars == <<queue, bytes_cached, curve, removed, seen>>

Init ==
  /\ queue = <<>> /\ bytes_cached = 0 /\ seen = {} /\ removed = {}
  /\ curve = [entry |-> "none"]

Refill(r) == bytes_cached - BytesOf(queue, r.kid) + r.size

(* The distance is added to size_curve, as a hit unless it is PROC_MISS. *)
Record(distance) ==
  curve' = IF distance # PROC_MISS THEN [entry |-> "hit", at |-> distance]
                                   ELSE [entry |-> "miss"]

(* proc: the object comes to the front in the size of the request. *)
Proc(r) ==
  /\ Record(SizeDistance(queue, r.kid))
  /\ queue' = <<r>> \o Drop(queue, r.kid)
  /\ bytes_cached' = Refill(r)
  /\ seen' = seen \union {r.kid} /\ removed' = {}

(* remove: the iterator is moved on before it is read, so that the newest  *)
(* object is passed over.  When nothing is found the end of the list is    *)
(* read, memory that belongs to no request and is taken to hold no key.    *)
RemoveKey(k) ==
  /\ \/ /\ PlaceOf(queue, k) \in 2 .. Len(queue)
        /\ queue' = Drop(queue, k)
        /\ bytes_cached' = bytes_cached - BytesOf(queue, k)
     \/ /\ PlaceOf(queue, k) \notin 2 .. Len(queue)
        /\ UNCHANGED <<queue, bytes_cached>>
  /\ removed' = {k}
  /\ UNCHANGED <<curve, seen>>

Next ==
  \/ \E r \in Requests : Proc(r)
  \/ \E k \in Keys : RemoveKey(k)

Spec == Init /\ [][Next]_vars

-------------------------------------------------------------------------------
TypeOK ==
  /\ queue \in Seq(Requests)
  /\ bytes_cached \in Nat /\ seen \subseteq Keys /\ removed \subseteq Keys

(* Every object is in the queue once, and bytes_cached, from which         *)
(* shadowslab sizes its classes, is what they all take.                    *)
Consistent ==
  /\ Len(queue) = Cardinality(KeysOf(queue))
  /\ bytes_cached = SizeOf(queue)

(* "Compulsory miss must have come before this new get hit": the first     *)
(* request for a key is recorded as a miss.                                *)
CompulsoryMissIsMiss ==
  [][\A k \in seen' \ seen : curve' = [entry |-> "miss"]]_vars

(* "Removes an item from the chain": after the call it is not there.       *)
RemoveRemoves == removed \cap KeysOf(queue) = {}
===============================================================================
