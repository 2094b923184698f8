--------------------------------- MODULE Lru ---------------------------------
(***************************************************************************)
(* The LRU queue of src/src/lru.{h,cpp}: a list of requests, newest first, *)
(* and a hash table from keys to places in it.  It is a policy of its own  *)
(* (proc) and the building block of the slab allocators (remove, expand,   *)
(* add, try_add_tail).  One call of a member function is one step.         *)
(***************************************************************************)
EXTENDS Integers, FiniteSetsExt, SequencesExt, RequestLists

CONSTANTS
  Keys,     \* request::kid
  Sizes,    \* request::size()
  MemSizes  \* the values stat.global_mem may start with or be expanded to

SizesAssumption == Sizes \subseteq Nat \ {0} /\ MemSizes \subseteq Nat

VARIABLES
  queue,         \* the cached requests, newest first
  map,           \* the keys in the hash table, each leading to its place in queue
  bytes_cached,  \* stat.bytes_cached
  global_mem,    \* stat.global_mem
  outcome        \* the last request and what became of it

vars == <<queue, map, bytes_cached, global_mem, outcome>>

Requests == [kid : Keys, size : Sizes]

Outcome(r, result) == [kid |-> r.kid, size |-> r.size, result |-> result]
EntryOf(k) == CHOOSE r \in ToSet(queue) : r.kid = k

Init ==
  /\ queue = <<>> /\ map = {} /\ bytes_cached = 0
  /\ global_mem \in MemSizes
  /\ outcome = [result |-> "none"]

(* How many of the newest requests of q stay when room is made for size    *)
(* bytes: "Throw out enough junk to make room for new record."             *)
Staying(q, bytes, size) ==
  Max({0} \union {n \in 0 .. Len(q) :
                    bytes - BytesAt(q, n + 1 .. Len(q)) + size =< global_mem})

(* add(r) on a queue q, hash table m and fill level bytes.  When even an   *)
(* empty queue has no room the object is not added.                        *)
AddTo(q, m, bytes, r) ==
  LET stay    == SubSeq(q, 1, Staying(q, bytes, r.size))
      victims == Len(stay) + 1 .. Len(q)
      left    == bytes - BytesAt(q, victims)
  IN \/ /\ left + r.size =< global_mem
        /\ queue' = <<r>> \o stay
        /\ map' = (m \ KeysAt(q, victims)) \union {r.kid}
        /\ bytes_cached' = left + r.size
        /\ outcome' = Outcome(r, "miss")
     \/ /\ left + r.size > global_mem
        /\ queue' = stay
        /\ map' = m \ KeysAt(q, victims)
        /\ bytes_cached' = left
        /\ outcome' = Outcome(r, "rejected")

(* proc: the key is cached with this size and moves to the front.  The     *)
(* first form is the mutation that leaves it where it is.                  *)
HitInPlace(r) ==
  /\ r.kid \in map /\ EntryOf(r.kid).size = r.size
  /\ outcome' = Outcome(r, "hit")
  /\ UNCHANGED <<queue, map, bytes_cached>>
Promote(r) ==
  /\ r.kid \in map /\ EntryOf(r.kid).size = r.size
  /\ queue' = <<r>> \o Drop(queue, r.kid)
  /\ outcome' = Outcome(r, "hit")
  /\ UNCHANGED <<map, bytes_cached>>

(* proc: the key is cached with another size; the old object is taken out  *)
(* and the new one added.                                                  *)
Resize(r) ==
  /\ r.kid \in map /\ EntryOf(r.kid).size # r.size
  /\ AddTo(Drop(queue, r.kid), map \ {r.kid},
           bytes_cached - EntryOf(r.kid).size, r)

(* add(r), the rest of proc when the key is not cached. *)
Add(r) == r.kid \notin map /\ AddTo(queue, map, bytes_cached, r)

Proc(r) ==
  /\ Promote(r) \/ Resize(r) \/ Add(r)
  /\ UNCHANGED global_mem

(* try_add_tail(r), whose caller has seen that the key is absent: the      *)
(* object goes to the old end of the queue if it fits as things are.       *)
TryAddTail(r) ==
  /\ r.kid \notin map
  /\ \/ /\ bytes_cached + r.size =< global_mem
        /\ queue' = Append(queue, r)
        /\ map' = map \union {r.kid}
        /\ bytes_cached' = bytes_cached + r.size
        /\ outcome' = Outcome(r, "miss")
     \/ /\ bytes_cached + r.size > global_mem
        /\ outcome' = Outcome(r, "rejected")
        /\ UNCHANGED <<queue, map, bytes_cached>>
  /\ UNCHANGED global_mem

(* remove; no caller looks at the distance it returns. *)
RemoveKey(k) ==
  /\ \/ /\ k \notin map
        /\ UNCHANGED <<queue, map, bytes_cached>>
     \/ /\ k \in map
        /\ bytes_cached' = bytes_cached - EntryOf(k).size
        /\ queue' = Drop(queue, k)
        /\ map' = map \ {k}
  /\ UNCHANGED <<global_mem, outcome>>

(* expand(bytes), up to the largest memory that is of interest. *)
Expand ==
  /\ \E mem \in MemSizes : mem > global_mem /\ global_mem' = mem
  /\ UNCHANGED <<queue, map, bytes_cached, outcome>>

Next ==
  \/ \E r \in Requests : Proc(r) \/ TryAddTail(r)
  \/ \E k \in Keys : RemoveKey(k)
  \/ Expand

Spec == Init /\ [][Next]_vars

-------------------------------------------------------------------------------
TypeOK ==
  /\ queue \in Seq(Requests) /\ map \subseteq Keys
  /\ bytes_cached \in Nat /\ global_mem \in MemSizes

(* The list and the hash table hold the same keys, each once, and          *)
(* bytes_cached is what they take (the assertion of                        *)
(* lru::get_running_utilization): whatever order of proc, remove,          *)
(* try_add_tail and expand a slab allocator calls, and with objects that   *)
(* grow, shrink or cannot be held, no byte is lost or counted twice.       *)
Consistent ==
  /\ map = KeysOf(queue)
  /\ Len(queue) = Cardinality(map)
  /\ bytes_cached = SizeOf(queue)
  /\ bytes_cached =< global_mem

(* What the replay loop sees of the queue. *)
Contents == [k \in map |-> EntryOf(k).size]
===============================================================================
