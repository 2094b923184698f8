-------------------------------- MODULE Fifo --------------------------------
(***************************************************************************)
(* The FIFO queue of src/src/fifo.{h,cpp}.  An object that is requested    *)
(* with another size is queued once more; the older copy stays where it is *)
(* until it comes out at the end, and its key then leaves the hash table,  *)
(* whichever copy the table leads to.  One call of fifo::proc is one step. *)
(***************************************************************************)
EXTENDS Integers, FiniteSetsExt, SequencesExt

CONSTANTS
  Keys,      \* request::kid
  Sizes,     \* request::size()
  GlobalMem  \* stat.global_mem

SizesAssumption == Sizes \subseteq Nat \ {0} /\ GlobalMem \in Nat

VARIABLES
  queue,         \* the queued copies, newest first; in_hash: does hash lead here
  current_size,  \* the bytes the code counts for them
  outcome        \* the last request and what became of it

vars == <<queue, current_size, outcome>>

Requests == [kid : Keys, size : Sizes]
Copies   == [kid : Keys, size : Sizes, in_hash : BOOLEAN]

Outcome(r, result) == [kid |-> r.kid, size |-> r.size, result |-> result]
SizeOf(q) == SumFunctionOnSet([i \in DOMAIN q |-> q[i].size], DOMAIN q)

(* The copy hash leads to for key k, if any. *)
Hashed(k) == {c \in ToSet(queue) : c.kid = k /\ c.in_hash}
IsHit(r)  == \E c \in Hashed(r.kid) : c.size = r.size

Init == queue = <<>> /\ current_size = 0 /\ outcome = [result |-> "none"]

(* hash.erase of the keys of K in queue q.  The first form is the mutation *)
(* that leaves the table alone.                                            *)
Keep(q, K)   == q
Unhash(q, K) ==
  [i \in DOMAIN q |-> [q[i] EXCEPT !.in_hash = @ /\ q[i].kid \notin K]]

(* How many of the newest copies stay when room is made for size bytes. *)
Staying(size) ==
  Max({0} \union {n \in 0 .. Len(queue) :
                    GlobalMem - (current_size - SizeOf(SubSeq(queue, n + 1, Len(queue))))
                      >= size})

(* What is counted for the queue once the copies of q are out. *)
LeftAfter(q)   == current_size - SizeOf(q)

(* "Throw out enough junk to make room for new record", copies of the      *)
(* requested key among it, then "Add the new request"; or "return 0" when  *)
(* even the empty queue has no room.                                       *)
Enqueue(r) ==
  LET victims == SubSeq(queue, Staying(r.size) + 1, Len(queue))
      gone    == {c.kid : c \in ToSet(victims)}
      stay    == SubSeq(queue, 1, Staying(r.size))
      left    == LeftAfter(victims)
  IN \/ /\ GlobalMem - left >= r.size
        /\ queue' = <<[kid |-> r.kid, size |-> r.size, in_hash |-> TRUE]>>
                      \o Unhash(stay, gone \union {r.kid})
        /\ current_size' = left + r.size
        /\ outcome' = Outcome(r, "miss")
     \/ /\ GlobalMem - left < r.size
        /\ queue' = Unhash(stay, gone)
        /\ current_size' = left
        /\ outcome' = Outcome(r, "rejected")

Hit(r) ==
  /\ IsHit(r)
  /\ outcome' = Outcome(r, "hit")
  /\ UNCHANGED <<queue, current_size>>

Proc(r) == Hit(r) \/ (~ IsHit(r) /\ Enqueue(r))

Next == \E r \in Requests : Proc(r)
Spec == Init /\ [][Next]_vars

-------------------------------------------------------------------------------
TypeOK ==
  /\ queue \in Seq(Copies)
  /\ current_size \in Nat

(* current_size is the number of bytes in the eviction queue, superseded   *)
(* and forgotten copies included, and never exceeds global_mem: the        *)
(* unsigned difference that makes room does not wrap.                      *)
BytesCounted == current_size = SizeOf(queue) /\ current_size =< GlobalMem

(* However its copies come and go, a key that is in the hash table is      *)
(* there once, and with the newest of its copies: "it gets overwritten     *)
(* below anyway".                                                          *)
HashLeadsToNewest ==
  \A i, j \in DOMAIN queue :
    queue[i].in_hash /\ queue[j].kid = queue[i].kid => i =< j

Consistent == BytesCounted /\ HashLeadsToNewest

(* What the replay loop sees of the queue. *)
Contents == [k \in {c.kid : c \in {d \in ToSet(queue) : d.in_hash}} |->
               (CHOOSE c \in Hashed(k) : TRUE).size]
===============================================================================
