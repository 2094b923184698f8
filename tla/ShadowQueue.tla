----------------------------- MODULE ShadowQueue -----------------------------
(***************************************************************************)
(* What shadowlru, and what shadowslab and partslab with each of their     *)
(* queues of class shadowlru, ask of a queue that holds every object it    *)
(* was asked for, newest first.                                            *)
(***************************************************************************)
EXTENDS Integers, FiniteSetsExt, SequencesExt, RequestLists

CONSTANTS
  Keys,   \* request::kid
  Sizes,  \* request::size()
  Wrap    \* one more than the largest size_t

PROC_MISS == Wrap - 1
Requests  == [kid : Keys, size : Sizes]

(* The place of key k in queue q, one past its end when it is not there. *)
PlaceOf(q, k) == Min({Len(q) + 1} \union {i \in DOMAIN q : q[i].kid = k})

(* The loop of proc: size_distance starts from PROC_MISS and sums the      *)
(* sizes up to and including the object, or all of them.  The first form   *)
(* is the mutation that leaves the object itself out.                      *)
DistanceBefore(q, k) == (PROC_MISS + BytesAt(q, 1 .. PlaceOf(q, k) - 1)) % Wrap
SizeDistance(q, k) ==
  (PROC_MISS + BytesAt(q, 1 .. Min({PlaceOf(q, k), Len(q)}))) % Wrap

(* The bytes of key k that proc and remove give back. *)
BytesOf(q, k) == BytesAt(q, {i \in DOMAIN q : q[i].kid = k})
===============================================================================
