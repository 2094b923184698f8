------------------------------ MODULE RequestLists ------------------------------
(***************************************************************************)
(* Lists of requests, newest first, as the queues of lru, shadowlru and    *)
(* the like keep them: the keys and the bytes of a list or of some of its  *)
(* places, and what is left of it when the request for a key is erased.    *)
(***************************************************************************)
EXTENDS Integers, Functions, Filter

KeysAt(q, I)  == {q[i].kid : i \in I}
BytesAt(q, I) == SumFunctionOnSet([i \in DOMAIN q |-> q[i].size], I)
KeysOf(q)  == KeysAt(q, DOMAIN q)
SizeOf(q)  == BytesAt(q, DOMAIN q)
Drop(q, k) == Erase(q, {r \in ToSet(q) : r.kid = k})
===============================================================================
