--------------------------------- MODULE Filter ---------------------------------
(***************************************************************************)
(* Taking elements out of a queue: a std::list or std::deque from which    *)
(* items are erased while the others keep their order.  (SelectSeq does    *)
(* the same, but the proof system cannot unfold it.)                       *)
(***************************************************************************)
EXTENDS SequencesExt

(* What is left of s without the elements of E, and what it has of K. *)
Erase(s, E) ==
  LET left[i \in 0 .. Len(s)] ==
        IF i = 0 THEN <<>>
        ELSE IF s[i] \in E THEN left[i - 1] ELSE Append(left[i - 1], s[i])
  IN left[Len(s)]
Keep(s, K) == Erase(s, ToSet(s) \ K)
===============================================================================
