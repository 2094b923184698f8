------------------------------ MODULE ClockRing ------------------------------
(***************************************************************************)
(* The clock that src/src/flash_shield.cpp and the two                     *)
(* flash_cache_lruk_clock*.cpp turn to find what they evict: a list of     *)
(* objects with counters, and a hand.  A ring is the sequence of entries   *)
(* [kid, count] from the hand on, round the end of the list.               *)
(***************************************************************************)
EXTENDS Integers, FiniteSetsExt, SequencesExt

(* insert before the hand, the place that is visited last.                 *)
Enter(ring, k, count) == Append(ring, [kid |-> k, count |-> count])

(* erase, with the hand moved on when it stood there.                      *)
Leave(ring, k) == SelectSeq(ring, LAMBDA e : e.kid # k)

SetCount(ring, k, count) ==
  [i \in DOMAIN ring |-> IF ring[i].kid = k THEN [ring[i] EXCEPT !.count = count] ELSE ring[i]]

(* The hand stops at the first counter that is zero, or, once it is round, *)
(* where it started.                                                       *)
Zeros(ring) == {i \in DOMAIN ring : ring[i].count = 0}
StopsAt(ring) == IF Zeros(ring) = {} THEN 1 ELSE Min(Zeros(ring))
VictimOf(ring) == ring[StopsAt(ring)].kid

(* What it passed has lost one, and it goes on behind the victim.          *)
Swept(ring) ==
  LET stop == StopsAt(ring)
      passed == IF Zeros(ring) = {} THEN Len(ring) ELSE stop - 1
      tired == [i \in DOMAIN ring |->
                  IF i =< passed THEN [ring[i] EXCEPT !.count = @ - 1] ELSE ring[i]]
  IN SubSeq(tired, stop + 1, Len(ring)) \o SubSeq(tired, 1, stop)
===============================================================================
