----------------------------- MODULE Arbitration -----------------------------
(***************************************************************************)
(* How lsc_multi re-divides its memory when it does not let applications   *)
(* steal: arbitrate_greedyFast (src/src/lsc_multi.cpp), from the curves of *)
(* miss ratios that class mrc estimates, and the tax of compute_idle_mem.  *)
(* Both change nothing but application::credit_bytes; LscMulti is the rest *)
(* of that policy, with stealing.                                          *)
(*                                                                         *)
(* Curves have a point every AET_PGAP objects up to the working set.  What *)
(* they say is free, as long as more memory means no more misses; misses   *)
(* are counted in integers.  As the std::map they are kept in, they are 0  *)
(* where no point was ever set.                                            *)
(***************************************************************************)
EXTENDS Integers, FiniteSetsExt

CONSTANTS
  Apps,             \* application ids
  TargetMem,        \* application::target_mem, the same for all
  MinMemPct,        \* application::min_mem_pct
  OSIZE, AET_PGAP,  \* bytes of an object, objects between two points
  WorkingSets,      \* what solve_MRC may return
  Misses,           \* the values of a curve
  TaxRate,          \* tax_rate, in percent
  InUse,            \* bytes_in_use when the tax is computed
  Wrap,             \* one more than the largest size_t
  MaxPoints         \* the size of a curve that memory has no room for

(* Applications are numbered from one, so close together that sorted_apps  *)
(* loses none; one of them has something reserved.                         *)
ArbitrationAssumption ==
  /\ Apps = 1 .. Cardinality(Apps) /\ Apps # {}
  /\ OSIZE \in Nat \ {0} /\ AET_PGAP \in Nat /\ AET_PGAP >= Cardinality(Apps)
  /\ \A n \in WorkingSets : n \in Nat /\ n % AET_PGAP = 0
  /\ TargetMem \in Nat /\ MinMemPct \in 1 .. 100 /\ TaxRate \in 0 .. 99
  /\ ((TargetMem \div OSIZE) * MinMemPct) \div 100 > 0
  /\ InUse \subseteq Nat \ {0} /\ Misses \subseteq Nat

VARIABLES
  pc,             \* "ready", "shrink" and "divide" in arbitrate_greedyFast, "divided", "crashed"
  credit_bytes,   \* application::credit_bytes
  MRC,            \* mrc::MRC while it is of use
  maxes, E, P,    \* locals: working sets, expected needs, objects of memory
  BestA, W,       \* locals: the shares, and what they come to
  current_misses

locals == <<MRC, maxes, E, P, BestA, W, current_misses>>
vars   == <<pc, credit_bytes, locals>>

Zero    == [a \in Apps |-> 0]
NoCurve == [a \in Apps |-> [n \in {} |-> 0]]
Sum(f) == MapThenSumSet(LAMBDA a : f[a], Apps)
RoundDown(n) == (n \div AET_PGAP) * AET_PGAP

(* A size_t as the ssize_t it is assigned to. *)
Signed(n) == IF n >= Wrap \div 2 THEN n - Wrap ELSE n

Limit(a) == TargetMem + credit_bytes[a]
Alloc(a) == RoundDown((Limit(a) % Wrap) \div OSIZE)

(* Rounded to nothing: the division is one of doubles. *)
Reserved == ((TargetMem \div OSIZE) * MinMemPct) \div 100

(* The points a curve may have; those beyond the working set and all there *)
(* is of memory are left over from earlier calls, if they are set at all.  *)
Points == {n \in 1 .. Max(WorkingSets \union {Reserved}) : n % AET_PGAP = 0}

(* What solve_MRC may leave as the curve of a working set. *)
Curves(wss) ==
  {f \in [Points -> Misses \union {0}] :
     \A m, n \in Points : m < n /\ n =< wss => f[m] >= f[n]}

(* The curve of a as the arbitration draws it on from the working set,     *)
(* level, up to all memory there is.                                       *)
AtPoint(a, n) == IF n \in DOMAIN MRC[a] THEN MRC[a][n] ELSE 0
At(a, n) ==
  IF n \in maxes[a] .. P /\ n % AET_PGAP = 0 THEN AtPoint(a, maxes[a]) ELSE AtPoint(a, n)

Init ==
  /\ pc = "ready" /\ credit_bytes = Zero /\ MRC = NoCurve
  /\ maxes = Zero /\ E = Zero /\ P = 0 /\ BestA = Zero /\ W = 0 /\ current_misses = 0

(* compute_idle_mem, at the beginning of some request: of the bytes an     *)
(* application uses, those that were not used for long are taxed.          *)
NewTarget(idle, used) ==
  LET min_mem == (TargetMem * MinMemPct) \div 100
  IN (min_mem * (100 - TaxRate) * used) \div (100 * used - (used - idle) * TaxRate)

Tax ==
  /\ pc = "ready"
  /\ \E used \in [Apps -> InUse \union {0}], idle \in [Apps -> InUse \union {0}] :
       /\ \A a \in Apps : idle[a] =< used[a]
       /\ credit_bytes' = [a \in Apps |-> IF used[a] = 0 THEN credit_bytes[a]
                                          ELSE NewTarget(idle[a], used[a]) - TargetMem]
  /\ UNCHANGED <<pc, locals>>

(* There is memory for all that is expected to be needed: the rest is      *)
(* shared out in proportion; the first application gets what rounding      *)
(* leaves.                                                                 *)
Surplus(need, mem) ==
  LET A == [a \in Apps |-> RoundDown(need[a] + ((mem - Sum(need)) * need[a]) \div Sum(need))]
  IN [A EXCEPT ![1] = @ + Max({0, mem - Sum(A)})]

(* The beginning of arbitrate_greedyFast, at the end of a request.  Curves *)
(* that are drawn on for ever exhaust memory.                              *)
Arbitrate ==
  /\ pc = "ready"
  /\ P' = Sum([a \in Apps |-> Alloc(a)])
  /\ maxes' \in [Apps -> WorkingSets]
  /\ E' = [a \in Apps |-> Max({Reserved, maxes'[a]})]
  /\ IF P' > MaxPoints
     THEN pc' = "crashed" /\ UNCHANGED <<MRC, BestA, W, current_misses>>
     ELSE IF P' >= Sum(E')
     THEN /\ pc' = "divide"
          /\ BestA' = Surplus(E', P')
          /\ UNCHANGED <<MRC, W, current_misses>>
     ELSE /\ pc' = "shrink"
          /\ MRC' \in [Apps -> UNION {Curves(n) : n \in WorkingSets}]
          /\ \A a \in Apps : MRC'[a] \in Curves(maxes'[a])
          /\ BestA' = E' /\ W' = Sum(E')
          /\ current_misses' = Sum([a \in Apps |-> At(a, E[a])'])
  /\ UNCHANGED credit_bytes

(* One turn of "calculate who looses the least": the application that      *)
(* would have the fewest misses more, the first of sorted_apps if several, *)
(* gives up one step; if nobody has less than twice the misses of now,     *)
(* somebody does.                                                          *)
Next_misses(a) ==
  current_misses - At(a, BestA[a]) + At(a, BestA[a] - AET_PGAP)
Before(a, b) ==
  \/ Next_misses(a) < Next_misses(b)
  \/ Next_misses(a) = Next_misses(b) /\ maxes[a] + a < maxes[b] + b
Losers ==
  {a \in Apps : /\ Next_misses(a) < 2 * current_misses
                /\ \A b \in Apps \ {a} : Before(a, b)}

Shrink ==
  /\ pc = "shrink" /\ W > P
  /\ \E a \in IF Losers # {} THEN Losers ELSE Apps :
       /\ BestA' = [BestA EXCEPT ![a] = @ - AET_PGAP]
       /\ current_misses' = IF Losers # {} THEN Next_misses(a)
                                           ELSE At(a, BestA[a] - AET_PGAP)
  /\ W' = W - AET_PGAP
  /\ UNCHANGED <<pc, credit_bytes, MRC, maxes, E, P>>

EndShrink ==
  /\ pc = "shrink" /\ W =< P
  /\ pc' = "divide"
  /\ UNCHANGED <<credit_bytes, locals>>

(* The shares become credit, in whole steps. *)
Divide ==
  /\ pc = "divide"
  /\ credit_bytes' = [a \in Apps |->
       LET target == BestA[a] % Wrap
           steps  == IF target > Alloc(a) THEN RoundDown(target - Alloc(a))
                                          ELSE - RoundDown(Alloc(a) - target)
       IN Signed((credit_bytes[a] + steps * OSIZE) % Wrap)]
  /\ pc' = "divided"
  /\ UNCHANGED locals

Return ==
  /\ pc = "divided"
  /\ pc' = "ready"
  /\ MRC' = NoCurve /\ maxes' = Zero /\ E' = Zero /\ P' = 0
  /\ BestA' = Zero /\ W' = 0 /\ current_misses' = 0
  /\ UNCHANGED credit_bytes

Proceed == Shrink \/ EndShrink \/ Divide \/ Return
Next    == Tax \/ Arbitrate \/ Proceed
Spec    == Init /\ [][Next]_vars /\ WF_vars(Proceed)

-------------------------------------------------------------------------------
TypeOK ==
  /\ pc \in {"ready", "shrink", "divide", "divided", "crashed"}
  /\ credit_bytes \in [Apps -> Int] /\ BestA \in [Apps -> Int] /\ E \in [Apps -> Nat]

InDebt(a) == Limit(a) < 0
WholeSteps == \A a \in Apps : E[a] % AET_PGAP = 0

(* Between the decision and the credit no memory is lost or made.  W is    *)
(* what the shares come to.  With a surplus they come to all there is and  *)
(* nobody gets less than it needs, but for rounding; otherwise they come   *)
(* to it but for less than one step, and nobody gets more.  Each limit     *)
(* becomes the share it was given, but for less than one step, and no      *)
(* reservation out of step means no memory out of step.  All this unless   *)
(* some share is below nothing; only then can curves grow without end.     *)
Consistent ==
  /\ pc = "shrink" => W = Sum(BestA) /\ W > P - AET_PGAP
  /\ pc = "divide" =>
       IF P >= Sum(E)
       THEN Sum(BestA) = P /\ \A a \in Apps : BestA[a] >= RoundDown(E[a])
       ELSE Sum(BestA) \in P - AET_PGAP + 1 .. P /\ \A a \in Apps : BestA[a] =< E[a]
  /\ pc = "divided" /\ (\A a \in Apps : BestA[a] >= 0) =>
       /\ \A a \in Apps : Alloc(a) - BestA[a] \in 1 - AET_PGAP .. AET_PGAP - 1
       /\ WholeSteps => Sum([a \in Apps |-> Alloc(a)]) = P
  /\ pc = "crashed" => \E a \in Apps : InDebt(a)
===============================================================================
