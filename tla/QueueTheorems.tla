----------------------------- MODULE QueueTheorems -----------------------------
(***************************************************************************)
(* What the proofs about the logs and the queues need to know of the data  *)
(* they are made of.                                                       *)
(*                                                                         *)
(* Sums over finite sets, SumFunctionOnSet of Functions: what segments and *)
(* queues hold, what applications are billed for.  A sum is a fold, that   *)
(* is, a function defined by recursion over sets.  The argument has the    *)
(* usual order: the function exists, whatever set it starts from gives the *)
(* same sums, and so the sum of a set is what is added for any one of its  *)
(* elements and the sum of the rest.  Induction is used in the form "a set *)
(* of naturals, or of subsets, that has this property is all of them",     *)
(* which needs no predicate as a parameter.                                *)
(*                                                                         *)
(* Queues that hold each element once, and what erasing elements leaves of *)
(* them: an element stays where it is relative to the others.              *)
(***************************************************************************)
EXTENDS Integers, Functions, FiniteSetsExt, Filter, SequenceTheorems, FiniteSetTheorems, WellFoundedInduction, TLAPS

-------------------------------------------------------------------------------
(* Induction.                                                              *)

(* A set of naturals that has 0 and every successor is all of them: the    *)
(* rest of Nat has no smallest element.                                    *)
LEMMA NatSetInduction ==
  ASSUME NEW N, 0 \in N, \A n \in Nat : n \in N => n + 1 \in N
  PROVE  Nat \subseteq N
<1> DEFINE R == OpToRel(<, Nat)
           T == Nat \ N
<1> SUFFICES ASSUME T # {} PROVE FALSE
  OBVIOUS
<1>1. IsWellFoundedOn(R, Nat)
  BY NatLessThanWellFounded
<1>2. \A m, n \in Nat : m < n => <<m, n>> \in R
  BY DEF OpToRel
<1>3. T \subseteq Nat
  OBVIOUS
<1>4. \E x \in T : \A y \in T : ~ (<<y, x>> \in R)
  <2> HIDE DEF R, T
  <2> QED BY ONLY <1>1, <1>3, T # {}, WFMin
<1>5. PICK x \in T : \A y \in T : ~ (<<y, x>> \in R)
  BY <1>4
<1>6. x - 1 \in Nat /\ (x - 1) + 1 = x /\ x - 1 \notin N
  <2>1. x \in Nat /\ x \notin N /\ x # 0
    OBVIOUS
  <2>2. x - 1 \in Nat /\ (x - 1) + 1 = x
    BY <2>1
  <2> QED BY <2>1, <2>2
<1>7. <<x - 1, x>> \in R
  <2>1. x \in Nat /\ x - 1 < x
    BY <1>6
  <2> HIDE DEF R
  <2> QED BY <1>2, <1>6, <2>1
<1> QED BY <1>5, <1>6, <1>7

(* A set of naturals has a least element,                                 *)
LEMMA LeastElement ==
  ASSUME NEW S \in SUBSET Nat, S # {}
  PROVE  \E m \in S : \A n \in S : m =< n
<1> DEFINE N == {n \in Nat : \A m \in S : m >= n}
<1> SUFFICES ASSUME \A m \in S : \E n \in S : ~ (m =< n) PROVE FALSE
  OBVIOUS
<1>1. 0 \in N
  OBVIOUS
<1>2. ASSUME NEW n \in Nat, n \in N PROVE n + 1 \in N
  <2>1. ASSUME NEW m \in S PROVE m >= n + 1
    <3>1. m \in Nat /\ m >= n
      BY <1>2
    <3>2. m # n
      BY <1>2
    <3> QED BY <3>1, <3>2
  <2> QED BY <2>1
<1>3. Nat \subseteq N
  <2> HIDE DEF N
  <2> QED BY <1>1, <1>2, NatSetInduction
<1>4. PICK m \in S : TRUE
  OBVIOUS
<1>5. m \in Nat /\ m + 1 \in N
  BY <1>3
<1> QED BY <1>4, <1>5

(* and a bounded one a greatest, which Max then is.                        *)
LEMMA GreatestElement ==
  ASSUME NEW n \in Nat, NEW S \in SUBSET (0 .. n), S # {}
  PROVE  Max(S) \in S /\ \A m \in S : m =< Max(S)
<1> DEFINE T == {n - m : m \in S}
<1>1. T \in SUBSET Nat /\ T # {}
  <2>1. \A m \in S : m \in Nat /\ n - m \in Nat
    OBVIOUS
  <2> QED BY <2>1
<1>2. PICK l \in T : \A m \in T : l =< m
  <2> HIDE DEF T
  <2> QED BY <1>1, LeastElement
<1>3. PICK m \in S : l = n - m
  BY <1>2
<1>4. \A k \in S : k =< m
  <2> TAKE k \in S
  <2>1. n - k \in T
    OBVIOUS
  <2>2. l =< n - k /\ k \in Int /\ m \in Int
    BY <1>2, <2>1
  <2> QED BY <1>3, <2>2
<1>5. \E x \in S : \A y \in S : x >= y
  BY <1>4
<1>6. Max(S) \in S /\ \A y \in S : Max(S) >= y
  BY <1>5 DEF Max
<1> QED BY <1>6


(* Subsets of S with at most n elements: removing one makes it n - 1. *)
LEMMA RemoveOne ==
  ASSUME NEW S, IsFiniteSet(S), NEW x \in S
  PROVE  /\ IsFiniteSet(S \ {x}) /\ Cardinality(S \ {x}) = Cardinality(S) - 1
         /\ Cardinality(S) \in Nat /\ Cardinality(S) # 0
         /\ Cardinality(S \ {x}) \in Nat
BY FS_RemoveElement, FS_CardinalityType, FS_EmptySet

(* If a set of subsets of S has {}, and T as soon as it has T without any  *)
(* one of its elements, it has all subsets.                                *)
LEMMA SubsetInduction ==
  ASSUME NEW S, IsFiniteSet(S), NEW P, {} \in P,
         \A T \in SUBSET S : T # {} /\ (\A x \in T : T \ {x} \in P) => T \in P
  PROVE  \A T \in SUBSET S : T \in P
<1> DEFINE N == {n \in Nat : \A T \in SUBSET S : Cardinality(T) =< n => T \in P}
<1>1. \A T \in SUBSET S : IsFiniteSet(T) /\ Cardinality(T) \in Nat
  BY FS_Subset, FS_CardinalityType
<1>2. 0 \in N
  <2>1. \A T \in SUBSET S : Cardinality(T) =< 0 => T = {}
    BY <1>1, FS_EmptySet
  <2> QED BY <2>1
<1>3. ASSUME NEW n \in Nat, n \in N PROVE n + 1 \in N
  <2>1. ASSUME NEW T \in SUBSET S, Cardinality(T) =< n + 1, T # {} PROVE T \in P
    <3>1. ASSUME NEW x \in T PROVE T \ {x} \in P
      <4>1. T \ {x} \in SUBSET S /\ Cardinality(T \ {x}) =< n
        BY <1>1, <2>1, RemoveOne
      <4> QED BY <1>3, <4>1
    <3> QED BY <2>1, <3>1
  <2>2. \A T \in SUBSET S : Cardinality(T) =< n + 1 => T \in P
    BY <2>1
  <2> QED BY <2>2
<1>4. Nat \subseteq N
  <2> HIDE DEF N
  <2> QED BY <1>2, <1>3, NatSetInduction
<1> QED BY <1>1, <1>4

-------------------------------------------------------------------------------
(* Folds over finite sets, by a step that is a function.                   *)

(* g folds `step` over the elements of a set, picked by `pick`. *)
IsFold(g, base, step, pick, S) ==
  g = [s \in SUBSET S |->
         IF s = {} THEN base ELSE step[pick[s]][g[s \ {pick[s]}]]]

(* A fold over a finite set exists: extend it from sets of at most n to    *)
(* sets of at most n + 1 elements.                                         *)
LEMMA FoldExists ==
  ASSUME NEW S, IsFiniteSet(S), NEW base, NEW step, NEW pick,
         \A T \in SUBSET S : T # {} => pick[T] \in T
  PROVE  \E g : IsFold(g, base, step, pick, S)
<1> DEFINE Rhs(g, s) == IF s = {} THEN base ELSE step[pick[s]][g[s \ {pick[s]}]]
           N == {n \in Nat : \E g : \A s \in SUBSET S : Cardinality(s) =< n => g[s] = Rhs(g, s)}
<1>1. \A T \in SUBSET S : IsFiniteSet(T) /\ Cardinality(T) \in Nat
  BY FS_Subset, FS_CardinalityType
<1>2. 0 \in N
  <2>1. \A s \in SUBSET S : Cardinality(s) =< 0 => s = {}
    BY <1>1, FS_EmptySet
  <2>2. \A s \in SUBSET S : Cardinality(s) =< 0 => [t \in SUBSET S |-> base][s] = base
    OBVIOUS
  <2>3. \A s \in SUBSET S : Cardinality(s) =< 0 =>
           [t \in SUBSET S |-> base][s] = Rhs([t \in SUBSET S |-> base], s)
    BY <2>1, <2>2
  <2> QED BY <2>3
<1>3. ASSUME NEW n \in Nat, n \in N PROVE n + 1 \in N
  <2>1. PICK g : \A s \in SUBSET S : Cardinality(s) =< n => g[s] = Rhs(g, s)
    BY <1>3
  <2> DEFINE h == [s \in SUBSET S |-> Rhs(g, s)]
  <2>2. ASSUME NEW s \in SUBSET S, Cardinality(s) =< n + 1 PROVE h[s] = Rhs(h, s)
    <3>1. CASE s = {}
      BY <3>1
    <3>2. CASE s # {}
      <4> DEFINE t == s \ {pick[s]}
      <4>1. t \in SUBSET S /\ Cardinality(t) =< n
        BY <1>1, <2>2, <3>2, RemoveOne
      <4>2. h[t] = Rhs(g, t) /\ g[t] = Rhs(g, t)
        BY <2>1, <4>1
      <4>3. h[s] = step[pick[s]][g[t]]
        BY <3>2
      <4> QED BY <3>2, <4>2, <4>3
    <3> QED BY <3>1, <3>2
  <2>3. \E f : \A s \in SUBSET S : Cardinality(s) =< n + 1 => f[s] = Rhs(f, s)
    <3> HIDE DEF h
    <3> QED BY <2>2
  <2> HIDE DEF Rhs
  <2> QED BY <2>3
<1>4. Cardinality(S) \in N
  <2>1. Nat \subseteq N
    <3> HIDE DEF N
    <3> QED BY <1>2, <1>3, NatSetInduction
  <2> QED BY <1>1, <2>1
<1>5. PICK g : \A s \in SUBSET S : Cardinality(s) =< Cardinality(S) => g[s] = Rhs(g, s)
  BY <1>4
<1> DEFINE h == [s \in SUBSET S |-> g[s]]
<1>6. \A s \in SUBSET S : h[s] = Rhs(h, s)
  <2>1. \A s \in SUBSET S : Cardinality(s) =< Cardinality(S)
    BY FS_Subset
  <2>2. \A s \in SUBSET S : s \ {pick[s]} \in SUBSET S
    OBVIOUS
  <2> QED BY <1>5, <2>1, <2>2
<1>7. IsFold(h, base, step, pick, S)
  BY <1>6 DEF IsFold
<1> QED BY <1>7

(* Two folds with the same step agree wherever both are defined. *)
LEMMA FoldUnique ==
  ASSUME NEW S, IsFiniteSet(S), NEW base, NEW step, NEW pick,
         \A T \in SUBSET S : T # {} => pick[T] \in T,
         NEW g, IsFold(g, base, step, pick, S),
         NEW U \in SUBSET S, NEW h, IsFold(h, base, step, pick, U)
  PROVE  \A T \in SUBSET U : g[T] = h[T]
<1> DEFINE P == {T \in SUBSET U : g[T] = h[T]}
<1>1. IsFiniteSet(U)
  BY FS_Subset
<1>2. {} \in P
  BY DEF IsFold
<1>3. ASSUME NEW T \in SUBSET U, T # {}, \A x \in T : T \ {x} \in P PROVE T \in P
  <2>1. pick[T] \in T /\ g[T \ {pick[T]}] = h[T \ {pick[T]}]
    BY <1>3
  <2>2. g[T] = step[pick[T]][g[T \ {pick[T]}]] /\ h[T] = step[pick[T]][h[T \ {pick[T]}]]
    BY <1>3 DEF IsFold
  <2> QED BY <2>1, <2>2
<1>4. \A T \in SUBSET U : T \in P
  <2> HIDE DEF P
  <2> QED BY <1>1, <1>2, <1>3, SubsetInduction
<1> QED BY <1>4

-------------------------------------------------------------------------------
(* Sums.                                                                   *)

(* An integer for every element of S. *)
Ints(f, S) == \A x \in S : f[x] \in Int

Adding(f, S) == [x \in S |-> [v \in Int |-> f[x] + v]]
AnyElement(S) == [s \in SUBSET S |-> CHOOSE x \in s : TRUE]

(* What the recursion inside SumFunctionOnSet says. *)
SumsUp(g, f, S) ==
  g = [s \in SUBSET S |-> IF s = {} THEN 0
                           ELSE f[CHOOSE x \in s : TRUE] + g[s \ {CHOOSE x \in s : TRUE}]]

LEMMA SumIsRecursive ==
  ASSUME NEW f, NEW S
  PROVE  SumFunctionOnSet(f, S) = (CHOOSE g : SumsUp(g, f, S))[S]
BY DEF SumFunctionOnSet, FoldFunctionOnSet, MapThenFoldSet, SumsUp

(* A function that sums up has integer values, and is a fold. *)
LEMMA SumsUpInt ==
  ASSUME NEW S, IsFiniteSet(S), NEW f, Ints(f, S), NEW g, SumsUp(g, f, S)
  PROVE  /\ \A T \in SUBSET S : g[T] \in Int
         /\ IsFold(g, 0, Adding(f, S), AnyElement(S), S)
<1> DEFINE P == {T \in SUBSET S : g[T] \in Int}
<1>1. \A T \in SUBSET S : T # {} => (CHOOSE x \in T : TRUE) \in T
  OBVIOUS
<1>2. \A T \in SUBSET S : g[T] = IF T = {} THEN 0
             ELSE f[CHOOSE x \in T : TRUE] + g[T \ {CHOOSE x \in T : TRUE}]
  BY DEF SumsUp
<1>3. {} \in P
  BY <1>2
<1>4. ASSUME NEW T \in SUBSET S, T # {}, \A x \in T : T \ {x} \in P PROVE T \in P
  <2> DEFINE x == CHOOSE x \in T : TRUE
  <2>1. x \in S /\ T \ {x} \in P /\ g[T] = f[x] + g[T \ {x}]
    BY <1>1, <1>2, <1>4
  <2> HIDE DEF x
  <2>2. f[x] \in Int /\ g[T \ {x}] \in Int
    BY <2>1 DEF Ints
  <2> QED BY <2>1, <2>2
<1>5. \A T \in SUBSET S : T \in P
  <2> HIDE DEF P
  <2> QED BY <1>3, <1>4, SubsetInduction
<1>6. \A T \in SUBSET S : T # {} =>
         Adding(f, S)[AnyElement(S)[T]][g[T \ {AnyElement(S)[T]}]]
           = f[CHOOSE x \in T : TRUE] + g[T \ {CHOOSE x \in T : TRUE}]
  BY <1>1, <1>5 DEF Adding, AnyElement
<1>7. IsFold(g, 0, Adding(f, S), AnyElement(S), S)
  BY <1>6 DEF IsFold, SumsUp
<1> QED BY <1>5, <1>7

(* There is one. *)
LEMMA SumExists ==
  ASSUME NEW S, IsFiniteSet(S), NEW f, Ints(f, S)
  PROVE  SumsUp(CHOOSE g : SumsUp(g, f, S), f, S)
<1>1. \A T \in SUBSET S : T # {} => AnyElement(S)[T] \in T
  BY DEF AnyElement
<1>2. PICK g : IsFold(g, 0, Adding(f, S), AnyElement(S), S)
  BY <1>1, FoldExists
<1> DEFINE P == {T \in SUBSET S : g[T] \in Int}
<1>3. \A T \in SUBSET S : g[T] = IF T = {} THEN 0
             ELSE Adding(f, S)[AnyElement(S)[T]][g[T \ {AnyElement(S)[T]}]]
  BY <1>2 DEF IsFold
<1>4. ASSUME NEW T \in SUBSET S, T # {}, g[T \ {AnyElement(S)[T]}] \in Int
      PROVE  g[T] = f[CHOOSE x \in T : TRUE] + g[T \ {CHOOSE x \in T : TRUE}]
  <2>1. AnyElement(S)[T] = CHOOSE x \in T : TRUE
    BY DEF AnyElement
  <2>2. AnyElement(S)[T] \in S
    BY <1>1, <1>4
  <2> QED BY <1>3, <1>4, <2>1, <2>2 DEF Adding
<1>5. \A T \in SUBSET S : T \in P
  <2>1. {} \in P
    BY <1>3
  <2>2. ASSUME NEW T \in SUBSET S, T # {}, \A x \in T : T \ {x} \in P PROVE T \in P
    <3> DEFINE x == CHOOSE x \in T : TRUE
    <3>1. x \in T /\ AnyElement(S)[T] = x
      BY <1>1, <2>2 DEF AnyElement
    <3>2. g[T] = f[x] + g[T \ {x}]
      BY <1>4, <2>2, <3>1
    <3> HIDE DEF x
    <3>3. f[x] \in Int /\ g[T \ {x}] \in Int
      BY <2>2, <3>1 DEF Ints
    <3> QED BY <3>2, <3>3
  <2> HIDE DEF P
  <2> QED BY <2>1, <2>2, SubsetInduction
<1>6. SumsUp(g, f, S)
  <2>1. \A T \in SUBSET S : g[T] = IF T = {} THEN 0
             ELSE f[CHOOSE x \in T : TRUE] + g[T \ {CHOOSE x \in T : TRUE}]
    <3>1. \A T \in SUBSET S : T # {} => g[T \ {AnyElement(S)[T]}] \in Int
      BY <1>5
    <3> QED BY <1>3, <1>4, <3>1
  <2>2. g = [s \in SUBSET S |-> g[s]]
    BY <1>2 DEF IsFold
  <2> QED BY <2>1, <2>2 DEF SumsUp
<1> QED BY <1>6

(* The sum of a set is an element more than the sum without it.  For the   *)
(* element the recursion picks, this is the recursion; any other element   *)
(* is in what the recursion leaves.                                        *)
LEMMA SumPicks ==
  ASSUME NEW S, IsFiniteSet(S), NEW f, Ints(f, S)
  PROVE  /\ SumFunctionOnSet(f, {}) = 0
         /\ SumFunctionOnSet(f, S) \in Int
         /\ S # {} => LET x == CHOOSE x \in S : TRUE
                      IN SumFunctionOnSet(f, S) = f[x] + SumFunctionOnSet(f, S \ {x})
<1> DEFINE G(T) == CHOOSE g : SumsUp(g, f, T)
<1>1. ASSUME NEW T \in SUBSET S
      PROVE  /\ SumsUp(G(T), f, T) /\ SumFunctionOnSet(f, T) = G(T)[T]
             /\ G(T)[T] = G(S)[T] /\ G(S)[T] \in Int
  <2>1. IsFiniteSet(T) /\ Ints(f, T)
    BY FS_Subset DEF Ints
  <2>2. SumsUp(G(T), f, T) /\ SumsUp(G(S), f, S)
    BY <2>1, SumExists
  <2>3. SumFunctionOnSet(f, T) = G(T)[T]
    BY SumIsRecursive
  <2> HIDE DEF G
  <2>4. IsFold(G(S), 0, Adding(f, S), AnyElement(S), S) /\ G(S)[T] \in Int
    BY <2>2, SumsUpInt
  <2>5. IsFold(G(T), 0, Adding(f, T), AnyElement(T), T)
    BY <2>1, <2>2, SumsUpInt
  <2>6. IsFold(G(T), 0, Adding(f, S), AnyElement(S), T)
    <3>1. \A s \in SUBSET T : s # {} =>
             AnyElement(T)[s] = AnyElement(S)[s] /\ AnyElement(T)[s] \in T
      BY DEF AnyElement
    <3>2. \A x \in T : Adding(f, T)[x] = Adding(f, S)[x]
      BY DEF Adding
    <3>3. \A s \in SUBSET T : s # {} =>
             Adding(f, T)[AnyElement(T)[s]][G(T)[s \ {AnyElement(T)[s]}]]
               = Adding(f, S)[AnyElement(S)[s]][G(T)[s \ {AnyElement(S)[s]}]]
      BY <3>1, <3>2
    <3> QED BY <2>5, <3>3 DEF IsFold
  <2>7. \A s \in SUBSET S : s # {} => AnyElement(S)[s] \in s
    BY DEF AnyElement
  <2>8. G(S)[T] = G(T)[T]
    BY <2>4, <2>6, <2>7, FoldUnique
  <2> QED BY <2>2, <2>3, <2>4, <2>8
<1> HIDE DEF G
<1>2. \A T \in SUBSET S : SumFunctionOnSet(f, T) = G(S)[T] /\ G(S)[T] \in Int
  BY <1>1
<1>3. \A T \in SUBSET S : G(S)[T] = IF T = {} THEN 0
             ELSE f[CHOOSE x \in T : TRUE] + G(S)[T \ {CHOOSE x \in T : TRUE}]
  <2>1. SumsUp(G(S), f, S)
    BY <1>1
  <2> QED BY <2>1 DEF SumsUp
<1> QED BY <1>2, <1>3

THEOREM SumEmpty == \A f : SumFunctionOnSet(f, {}) = 0
BY SumPicks, FS_EmptySet DEF Ints

THEOREM SumInt ==
  ASSUME NEW S, IsFiniteSet(S), NEW f, Ints(f, S)
  PROVE  SumFunctionOnSet(f, S) \in Int
BY SumPicks

THEOREM SumRemove ==
  ASSUME NEW S, IsFiniteSet(S), NEW f, Ints(f, S)
  PROVE  \A x \in S : SumFunctionOnSet(f, S) = f[x] + SumFunctionOnSet(f, S \ {x})
<1> DEFINE Sum(T) == SumFunctionOnSet(f, T)
           P == {T \in SUBSET S : \A x \in T : Sum(T) = f[x] + Sum(T \ {x})}
<1>1. \A T \in SUBSET S : IsFiniteSet(T) /\ Ints(f, T) /\ Sum(T) \in Int
  BY FS_Subset, SumPicks DEF Ints
<1>2. ASSUME NEW T \in SUBSET S, T # {}, \A x \in T : T \ {x} \in P,
             NEW x \in T
      PROVE  Sum(T) = f[x] + Sum(T \ {x})
  <2>1. PICK p \in T : Sum(T) = f[p] + Sum(T \ {p})
    <3> DEFINE q == CHOOSE x_1 \in T : TRUE
    <3>1. q \in T /\ Sum(T) = f[q] + Sum(T \ {q})
      BY <1>1, <1>2, SumPicks
    <3> HIDE DEF q
    <3> QED BY <3>1
  <2>2. CASE p = x
    BY <2>1, <2>2
  <2>3. CASE p # x
    <3>1. Sum(T \ {p}) = f[x] + Sum((T \ {p}) \ {x})
      BY <1>2, <2>3
    <3>2. (T \ {p}) \ {x} = (T \ {x}) \ {p} /\ (T \ {p}) \ {x} \in SUBSET S
      OBVIOUS
    <3>3. Sum(T \ {x}) = f[p] + Sum((T \ {p}) \ {x})
      BY <1>2, <2>3, <3>2
    <3>4. f[p] \in Int /\ f[x] \in Int /\ Sum((T \ {p}) \ {x}) \in Int
      BY <1>1, <3>2 DEF Ints
    <3> DEFINE rest == Sum((T \ {p}) \ {x})
    <3> HIDE DEF Sum, rest
    <3>5. Sum(T \ {p}) = f[x] + rest /\ Sum(T \ {x}) = f[p] + rest /\ rest \in Int
      BY <3>1, <3>3, <3>4 DEF rest
    <3> QED BY <2>1, <3>4, <3>5
  <2> QED BY <2>2, <2>3
<1>3. \A T \in SUBSET S : T \in P
  <2> HIDE DEF Sum
  <2>1. {} \in P
    OBVIOUS
  <2>2. \A T \in SUBSET S : T # {} /\ (\A x \in T : T \ {x} \in P) => T \in P
    BY <1>2
  <2> HIDE DEF P
  <2> QED BY <2>1, <2>2, SubsetInduction
<1> QED BY <1>3

(* One element more. *)
THEOREM SumAdd ==
  ASSUME NEW S, IsFiniteSet(S), NEW x, x \notin S, NEW f, Ints(f, S \union {x})
  PROVE  SumFunctionOnSet(f, S \union {x}) = SumFunctionOnSet(f, S) + f[x]
<1> DEFINE T == S \union {x}
<1>1. IsFiniteSet(T) /\ T \ {x} = S /\ f[x] \in Int /\ Ints(f, S)
  BY FS_AddElement DEF Ints
<1>2. SumFunctionOnSet(f, T) = f[x] + SumFunctionOnSet(f, S)
  <2>1. SumFunctionOnSet(f, T) = f[x] + SumFunctionOnSet(f, T \ {x})
    BY <1>1, SumRemove
  <2> HIDE DEF T
  <2> QED BY <1>1, <2>1
<1>3. SumFunctionOnSet(f, S) \in Int
  BY <1>1, SumInt
<1> QED BY <1>1, <1>2, <1>3

(* Only the values on the set count. *)
THEOREM SumSame ==
  ASSUME NEW S, IsFiniteSet(S), NEW f, Ints(f, S), NEW g, \A x \in S : g[x] = f[x]
  PROVE  SumFunctionOnSet(g, S) = SumFunctionOnSet(f, S)
<1> DEFINE P == {T \in SUBSET S : SumFunctionOnSet(g, T) = SumFunctionOnSet(f, T)}
<1>1. {} \in P
  BY SumEmpty
<1>2. ASSUME NEW T \in SUBSET S, T # {}, \A x \in T : T \ {x} \in P PROVE T \in P
  <2>1. PICK x \in T : TRUE
    BY <1>2
  <2>2. IsFiniteSet(T) /\ Ints(f, T) /\ Ints(g, T)
    BY FS_Subset DEF Ints
  <2>3. /\ SumFunctionOnSet(f, T) = f[x] + SumFunctionOnSet(f, T \ {x})
        /\ SumFunctionOnSet(g, T) = g[x] + SumFunctionOnSet(g, T \ {x})
    BY <2>2, SumRemove
  <2> QED BY <1>2, <2>1, <2>3
<1>3. \A T \in SUBSET S : T \in P
  <2> HIDE DEF P
  <2> QED BY <1>1, <1>2, SubsetInduction
<1> QED BY <1>3

(* One value changes. *)
THEOREM SumChange ==
  ASSUME NEW S, IsFiniteSet(S), NEW f, Ints(f, S), NEW x \in S,
         NEW g, g[x] \in Int, \A y \in S \ {x} : g[y] = f[y]
  PROVE  SumFunctionOnSet(g, S) = SumFunctionOnSet(f, S) - f[x] + g[x]
<1>1. IsFiniteSet(S \ {x}) /\ Ints(f, S \ {x}) /\ Ints(g, S) /\ f[x] \in Int
  BY FS_RemoveElement DEF Ints
<1>2. SumFunctionOnSet(g, S \ {x}) = SumFunctionOnSet(f, S \ {x})
  BY <1>1, SumSame
<1>3. /\ SumFunctionOnSet(f, S) = f[x] + SumFunctionOnSet(f, S \ {x})
      /\ SumFunctionOnSet(g, S) = g[x] + SumFunctionOnSet(g, S \ {x})
      /\ SumFunctionOnSet(f, S \ {x}) \in Int
  BY <1>1, SumRemove, SumInt
<1> QED BY <1>1, <1>2, <1>3

(* Two parts. *)
THEOREM SumUnion ==
  ASSUME NEW S, IsFiniteSet(S), NEW T, IsFiniteSet(T), S \intersect T = {},
         NEW f, Ints(f, S \union T)
  PROVE  SumFunctionOnSet(f, S \union T) = SumFunctionOnSet(f, S) + SumFunctionOnSet(f, T)
<1> DEFINE Sum(U) == SumFunctionOnSet(f, U)
           P == {U \in SUBSET T : Sum(S \union U) = Sum(S) + Sum(U)}
<1>1. \A U \in SUBSET T : /\ IsFiniteSet(U) /\ Ints(f, U) /\ Sum(U) \in Int
                          /\ IsFiniteSet(S \union U) /\ Ints(f, S \union U)
  <2>1. \A U \in SUBSET T : IsFiniteSet(U) /\ IsFiniteSet(S \union U)
    BY FS_Subset, FS_Union
  <2>2. \A U \in SUBSET T : Ints(f, U) /\ Ints(f, S \union U)
    BY DEF Ints
  <2> QED BY <2>1, <2>2, SumInt
<1>2. Sum(S) \in Int
  <2>1. Ints(f, S)
    BY DEF Ints
  <2> QED BY <2>1, SumInt
<1>3. {} \in P
  <2>1. S \union {} = S /\ Sum({}) = 0
    BY SumEmpty
  <2> HIDE DEF Sum
  <2> QED BY <1>2, <2>1
<1>4. ASSUME NEW U \in SUBSET T, U # {}, \A x \in U : U \ {x} \in P PROVE U \in P
  <2>1. PICK x \in U : TRUE
    BY <1>4
  <2>2. Sum(U) = f[x] + Sum(U \ {x})
    BY <1>1, SumRemove
  <2>3. Sum(S \union U) = f[x] + Sum((S \union U) \ {x})
    BY <1>1, SumRemove
  <2>4. (S \union U) \ {x} = S \union (U \ {x})
    OBVIOUS
  <2>5. f[x] \in Int /\ Sum(U \ {x}) \in Int
    BY <1>1 DEF Ints
  <2>6. Sum(S \union (U \ {x})) = Sum(S) + Sum(U \ {x})
    BY <1>4, <2>1
  <2>7. Sum(S \union U) = f[x] + Sum(S \union (U \ {x}))
    BY <2>3, <2>4
  <2>8. Sum(S \union U) = Sum(S) + Sum(U)
    <3> HIDE DEF Sum
    <3> QED BY <1>2, <2>2, <2>5, <2>6, <2>7
  <2> QED BY <2>8
<1>5. \A U \in SUBSET T : U \in P
  <2> HIDE DEF P
  <2> QED BY <1>3, <1>4, SubsetInduction
<1> QED BY <1>5

(* Sums of naturals grow with the set. *)
THEOREM SumNat ==
  ASSUME NEW S, IsFiniteSet(S), NEW f, \A x \in S : f[x] \in Nat
  PROVE  /\ SumFunctionOnSet(f, S) \in Nat
         /\ \A T \in SUBSET S : SumFunctionOnSet(f, T) =< SumFunctionOnSet(f, S)
         /\ \A x \in S : f[x] =< SumFunctionOnSet(f, S)
         /\ (\A x \in S : f[x] = 0) => SumFunctionOnSet(f, S) = 0
<1> DEFINE Sum(T) == SumFunctionOnSet(f, T)
           P == {T \in SUBSET S : Sum(T) \in Nat /\ ((\A x \in T : f[x] = 0) => Sum(T) = 0)}
<1>1. \A T \in SUBSET S : IsFiniteSet(T) /\ Ints(f, T)
  BY FS_Subset DEF Ints
<1>2. {} \in P
  BY SumEmpty
<1>3. ASSUME NEW T \in SUBSET S, T # {}, \A x \in T : T \ {x} \in P PROVE T \in P
  <2>1. PICK x \in T : TRUE
    BY <1>3
  <2>2. Sum(T) = f[x] + Sum(T \ {x})
    BY <1>1, SumRemove
  <2>3. Sum(T \ {x}) \in Nat /\ ((\A y \in T \ {x} : f[y] = 0) => Sum(T \ {x}) = 0)
    BY <1>3, <2>1
  <2> HIDE DEF Sum
  <2>4. f[x] \in Nat
    OBVIOUS
  <2> QED BY <2>2, <2>3, <2>4
<1>4. \A T \in SUBSET S : T \in P
  <2> HIDE DEF P
  <2> QED BY <1>2, <1>3, SubsetInduction
<1>5. ASSUME NEW T \in SUBSET S PROVE Sum(T) =< Sum(S)
  <2>1. /\ T \intersect (S \ T) = {} /\ T \union (S \ T) = S
        /\ IsFiniteSet(T) /\ IsFiniteSet(S \ T) /\ Ints(f, S)
    BY <1>1
  <2>2. Sum(S) = Sum(T) + Sum(S \ T)
    <3>1. Sum(T \union (S \ T)) = Sum(T) + Sum(S \ T)
      BY <2>1, SumUnion
    <3> HIDE DEF Sum
    <3> QED BY <2>1, <3>1
  <2>3. Sum(T) \in Nat /\ Sum(S \ T) \in Nat
    BY <1>4
  <2> HIDE DEF Sum
  <2> QED BY <2>1, <2>2, <2>3
<1>6. ASSUME NEW x \in S PROVE f[x] =< Sum(S)
  <2>1. Sum(S) = f[x] + Sum(S \ {x}) /\ Sum(S \ {x}) \in Nat
    BY <1>1, <1>4, SumRemove
  <2> HIDE DEF Sum
  <2>2. f[x] \in Nat
    OBVIOUS
  <2> QED BY <2>1, <2>2
<1> QED BY <1>4, <1>5, <1>6

(* One element joins or leaves the set, or changes its value. *)
THEOREM SumReweigh ==
  ASSUME NEW S, IsFiniteSet(S), NEW T, IsFiniteSet(T), NEW x, S \ {x} = T \ {x},
         NEW f, Ints(f, S), NEW g, Ints(g, T), \A y \in S \ {x} : g[y] = f[y]
  PROVE  SumFunctionOnSet(g, T) = SumFunctionOnSet(f, S)
           - (IF x \in S THEN f[x] ELSE 0) + (IF x \in T THEN g[x] ELSE 0)
<1> DEFINE R == S \ {x}
<1>1. IsFiniteSet(R) /\ Ints(f, R) /\ Ints(g, R)
  BY FS_Subset DEF Ints
<1>2. SumFunctionOnSet(g, R) = SumFunctionOnSet(f, R) /\ SumFunctionOnSet(f, R) \in Int
  BY <1>1, SumSame, SumInt
<1>3. SumFunctionOnSet(f, S) = SumFunctionOnSet(f, R) + (IF x \in S THEN f[x] ELSE 0)
  <2>1. CASE x \in S
    <3>1. SumFunctionOnSet(f, S) = f[x] + SumFunctionOnSet(f, R)
      BY <2>1, SumRemove
    <3> QED BY <1>2, <2>1, <3>1 DEF Ints
  <2>2. CASE x \notin S
    <3>1. R = S
      BY <2>2
    <3> HIDE DEF R
    <3> QED BY <1>2, <2>2, <3>1
  <2> QED BY <2>1, <2>2
<1>4. SumFunctionOnSet(g, T) = SumFunctionOnSet(g, R) + (IF x \in T THEN g[x] ELSE 0)
  <2>1. CASE x \in T
    <3>1. SumFunctionOnSet(g, T) = g[x] + SumFunctionOnSet(g, T \ {x})
      BY <2>1, SumRemove
    <3>2. SumFunctionOnSet(g, T) = g[x] + SumFunctionOnSet(g, R)
      BY <3>1
    <3> QED BY <1>2, <2>1, <3>2 DEF Ints
  <2>2. CASE x \notin T
    <3>1. R = T
      BY <2>2
    <3> HIDE DEF R
    <3> QED BY <1>2, <2>2, <3>1
  <2> QED BY <2>1, <2>2
<1>5. /\ (IF x \in S THEN f[x] ELSE 0) \in Int
      /\ (IF x \in T THEN g[x] ELSE 0) \in Int
  BY DEF Ints
<1> HIDE DEF R
<1> QED BY <1>2, <1>3, <1>4, <1>5

(* Counting is summing ones, and values that are not 0 sum to no less. *)
THEOREM SumCounts ==
  ASSUME NEW S, IsFiniteSet(S), NEW f, \A x \in S : f[x] \in Nat
  PROVE  /\ (\A x \in S : f[x] = 1) => SumFunctionOnSet(f, S) = Cardinality(S)
         /\ (\A x \in S : f[x] # 0) => SumFunctionOnSet(f, S) >= Cardinality(S)
<1> DEFINE P == {T \in SUBSET S :
                   /\ (\A x \in S : f[x] = 1) => SumFunctionOnSet(f, T) = Cardinality(T)
                   /\ (\A x \in S : f[x] # 0) => SumFunctionOnSet(f, T) >= Cardinality(T)}
<1>1. {} \in P
  BY SumEmpty, FS_EmptySet
<1>2. ASSUME NEW T \in SUBSET S, T # {}, \A x \in T : T \ {x} \in P PROVE T \in P
  <2>1. PICK x \in T : TRUE
    BY <1>2
  <2>2. IsFiniteSet(T) /\ Ints(f, T) /\ f[x] \in Nat
    BY FS_Subset DEF Ints
  <2>3. SumFunctionOnSet(f, T) = f[x] + SumFunctionOnSet(f, T \ {x})
    BY <2>2, SumRemove
  <2>4. /\ Cardinality(T \ {x}) = Cardinality(T) - 1 /\ Cardinality(T) \in Nat
        /\ SumFunctionOnSet(f, T \ {x}) \in Nat
    BY <2>2, RemoveOne, FS_Subset, SumNat
  <2>5. T \ {x} \in P
    BY <1>2
  <2> DEFINE c == SumFunctionOnSet(f, T \ {x})
             m == SumFunctionOnSet(f, T)
  <2>6. /\ (\A y \in S : f[y] = 1) => c = Cardinality(T) - 1
        /\ (\A y \in S : f[y] # 0) => c >= Cardinality(T) - 1
        /\ m = f[x] + c /\ c \in Nat
    BY <2>3, <2>4, <2>5
  <2> HIDE DEF c, m
  <2>7. /\ (\A y \in S : f[y] = 1) => m = Cardinality(T)
        /\ (\A y \in S : f[y] # 0) => m >= Cardinality(T)
    BY <2>2, <2>4, <2>6
  <2> QED BY <2>7 DEF m
<1>3. \A T \in SUBSET S : T \in P
  <2> HIDE DEF P
  <2> QED BY <1>1, <1>2, SubsetInduction
<1> QED BY <1>3

(* Smaller values make a smaller sum. *)
THEOREM SumLeq ==
  ASSUME NEW S, IsFiniteSet(S), NEW f, Ints(f, S), NEW g, Ints(g, S),
         \A x \in S : f[x] =< g[x]
  PROVE  SumFunctionOnSet(f, S) =< SumFunctionOnSet(g, S)
<1> DEFINE P == {T \in SUBSET S : SumFunctionOnSet(f, T) =< SumFunctionOnSet(g, T)}
<1>1. {} \in P
  BY SumEmpty
<1>2. ASSUME NEW T \in SUBSET S, T # {}, \A x \in T : T \ {x} \in P PROVE T \in P
  <2>1. PICK x \in T : TRUE
    BY <1>2
  <2>2. IsFiniteSet(T) /\ Ints(f, T) /\ Ints(g, T)
    BY FS_Subset DEF Ints
  <2>3. IsFiniteSet(T \ {x}) /\ Ints(f, T \ {x}) /\ Ints(g, T \ {x})
    BY <2>2, FS_Subset DEF Ints
  <2> DEFINE m == SumFunctionOnSet(f, T \ {x})
             n == SumFunctionOnSet(g, T \ {x})
  <2>4. /\ SumFunctionOnSet(f, T) = f[x] + m /\ SumFunctionOnSet(g, T) = g[x] + n
        /\ m \in Int /\ n \in Int /\ m =< n
    BY <1>2, <2>2, <2>3, SumRemove, SumInt
  <2>5. f[x] \in Int /\ g[x] \in Int /\ f[x] =< g[x]
    BY DEF Ints
  <2> HIDE DEF m, n
  <2>6. f[x] + m =< g[x] + n
    BY <2>4, <2>5
  <2> QED BY <2>4, <2>6
<1>3. \A T \in SUBSET S : T \in P
  <2> HIDE DEF P
  <2> QED BY <1>1, <1>2, SubsetInduction
<1> QED BY <1>3

(* A sum of n terms that are at most m each is at most n * m. *)
THEOREM SumMost ==
  ASSUME NEW S, IsFiniteSet(S), NEW most \in Nat, NEW f, \A x \in S : f[x] \in Nat /\ f[x] =< most
  PROVE  SumFunctionOnSet(f, S) \in Nat /\ SumFunctionOnSet(f, S) =< Cardinality(S) * most
<1> DEFINE P == {T \in SUBSET S : SumFunctionOnSet(f, T) =< Cardinality(T) * most}
<1>1. \A T \in SUBSET S : IsFiniteSet(T) /\ Cardinality(T) \in Nat /\ SumFunctionOnSet(f, T) \in Nat
  BY FS_Subset, FS_CardinalityType, SumNat
<1>2. {} \in P
  BY SumEmpty, FS_EmptySet
<1>3. ASSUME NEW T \in SUBSET S, T # {}, \A x \in T : T \ {x} \in P
      PROVE  T \in P
  <2>1. PICK x \in T : T \ {x} \in P
    BY <1>3
  <2> DEFINE a == SumFunctionOnSet(f, T \ {x})
             b == SumFunctionOnSet(f, T)
             n == Cardinality(T \ {x})
             m == Cardinality(T)
  <2>2. n = m - 1 /\ n \in Nat /\ m \in Nat
    BY <1>1, RemoveOne
  <2>3. b = f[x] + a
    <3>1. IsFiniteSet(T) /\ Ints(f, T)
      BY <1>1 DEF Ints
    <3> QED BY <3>1, SumRemove
  <2>4. a =< n * most /\ a \in Nat /\ f[x] \in Nat /\ f[x] =< most
    BY <1>1, <2>1
  <2> HIDE DEF a, b, n, m
  <2>5. m * most = n * most + most
    BY <2>2
  <2>6. n * most \in Nat /\ m * most \in Nat
    BY <2>2
  <2>7. b =< m * most
    BY <2>3, <2>4, <2>5, <2>6
  <2> QED BY <2>7 DEF b, m
<1> HIDE DEF P
<1>4. \A T \in SUBSET S : T \in P
  BY <1>2, <1>3, SubsetInduction
<1> QED BY <1>1, <1>4 DEF P

(* A sum over places is the sum over what is there, if it is there once.   *)
THEOREM SumImage ==
  ASSUME NEW S, IsFiniteSet(S), NEW h, \A i, j \in S : h[i] = h[j] => i = j,
         NEW f, Ints(f, S), NEW w, \A i \in S : f[i] = w[h[i]]
  PROVE  /\ IsFiniteSet({h[i] : i \in S})
         /\ SumFunctionOnSet(f, S) = SumFunctionOnSet(w, {h[i] : i \in S})
<1> DEFINE Image(T) == {h[i] : i \in T}
           P == {T \in SUBSET S : /\ IsFiniteSet(Image(T))
                                  /\ SumFunctionOnSet(f, T) = SumFunctionOnSet(w, Image(T))}
<1>1. {} \in P
  <2>1. Image({}) = {}
    OBVIOUS
  <2> QED BY <2>1, SumEmpty, FS_EmptySet
<1>2. ASSUME NEW T \in SUBSET S, T # {}, \A x \in T : T \ {x} \in P PROVE T \in P
  <2>1. PICK x \in T : TRUE
    BY <1>2
  <2> DEFINE U == T \ {x}
  <2>2. IsFiniteSet(U) /\ IsFiniteSet(T) /\ Ints(f, T)
    BY FS_Subset DEF Ints
  <2>3. SumFunctionOnSet(f, T) = f[x] + SumFunctionOnSet(f, U)
    BY <2>2, SumRemove
  <2>4. Image(T) = Image(U) \union {h[x]} /\ h[x] \notin Image(U)
    OBVIOUS
  <2>5. IsFiniteSet(Image(U)) /\ SumFunctionOnSet(f, U) = SumFunctionOnSet(w, Image(U))
    BY <1>2
  <2>6. Ints(w, Image(U) \union {h[x]}) /\ w[h[x]] = f[x] /\ f[x] \in Int
    BY DEF Ints
  <2> HIDE DEF Image, U
  <2>7. SumFunctionOnSet(w, Image(T)) = SumFunctionOnSet(w, Image(U)) + w[h[x]]
    BY <2>4, <2>5, <2>6, SumAdd
  <2>8. SumFunctionOnSet(f, U) \in Int
    <3>1. Ints(f, U)
      BY <2>2 DEF Ints, U
    <3> QED BY <2>2, <3>1, SumInt
  <2>9. SumFunctionOnSet(f, T) = SumFunctionOnSet(w, Image(T))
    <3> DEFINE a == SumFunctionOnSet(f, U)
               b == f[x]
    <3> HIDE DEF a, b
    <3>1. a \in Int /\ b \in Int
      BY <2>6, <2>8 DEF a, b
    <3>2. SumFunctionOnSet(f, T) = b + a /\ SumFunctionOnSet(w, Image(T)) = a + b
      BY <2>3, <2>5, <2>6, <2>7 DEF a, b
    <3> QED BY <3>1, <3>2
  <2>10. IsFiniteSet(Image(T))
    BY <2>4, <2>5, FS_AddElement
  <2> QED BY <2>9, <2>10
<1>3. \A T \in SUBSET S : T \in P
  <2> HIDE DEF P
  <2> QED BY <1>1, <1>2, SubsetInduction
<1> QED BY <1>3

-------------------------------------------------------------------------------
(* Queues.                                                                 *)

(* x is in front of y. *)
Before(s, x, y) == \E i, j \in DOMAIN s : i < j /\ s[i] = x /\ s[j] = y

-------------------------------------------------------------------------------
(* Functions by recursion over 0 .. n exist. *)
IsIteration(g, base, step, n) ==
  g = [i \in 0 .. n |-> IF i = 0 THEN base ELSE step[i][g[i - 1]]]

LEMMA IterationExists ==
  ASSUME NEW n \in Nat, NEW base, NEW step
  PROVE  \E g : IsIteration(g, base, step, n)
<1> DEFINE Rhs(g, i) == IF i = 0 THEN base ELSE step[i][g[i - 1]]
           N == {m \in Nat : \E g : \A i \in 0 .. m : g[i] = Rhs(g, i)}
<1>1. 0 \in N
  <2>1. \A i \in 0 .. 0 : [j \in 0 .. 0 |-> base][i] = Rhs([j \in 0 .. 0 |-> base], i)
    OBVIOUS
  <2> QED BY <2>1
<1>2. ASSUME NEW m \in Nat, m \in N PROVE m + 1 \in N
  <2>1. PICK g : \A i \in 0 .. m : g[i] = Rhs(g, i)
    BY <1>2
  <2> DEFINE h == [i \in 0 .. m + 1 |-> IF i = m + 1 THEN step[i][g[m]] ELSE g[i]]
  <2>2. \A i \in 0 .. m + 1 : h[i] = Rhs(h, i)
    BY <2>1
  <2>3. \E f : \A i \in 0 .. m + 1 : f[i] = Rhs(f, i)
    <3> HIDE DEF h
    <3> QED BY <2>2
  <2> HIDE DEF Rhs
  <2> QED BY <2>3
<1>3. n \in N
  <2>1. Nat \subseteq N
    <3> HIDE DEF N
    <3> QED BY <1>1, <1>2, NatSetInduction
  <2> QED BY <2>1
<1>4. PICK g : \A i \in 0 .. n : g[i] = Rhs(g, i)
  BY <1>3
<1> DEFINE h == [i \in 0 .. n |-> g[i]]
<1>5. \A i \in 0 .. n : h[i] = Rhs(h, i)
  BY <1>4
<1>6. IsIteration(h, base, step, n)
  BY <1>5 DEF IsIteration
<1> QED BY <1>6

-------------------------------------------------------------------------------
(* What the recursion inside Erase says. *)
IsLeft(g, s, E) ==
  g = [i \in 0 .. Len(s) |->
         IF i = 0 THEN <<>>
         ELSE IF s[i] \in E THEN g[i - 1] ELSE Append(g[i - 1], s[i])]

LEMMA EraseIsRecursive ==
  ASSUME NEW s, NEW E
  PROVE  Erase(s, E) = (CHOOSE g : IsLeft(g, s, E))[Len(s)]
BY DEF Erase, IsLeft

LEMMA LeftExists ==
  ASSUME NEW X, NEW s \in Seq(X), NEW E
  PROVE  IsLeft(CHOOSE g : IsLeft(g, s, E), s, E)
<1> DEFINE n == Len(s)
           step == [i \in 1 .. n |->
                     [v \in Seq(X) |-> IF s[i] \in E THEN v ELSE Append(v, s[i])]]
           base == <<>>
<1>0. /\ n \in Nat /\ base \in Seq(X)
      /\ \A i \in 1 .. n, v \in Seq(X) :
           step[i][v] = IF s[i] \in E THEN v ELSE Append(v, s[i])
  OBVIOUS
<1> HIDE DEF step, base
<1>1. PICK g : IsIteration(g, base, step, n)
  BY <1>0, IterationExists
<1>2. \A i \in 0 .. n : g[i] = IF i = 0 THEN base ELSE step[i][g[i - 1]]
  BY <1>1 DEF IsIteration
<1> DEFINE N == {i \in Nat : i =< n => g[i] \in Seq(X)}
<1>3. 0 \in N
  <2>1. g[0] = base
    BY <1>0, <1>2
  <2> QED BY <1>0, <2>1
<1>4. ASSUME NEW i \in Nat, i \in N PROVE i + 1 \in N
  <2> SUFFICES ASSUME i + 1 =< n PROVE g[i + 1] \in Seq(X)
    OBVIOUS
  <2>1. g[i] \in Seq(X) /\ i + 1 \in 1 .. n /\ (i + 1) - 1 = i /\ s[i + 1] \in X
    BY <1>4
  <2>2. g[i + 1] = step[i + 1][g[i]]
    BY <1>2, <2>1
  <2>3. g[i + 1] = IF s[i + 1] \in E THEN g[i] ELSE Append(g[i], s[i + 1])
    BY <1>0, <2>1, <2>2
  <2> QED BY <2>1, <2>3
<1>5. \A i \in 0 .. n : g[i] \in Seq(X)
  <2>1. Nat \subseteq N
    <3> HIDE DEF N
    <3> QED BY <1>3, <1>4, NatSetInduction
  <2> QED BY <2>1
<1>6. \A i \in 0 .. n : g[i] =
         IF i = 0 THEN <<>>
         ELSE IF s[i] \in E THEN g[i - 1] ELSE Append(g[i - 1], s[i])
  <2> TAKE i \in 0 .. n
  <2>1. CASE i = 0
    BY <1>2, <2>1 DEF base
  <2>2. CASE i # 0
    <3>1. i \in 1 .. n /\ i - 1 \in 0 .. n
      BY <2>2
    <3> QED BY <1>0, <1>2, <1>5, <2>2, <3>1
  <2> QED BY <2>1, <2>2
<1>7. IsLeft(g, s, E)
  BY <1>1, <1>6 DEF IsLeft, IsIteration
<1> QED BY <1>7

(* t is what is left of the first n elements of s: h gives, for every      *)
(* element of t, where it was.                                             *)
IsRest(t, h, s, E, n) ==
  /\ DOMAIN h = 1 .. Len(t)
  /\ \A m \in 1 .. Len(t) : h[m] \in 1 .. n /\ t[m] = s[h[m]] /\ s[h[m]] \notin E
  /\ \A l, m \in 1 .. Len(t) : l < m => h[l] < h[m]
  /\ \A i \in 1 .. n : s[i] \notin E => \E m \in 1 .. Len(t) : h[m] = i

LEMMA RestGrows ==
  ASSUME NEW X, NEW s \in Seq(X), NEW E, NEW n \in Nat, n + 1 =< Len(s),
         NEW t \in Seq(X), NEW h, IsRest(t, h, s, E, n)
  PROVE  \E g : IsRest(IF s[n + 1] \in E THEN t ELSE Append(t, s[n + 1]), g, s, E, n + 1)
<1>1. n + 1 \in 1 .. Len(s) /\ s[n + 1] \in X
  OBVIOUS
<1>2. CASE s[n + 1] \in E
  <2>1. IsRest(t, h, s, E, n + 1)
    BY <1>1, <1>2 DEF IsRest
  <2> QED BY <1>2, <2>1
<1>3. CASE s[n + 1] \notin E
  <2> DEFINE u == Append(t, s[n + 1])
             k == Len(t) + 1
             g == [m \in 1 .. k |-> IF m = k THEN n + 1 ELSE h[m]]
  <2>1. /\ Len(u) = k /\ k \in Nat /\ u[k] = s[n + 1]
        /\ \A m \in 1 .. Len(t) : u[m] = t[m]
    BY <1>1
  <2>2. /\ DOMAIN g = 1 .. k /\ g[k] = n + 1
        /\ \A m \in 1 .. Len(t) : g[m] = h[m] /\ h[m] \in 1 .. n
    BY <2>1 DEF IsRest
  <2>3. \A m \in 1 .. k : m = k \/ m \in 1 .. Len(t)
    BY <2>1
  <2> HIDE DEF u, g
  <2>4. \A m \in 1 .. k : g[m] \in 1 .. n + 1 /\ u[m] = s[g[m]] /\ s[g[m]] \notin E
    BY <1>3, <2>1, <2>2, <2>3 DEF IsRest
  <2>5. \A l, m \in 1 .. k : l < m => g[l] < g[m]
    <3> SUFFICES ASSUME NEW l \in 1 .. k, NEW m \in 1 .. k, l < m PROVE g[l] < g[m]
      OBVIOUS
    <3>1. l \in 1 .. Len(t)
      BY <2>1
    <3>2. CASE m = k
      BY <2>2, <3>1, <3>2
    <3>3. CASE m \in 1 .. Len(t)
      BY <2>2, <3>1, <3>3 DEF IsRest
    <3> QED BY <2>3, <3>2, <3>3
  <2>6. \A i \in 1 .. n + 1 : s[i] \notin E => \E m \in 1 .. k : g[m] = i
    <3> SUFFICES ASSUME NEW i \in 1 .. n + 1, s[i] \notin E PROVE \E m \in 1 .. k : g[m] = i
      OBVIOUS
    <3>1. CASE i = n + 1
      BY <2>1, <2>2, <3>1
    <3>2. CASE i \in 1 .. n
      <4>1. PICK m \in 1 .. Len(t) : h[m] = i
        BY <3>2 DEF IsRest
      <4> QED BY <2>1, <2>2, <4>1, SMTT(30)
    <3> QED BY <3>1, <3>2
  <2>7. IsRest(u, g, s, E, n + 1)
    BY <2>1, <2>2, <2>4, <2>5, <2>6 DEF IsRest
  <2> QED BY <1>3, <2>7 DEF u
<1> QED BY <1>2, <1>3

(* Erasing leaves the elements that are not erased, in their order. *)
THEOREM EraseLeaves ==
  ASSUME NEW X, NEW s \in Seq(X), NEW E
  PROVE  Erase(s, E) \in Seq(X) /\ \E h : IsRest(Erase(s, E), h, s, E, Len(s))
<1> DEFINE n == Len(s)
           left == CHOOSE g : IsLeft(g, s, E)
<1>1. IsLeft(left, s, E) /\ Erase(s, E) = left[n]
  BY LeftExists, EraseIsRecursive
<1> HIDE DEF left
<1> DEFINE N == {i \in Nat : i =< n => left[i] \in Seq(X) /\ \E h : IsRest(left[i], h, s, E, i)}
<1>2. 0 \in N
  <2>1. left[0] = <<>>
    BY <1>1 DEF IsLeft
  <2>2. IsRest(<<>>, [m \in 1 .. 0 |-> 0], s, E, 0)
    BY DEF IsRest
  <2>3. left[0] \in Seq(X) /\ IsRest(left[0], [m \in 1 .. 0 |-> 0], s, E, 0)
    BY <2>1, <2>2
  <2> QED BY <2>3
<1>3. ASSUME NEW i \in Nat, i \in N PROVE i + 1 \in N
  <2> SUFFICES ASSUME i + 1 =< n
               PROVE  left[i + 1] \in Seq(X) /\ \E h : IsRest(left[i + 1], h, s, E, i + 1)
    OBVIOUS
  <2>1. left[i] \in Seq(X) /\ \E h : IsRest(left[i], h, s, E, i)
    BY <1>3
  <2>2. left[i + 1] = IF s[i + 1] \in E THEN left[i] ELSE Append(left[i], s[i + 1])
    <3>1. i + 1 \in 0 .. n /\ i + 1 # 0 /\ (i + 1) - 1 = i
      OBVIOUS
    <3> QED BY <1>1, <3>1 DEF IsLeft
  <2>3. s[i + 1] \in X
    OBVIOUS
  <2>4. \E h : IsRest(left[i + 1], h, s, E, i + 1)
    BY <2>1, <2>2, RestGrows
  <2> QED BY <2>1, <2>2, <2>3, <2>4
<1>4. Nat \subseteq N
  <2> HIDE DEF N
  <2> QED BY <1>2, <1>3, NatSetInduction
<1> QED BY <1>1, <1>4

THEOREM EraseSet ==
  ASSUME NEW X, NEW s \in Seq(X), NEW E
  PROVE  Erase(s, E) \in Seq(X) /\ ToSet(Erase(s, E)) = ToSet(s) \ E
<1> DEFINE t == Erase(s, E)
<1>1. t \in Seq(X)
  BY EraseLeaves
<1>2. PICK h : IsRest(t, h, s, E, Len(s))
  BY EraseLeaves
<1>3. DOMAIN s = 1 .. Len(s) /\ DOMAIN t = 1 .. Len(t)
  BY <1>1
<1> HIDE DEF t
<1>4. ToSet(t) \subseteq ToSet(s) \ E
  BY <1>2, <1>3 DEF IsRest, ToSet
<1>5. ToSet(s) \ E \subseteq ToSet(t)
  BY <1>2, <1>3 DEF IsRest, ToSet
<1> QED BY <1>1, <1>4, <1>5 DEF t

THEOREM EraseDistinct ==
  ASSUME NEW X, NEW s \in Seq(X), NEW E, IsInjective(s)
  PROVE  IsInjective(Erase(s, E))
<1> DEFINE t == Erase(s, E)
<1>1. t \in Seq(X)
  BY EraseLeaves
<1>2. PICK h : IsRest(t, h, s, E, Len(s))
  BY EraseLeaves
<1>3. DOMAIN s = 1 .. Len(s) /\ DOMAIN t = 1 .. Len(t) /\ Len(t) \in Nat
  BY <1>1
<1> HIDE DEF t
<1>4. \A l, m \in 1 .. Len(t) : l < m => t[l] # t[m]
  <2> SUFFICES ASSUME NEW l \in 1 .. Len(t), NEW m \in 1 .. Len(t), l < m PROVE t[l] # t[m]
    OBVIOUS
  <2>1. h[l] \in 1 .. Len(s) /\ h[m] \in 1 .. Len(s) /\ h[l] < h[m]
        /\ t[l] = s[h[l]] /\ t[m] = s[h[m]]
    BY <1>2 DEF IsRest
  <2> QED BY <1>3, <2>1 DEF IsInjective
<1>5. \A l, m \in 1 .. Len(t) : l # m => l < m \/ m < l
  BY <1>3
<1>6. IsInjective(t)
  BY <1>3, <1>4, <1>5 DEF IsInjective
<1> QED BY <1>6 DEF t

THEOREM EraseOrder ==
  ASSUME NEW X, NEW s \in Seq(X), NEW E, NEW x, x \notin E, NEW y, y \notin E
  PROVE  Before(Erase(s, E), x, y) <=> Before(s, x, y)
<1> DEFINE t == Erase(s, E)
<1>1. t \in Seq(X)
  BY EraseLeaves
<1>2. PICK h : IsRest(t, h, s, E, Len(s))
  BY EraseLeaves
<1>3. DOMAIN s = 1 .. Len(s) /\ DOMAIN t = 1 .. Len(t) /\ Len(t) \in Nat /\ Len(s) \in Nat
  BY <1>1
<1> HIDE DEF t
<1>4. ASSUME Before(t, x, y) PROVE Before(s, x, y)
  <2>1. PICK l, m \in 1 .. Len(t) : l < m /\ t[l] = x /\ t[m] = y
    BY <1>3, <1>4 DEF Before
  <2>2. h[l] \in 1 .. Len(s) /\ h[m] \in 1 .. Len(s) /\ h[l] < h[m] /\ s[h[l]] = x /\ s[h[m]] = y
    BY <1>2, <2>1 DEF IsRest
  <2> QED BY <1>3, <2>2 DEF Before
<1>5. ASSUME Before(s, x, y) PROVE Before(t, x, y)
  <2>1. PICK i, j \in 1 .. Len(s) : i < j /\ s[i] = x /\ s[j] = y
    BY <1>3, <1>5 DEF Before
  <2>2. PICK l \in 1 .. Len(t) : h[l] = i
    BY <1>2, <2>1 DEF IsRest
  <2>3. PICK m \in 1 .. Len(t) : h[m] = j
    BY <1>2, <2>1 DEF IsRest
  <2>4. t[l] = x /\ t[m] = y
    BY <1>2, <2>1, <2>2, <2>3 DEF IsRest
  <2>5. l < m
    <3>1. m < l => h[m] < h[l]
      BY <1>2 DEF IsRest
    <3>2. l # m /\ ~ (m < l)
      BY <2>1, <2>2, <2>3, <3>1
    <3> QED BY <1>3, <3>2
  <2> QED BY <1>3, <2>4, <2>5 DEF Before
<1> QED BY <1>4, <1>5 DEF t

THEOREM KeepSet ==
  ASSUME NEW X, NEW s \in Seq(X), NEW K
  PROVE  Keep(s, K) \in Seq(X) /\ ToSet(Keep(s, K)) = ToSet(s) \intersect K
BY EraseSet DEF Keep

-------------------------------------------------------------------------------
(* A queue holds each of its elements once if it is as long as there are   *)
(* elements in it.                                                         *)
THEOREM DistinctLength ==
  ASSUME NEW X, NEW s \in Seq(X)
  PROVE  /\ IsFiniteSet(ToSet(s)) /\ Cardinality(ToSet(s)) \in Nat
         /\ IsInjective(s) <=> Len(s) = Cardinality(ToSet(s))
<1> DEFINE D == 1 .. Len(s)
<1>1. IsFiniteSet(D) /\ Cardinality(D) = Len(s)
  <2>1. Len(s) \in Nat
    OBVIOUS
  <2> QED BY <2>1, FS_Interval
<1>2. s \in [D -> ToSet(s)] /\ \A x \in ToSet(s) : \E i \in D : s[i] = x
  BY DEF ToSet
<1>3. s \in Surjection(D, ToSet(s))
  BY <1>2 DEF Surjection
<1>4. s \in Injection(D, ToSet(s)) <=> IsInjective(s)
  BY <1>2 DEF Injection
<1> QED BY <1>1, <1>3, <1>4, FS_Surjection, FS_CardinalityType

(* Its elements are in a total order. *)
THEOREM BeforeIsOrder ==
  ASSUME NEW X, NEW s \in Seq(X), IsInjective(s)
  PROVE  /\ \A x, y : Before(s, x, y) =>
              x \in ToSet(s) /\ y \in ToSet(s) /\ x # y /\ ~ Before(s, y, x)
         /\ \A x, y, z : Before(s, x, y) /\ Before(s, y, z) => Before(s, x, z)
         /\ \A x, y \in ToSet(s) : x = y \/ Before(s, x, y) \/ Before(s, y, x)
<1>1. DOMAIN s = 1 .. Len(s) /\ Len(s) \in Nat
  OBVIOUS
<1>2. \A i, j \in 1 .. Len(s) : s[i] = s[j] => i = j
  BY <1>1 DEF IsInjective
<1>3. \A x, y : Before(s, x, y) =>
              x \in ToSet(s) /\ y \in ToSet(s) /\ x # y /\ ~ Before(s, y, x)
  BY <1>1, <1>2 DEF Before, ToSet
<1>4. \A x, y, z : Before(s, x, y) /\ Before(s, y, z) => Before(s, x, z)
  BY <1>1, <1>2 DEF Before
<1>5. \A x, y \in ToSet(s) : x = y \/ Before(s, x, y) \/ Before(s, y, x)
  BY <1>1, <1>2 DEF Before, ToSet
<1> QED BY <1>3, <1>4, <1>5

(* A new element goes in front of all others. *)
THEOREM PushFront ==
  ASSUME NEW X, NEW s \in Seq(X), NEW x \in X
  PROVE  /\ <<x>> \o s \in Seq(X) /\ ToSet(<<x>> \o s) = {x} \union ToSet(s)
         /\ IsInjective(s) /\ x \notin ToSet(s) => IsInjective(<<x>> \o s)
         /\ x \notin ToSet(s) => \A y, z : Before(<<x>> \o s, y, z) <=>
                                   (y = x /\ z \in ToSet(s)) \/ Before(s, y, z)
<1> DEFINE t == <<x>> \o s
<1>1. /\ t \in Seq(X) /\ DOMAIN t = 1 .. Len(s) + 1 /\ DOMAIN s = 1 .. Len(s) /\ Len(s) \in Nat
      /\ t[1] = x /\ \A i \in 1 .. Len(s) : t[i + 1] = s[i] /\ i + 1 \in 1 .. Len(s) + 1
  OBVIOUS
<1>2. \A i \in 1 .. Len(s) + 1 : i = 1 \/ (i - 1 \in 1 .. Len(s) /\ t[i] = s[i - 1])
  <2>1. \A i \in 1 .. Len(s) + 1 : i = 1 \/ (i - 1 \in 1 .. Len(s) /\ (i - 1) + 1 = i)
    BY <1>1
  <2> HIDE DEF t
  <2> QED BY <1>1, <2>1
<1> HIDE DEF t
<1>3. ToSet(t) = {x} \union ToSet(s)
  <2>1. ToSet(t) \subseteq {x} \union ToSet(s)
    <3>1. ASSUME NEW i \in DOMAIN t PROVE t[i] = x \/ t[i] \in ToSet(s)
      <4>1. i = 1 \/ (i - 1 \in DOMAIN s /\ t[i] = s[i - 1])
        BY <1>1, <1>2
      <4> QED BY <1>1, <4>1 DEF ToSet
    <3> QED BY <3>1 DEF ToSet
  <2>2. x \in ToSet(t)
    <3>1. 1 \in DOMAIN t
      BY <1>1
    <3> QED BY <1>1, <3>1 DEF ToSet
  <2>3. ToSet(s) \subseteq ToSet(t)
    <3>1. ASSUME NEW i \in DOMAIN s PROVE s[i] \in ToSet(t)
      <4>1. i + 1 \in DOMAIN t /\ t[i + 1] = s[i]
        BY <1>1
      <4> QED BY <4>1 DEF ToSet
    <3> QED BY <3>1 DEF ToSet
  <2> QED BY <2>1, <2>2, <2>3
<1>4. ASSUME IsInjective(s), x \notin ToSet(s) PROVE IsInjective(t)
  <2> SUFFICES ASSUME NEW i \in 1 .. Len(s) + 1, NEW j \in 1 .. Len(s) + 1, t[i] = t[j]
               PROVE  i = j
    BY <1>1 DEF IsInjective
  <2>1. \A k \in 1 .. Len(s) : s[k] # x
    BY <1>1, <1>4 DEF ToSet
  <2>2. i = 1 <=> j = 1
    BY <1>1, <1>2, <2>1
  <2>3. i # 1 /\ j # 1 => i - 1 = j - 1
    BY <1>1, <1>2, <1>4, SMTT(30) DEF IsInjective
  <2> QED BY <1>1, <2>2, <2>3
<1>5. ASSUME x \notin ToSet(s), NEW y, NEW z
      PROVE  Before(t, y, z) <=> (y = x /\ z \in ToSet(s)) \/ Before(s, y, z)
  <2>1. ASSUME Before(t, y, z) PROVE (y = x /\ z \in ToSet(s)) \/ Before(s, y, z)
    <3>1. PICK i, j \in 1 .. Len(s) + 1 : i < j /\ t[i] = y /\ t[j] = z
      BY <1>1, <2>1 DEF Before
    <3>2. j # 1 /\ j - 1 \in 1 .. Len(s) /\ s[j - 1] = z
      BY <1>1, <1>2, <3>1
    <3>3. CASE i = 1
      BY <1>1, <3>1, <3>2, <3>3 DEF ToSet
    <3>4. CASE i # 1
      <4>1. i - 1 \in 1 .. Len(s) /\ s[i - 1] = y /\ i - 1 < j - 1
        BY <1>2, <3>1, <3>4
      <4> QED BY <1>1, <3>2, <4>1 DEF Before
    <3> QED BY <3>3, <3>4
  <2>2. ASSUME y = x, z \in ToSet(s) PROVE Before(t, y, z)
    <3>1. PICK i \in 1 .. Len(s) : s[i] = z
      BY <1>1, <2>2 DEF ToSet
    <3>2. 1 \in DOMAIN t /\ i + 1 \in DOMAIN t /\ 1 < i + 1 /\ t[1] = y /\ t[i + 1] = z
      BY <1>1, <2>2, <3>1
    <3> QED BY <3>2 DEF Before
  <2>3. ASSUME Before(s, y, z) PROVE Before(t, y, z)
    <3>1. PICK i, j \in 1 .. Len(s) : i < j /\ s[i] = y /\ s[j] = z
      BY <1>1, <2>3 DEF Before
    <3>2. i + 1 \in DOMAIN t /\ j + 1 \in DOMAIN t /\ i + 1 < j + 1 /\ t[i + 1] = y /\ t[j + 1] = z
      BY <1>1, <3>1
    <3> QED BY <3>2 DEF Before
  <2> QED BY <2>1, <2>2, <2>3
<1> QED BY <1>1, <1>3, <1>4, <1>5 DEF t

(* A new element is put in right behind the one at position i. *)
THEOREM InsertBehind ==
  ASSUME NEW X, NEW s \in Seq(X), NEW x \in X, IsInjective(s), x \notin ToSet(s),
         NEW i \in 1 .. Len(s),
         NEW t, t = SubSeq(s, 1, i) \o <<x>> \o SubSeq(s, i + 1, Len(s))
  PROVE  /\ t \in Seq(X) /\ ToSet(t) = {x} \union ToSet(s) /\ IsInjective(t)
         /\ \A y, z : y # x /\ z # x => (Before(t, y, z) <=> Before(s, y, z))
         /\ \A y : Before(t, y, x) <=> y = s[i] \/ Before(s, y, s[i])
<1> DEFINE n == Len(s)
           at(j) == IF j =< i THEN j ELSE j + 1
<1>1. /\ DOMAIN s = 1 .. n /\ n \in Nat /\ i \in 1 .. n /\ i \in Nat
      /\ \A j \in 1 .. n : s[j] \in X /\ s[j] # x
      /\ \A j, l \in 1 .. n : s[j] = s[l] => j = l
  BY DEF IsInjective, ToSet
<1>2. /\ t \in Seq(X) /\ DOMAIN t = 1 .. n + 1
      /\ \A j \in 1 .. n + 1 : t[j] = IF j =< i THEN s[j] ELSE IF j = i + 1 THEN x ELSE s[j - 1]
  <2> DEFINE a == SubSeq(s, 1, i)
             b == SubSeq(s, i + 1, Len(s))
  <2>1. /\ a \in Seq(X) /\ Len(a) = i /\ \A j \in 1 .. i : a[j] = s[j]
        /\ b \in Seq(X) /\ Len(b) = n - i /\ \A j \in 1 .. n - i : b[j] = s[i + j]
    <3>1. /\ a \in Seq(X) /\ Len(a) = (IF 1 =< i THEN i - 1 + 1 ELSE 0)
          /\ \A j \in 1 .. i - 1 + 1 : a[j] = s[1 + j - 1]
      <4>1. 1 \in Int /\ i \in Int /\ \A j \in 1 .. i : s[j] \in X
        BY <1>1
      <4> QED BY <4>1, SubSeqProperties
    <3>2. /\ b \in Seq(X) /\ Len(b) = (IF i + 1 =< n THEN n - (i + 1) + 1 ELSE 0)
          /\ \A j \in 1 .. n - (i + 1) + 1 : b[j] = s[i + 1 + j - 1]
      <4>1. i + 1 \in Int /\ n \in Int /\ \A j \in i + 1 .. n : s[j] \in X
        BY <1>1
      <4> QED BY <4>1, SubSeqProperties
    <3> HIDE DEF a, b, n
    <3>3. i - 1 + 1 = i /\ n - (i + 1) + 1 = n - i /\ 1 =< i /\ (i + 1 =< n \/ n - i = 0)
      BY <1>1
    <3>4. \A j \in 1 .. i : 1 + j - 1 = j
      BY <1>1
    <3>5. \A j \in 1 .. n - i : i + 1 + j - 1 = i + j
      BY <1>1
    <3> QED BY <3>1, <3>2, <3>3, <3>4, <3>5
  <2> HIDE DEF a, b
  <2> DEFINE c == a \o <<x>>
  <2>2. /\ c \in Seq(X) /\ Len(c) = i + 1
        /\ \A j \in 1 .. i + 1 : c[j] = IF j =< i THEN s[j] ELSE x
    <3>1. c = Append(a, x)
      BY <2>1
    <3> HIDE DEF c, n, at
    <3>2. /\ c \in Seq(X) /\ Len(c) = i + 1 /\ c[i + 1] = x
          /\ \A j \in 1 .. i : c[j] = a[j]
      <4>1. /\ Append(a, x) \in Seq(X) /\ Len(Append(a, x)) = Len(a) + 1
            /\ \A j \in 1 .. Len(a) : Append(a, x)[j] = a[j]
            /\ Append(a, x)[Len(a) + 1] = x
        BY <2>1, AppendProperties
      <4> QED BY <2>1, <3>1, <4>1
    <3>3. \A j \in 1 .. i + 1 : (j =< i /\ j \in 1 .. i) \/ (~ (j =< i) /\ j = i + 1)
      BY <1>1
    <3> QED BY <2>1, <3>2, <3>3
  <2>3. t = c \o b
    BY DEF a, b
  <2> HIDE DEF c
  <2>4. /\ t \in Seq(X) /\ Len(t) = n + 1 /\ DOMAIN t = 1 .. n + 1
        /\ \A j \in 1 .. n + 1 : t[j] = IF j =< i + 1 THEN c[j] ELSE b[j - (i + 1)]
    <3>1. /\ t \in Seq(X) /\ Len(t) = Len(c) + Len(b)
          /\ \A j \in 1 .. Len(c) + Len(b) : t[j] = IF j =< Len(c) THEN c[j] ELSE b[j - Len(c)]
      <4>1. c \in Seq(X) /\ b \in Seq(X)
        BY <2>1, <2>2
      <4> QED BY <2>3, <4>1, ConcatProperties
    <3>2. Len(c) + Len(b) = n + 1
      BY <1>1, <2>1, <2>2
    <3>3. DOMAIN t = 1 .. Len(t)
      BY <3>1
    <3> QED BY <2>2, <3>1, <3>2, <3>3
  <2>5. ASSUME NEW j \in 1 .. n + 1, ~ (j =< i + 1) PROVE t[j] = s[j - 1]
    <3>1. j - (i + 1) \in 1 .. n - i /\ i + (j - (i + 1)) = j - 1
      BY <1>1, <2>5
    <3> QED BY <2>1, <2>4, <2>5, <3>1
  <2>6. ASSUME NEW j \in 1 .. n + 1, j =< i + 1 PROVE t[j] = IF j =< i THEN s[j] ELSE x
    <3>1. j \in 1 .. i + 1
      BY <1>1, <2>6
    <3> QED BY <2>2, <2>4, <2>6, <3>1
  <2> HIDE DEF n
  <2>7. \A j \in 1 .. n + 1 : (j =< i => j =< i + 1) /\ (~ (j =< i) /\ j =< i + 1 <=> j = i + 1)
    BY <1>1
  <2> QED BY <2>4, <2>5, <2>6, <2>7
<1>3. /\ \A j \in 1 .. n : at(j) \in 1 .. n + 1 /\ at(j) # i + 1 /\ t[at(j)] = s[j]
      /\ \A j, l \in 1 .. n : j < l <=> at(j) < at(l)
      /\ i + 1 \in 1 .. n + 1 /\ t[i + 1] = x
  <2>1. \A j \in 1 .. n : at(j) \in 1 .. n + 1 /\ at(j) # i + 1
    BY <1>1
  <2>2. ASSUME NEW j \in 1 .. n PROVE t[at(j)] = s[j]
    <3>1. CASE j =< i
      BY <1>1, <1>2, <2>1, <3>1
    <3>2. CASE ~ (j =< i)
      <4>1. at(j) = j + 1
        BY <3>2
      <4> HIDE DEF at, n
      <4> DEFINE l == j + 1
      <4>2. l \in 1 .. n + 1 /\ ~ (l =< i) /\ l # i + 1 /\ l - 1 = j
        BY <1>1, <3>2
      <4> HIDE DEF l
      <4>3. t[l] = s[l - 1]
        BY <1>2, <4>2
      <4>4. at(j) = l
        BY <4>1 DEF l
      <4> QED BY <4>2, <4>3, <4>4
    <3> QED BY <3>1, <3>2
  <2>3. \A j, l \in 1 .. n : j < l <=> at(j) < at(l)
    BY <1>1
  <2>4. i + 1 \in 1 .. n + 1 /\ ~ (i + 1 =< i)
    BY <1>1
  <2> HIDE DEF at
  <2> QED BY <1>2, <2>1, <2>2, <2>3, <2>4
<1>4. \A m \in 1 .. n + 1 : m = i + 1 \/ \E j \in 1 .. n : m = at(j)
  <2> TAKE m \in 1 .. n + 1
  <2>1. CASE m =< i
    BY <1>1, <2>1
  <2>2. CASE m > i + 1
    <3>1. m - 1 \in 1 .. n /\ at(m - 1) = m
      BY <1>1, <2>2
    <3> QED BY <3>1
  <2> QED BY <1>1, <2>1, <2>2
<1>5. \A j \in 1 .. n : (at(j) < i + 1 <=> j =< i)
  BY <1>1
<1> HIDE DEF at, n
<1>6. ToSet(t) = {x} \union ToSet(s)
  <2>1. ToSet(t) \subseteq {x} \union ToSet(s)
    <3>1. ASSUME NEW m \in DOMAIN t PROVE t[m] = x \/ \E j \in DOMAIN s : t[m] = s[j]
      <4>1. m = i + 1 \/ \E j \in 1 .. n : m = at(j)
        BY <1>2, <1>4
      <4> QED BY <1>1, <1>3, <4>1
    <3> QED BY <3>1, ZenonT(40) DEF ToSet
  <2>2. x \in ToSet(t)
    <3>1. i + 1 \in DOMAIN t
      BY <1>2, <1>3
    <3> QED BY <1>3, <3>1 DEF ToSet
  <2>3. ToSet(s) \subseteq ToSet(t)
    <3>1. \A j \in DOMAIN s : \E m \in DOMAIN t : t[m] = s[j]
      BY <1>1, <1>2, <1>3
    <3> QED BY <3>1, ZenonT(40) DEF ToSet
  <2> QED BY <2>1, <2>2, <2>3
<1>7. IsInjective(t)
  <2> SUFFICES ASSUME NEW l \in 1 .. n + 1, NEW m \in 1 .. n + 1, t[l] = t[m] PROVE l = m
    BY <1>2 DEF IsInjective
  <2>1. CASE l = i + 1 /\ m = i + 1
    BY <2>1
  <2>2. CASE l = i + 1 /\ m # i + 1
    <3>1. PICK j \in 1 .. n : m = at(j)
      BY <1>4, <2>2
    <3> QED BY <1>1, <1>3, <2>2, <3>1
  <2>3. CASE l # i + 1 /\ m = i + 1
    <3>1. PICK j \in 1 .. n : l = at(j)
      BY <1>4, <2>3
    <3> QED BY <1>1, <1>3, <2>3, <3>1
  <2>4. CASE l # i + 1 /\ m # i + 1
    <3>1. PICK j \in 1 .. n : l = at(j)
      BY <1>4, <2>4
    <3>2. PICK k \in 1 .. n : m = at(k)
      BY <1>4, <2>4
    <3>3. s[j] = s[k]
      BY <1>3, <3>1, <3>2
    <3>4. j = k
      BY <1>1, <3>3
    <3> QED BY <3>1, <3>2, <3>4
  <2> QED BY <2>1, <2>2, <2>3, <2>4
<1>8. ASSUME NEW y, NEW z, y # x, z # x PROVE Before(t, y, z) <=> Before(s, y, z)
  <2>1. ASSUME Before(t, y, z) PROVE Before(s, y, z)
    <3>1. PICK l, m \in 1 .. n + 1 : l < m /\ t[l] = y /\ t[m] = z
      BY <1>2, <2>1 DEF Before
    <3>2. PICK j \in 1 .. n : l = at(j)
      BY <1>3, <1>4, <1>8, <3>1
    <3>3. PICK k \in 1 .. n : m = at(k)
      BY <1>3, <1>4, <1>8, <3>1
    <3>4. j < k /\ s[j] = y /\ s[k] = z
      BY <1>3, <3>1, <3>2, <3>3
    <3> QED BY <1>1, <3>4 DEF Before
  <2>2. ASSUME Before(s, y, z) PROVE Before(t, y, z)
    <3>1. PICK j, k \in 1 .. n : j < k /\ s[j] = y /\ s[k] = z
      BY <1>1, <2>2 DEF Before
    <3>2. at(j) \in DOMAIN t /\ at(k) \in DOMAIN t /\ at(j) < at(k) /\ t[at(j)] = y /\ t[at(k)] = z
      BY <1>2, <1>3, <3>1
    <3> QED BY <3>2 DEF Before
  <2> QED BY <2>1, <2>2
<1>9. ASSUME NEW y PROVE Before(t, y, x) <=> y = s[i] \/ Before(s, y, s[i])
  <2>1. ASSUME Before(t, y, x) PROVE y = s[i] \/ Before(s, y, s[i])
    <3>1. PICK l, m \in 1 .. n + 1 : l < m /\ t[l] = y /\ t[m] = x
      BY <1>2, <2>1 DEF Before
    <3>2. m = i + 1
      <4>1. ASSUME NEW j \in 1 .. n PROVE m # at(j)
        BY <1>1, <1>3, <3>1, <4>1
      <4> QED BY <1>4, <4>1
    <3>3. PICK j \in 1 .. n : l = at(j)
      BY <1>1, <1>4, <3>1, <3>2
    <3>4. j =< i /\ s[j] = y
      BY <1>3, <1>5, <3>1, <3>2, <3>3
    <3>5. j = i \/ (j < i /\ i \in DOMAIN s /\ j \in DOMAIN s)
      BY <1>1, <3>4 DEF n
    <3> QED BY <3>4, <3>5 DEF Before
  <2>2. ASSUME NEW j \in 1 .. n, j =< i, s[j] = y PROVE Before(t, y, x)
    <3>1. at(j) \in DOMAIN t /\ i + 1 \in DOMAIN t /\ at(j) < i + 1 /\ t[at(j)] = y
      BY <1>2, <1>3, <1>5, <2>2
    <3> QED BY <1>3, <3>1 DEF Before
  <2>3. y = s[i] => Before(t, y, x)
    BY <1>1, <2>2 DEF n
  <2>4. ASSUME Before(s, y, s[i]) PROVE Before(t, y, x)
    <3>1. PICK j, k \in 1 .. n : j < k /\ s[j] = y /\ s[k] = s[i]
      BY <1>1, <2>4 DEF Before
    <3>2. k = i /\ j =< i
      BY <1>1, <3>1 DEF n
    <3> QED BY <2>2, <3>1, <3>2
  <2> QED BY <2>1, <2>3, <2>4
<1> QED BY <1>2, <1>6, <1>7, <1>8, <1>9

(* An element moves to the front, or is put there. *)
ToFront(s, x) == <<x>> \o Erase(s, {x})

THEOREM MoveToFront ==
  ASSUME NEW X, NEW s \in Seq(X), IsInjective(s), NEW x \in X,
         NEW t, t = ToFront(s, x)
  PROVE  /\ t \in Seq(X) /\ ToSet(t) = {x} \union ToSet(s) /\ IsInjective(t)
         /\ \A y, z : y # x /\ z # x => (Before(t, y, z) <=> Before(s, y, z))
         /\ \A y \in ToSet(s) \ {x} : Before(t, x, y)
<1> DEFINE u == Erase(s, {x})
<1>1. u \in Seq(X) /\ ToSet(u) = ToSet(s) \ {x} /\ IsInjective(u)
  BY EraseSet, EraseDistinct
<1>2. \A y, z : y # x /\ z # x => (Before(u, y, z) <=> Before(s, y, z))
  BY EraseOrder
<1>3. t = <<x>> \o u /\ x \notin ToSet(u)
  BY <1>1 DEF ToFront
<1> HIDE DEF u
<1>4. /\ t \in Seq(X) /\ ToSet(t) = {x} \union ToSet(u) /\ IsInjective(t)
      /\ \A y, z : Before(t, y, z) <=> (y = x /\ z \in ToSet(u)) \/ Before(u, y, z)
  <2> DEFINE v == <<x>> \o u
  <2>1. /\ v \in Seq(X) /\ ToSet(v) = {x} \union ToSet(u)
        /\ IsInjective(u) /\ x \notin ToSet(u) => IsInjective(v)
        /\ x \notin ToSet(u) => \A y, z : Before(v, y, z) <=>
                                   (y = x /\ z \in ToSet(u)) \/ Before(u, y, z)
    BY <1>1, PushFront
  <2>2. t = v
    BY <1>3
  <2> HIDE DEF v
  <2> QED BY <1>1, <1>3, <2>1, <2>2
<1> QED BY <1>1, <1>2, <1>4

(* If one place only, or none, is to be erased: what is in front stays     *)
(* where it is, and the rest moves up.                                     *)
Cut(s, j, n) == [i \in 1 .. (IF j =< n THEN n - 1 ELSE n) |-> IF i < j THEN s[i] ELSE s[i + 1]]

THEOREM EraseAt ==
  ASSUME NEW X, NEW s \in Seq(X), NEW E, NEW j \in 1 .. Len(s) + 1,
         \A i \in 1 .. Len(s) : s[i] \in E <=> i = j
  PROVE  Erase(s, E) = Cut(s, j, Len(s))
<1> DEFINE n == Len(s)
           left == CHOOSE g : IsLeft(g, s, E)
<1>1. IsLeft(left, s, E) /\ Erase(s, E) = left[n]
  BY LeftExists, EraseIsRecursive
<1> HIDE DEF left
<1>2. n \in Nat /\ j \in Nat /\ \A i \in 1 .. n : s[i] \in X
  OBVIOUS
<1> DEFINE N == {i \in Nat : i =< n => left[i] = Cut(s, j, i)}
<1>3. 0 \in N
  <2>1. left[0] = <<>>
    BY <1>1 DEF IsLeft
  <2>2. Cut(s, j, 0) = <<>>
    BY <1>2 DEF Cut
  <2> QED BY <2>1, <2>2
<1>4. ASSUME NEW i \in Nat, i \in N PROVE i + 1 \in N
  <2> SUFFICES ASSUME i + 1 =< n PROVE left[i + 1] = Cut(s, j, i + 1)
    OBVIOUS
  <2> HIDE DEF n
  <2>1. left[i] = Cut(s, j, i)
    BY <1>2, <1>4
  <2>2. left[i + 1] = IF s[i + 1] \in E THEN left[i] ELSE Append(left[i], s[i + 1])
    <3>1. i + 1 \in 0 .. n /\ i + 1 # 0 /\ (i + 1) - 1 = i
      BY <1>2
    <3> QED BY <1>1, <3>1 DEF IsLeft, n
  <2>3. i + 1 \in 1 .. n /\ s[i + 1] \in X /\ (s[i + 1] \in E <=> i + 1 = j)
    BY <1>2 DEF n
  <2>4. CASE i + 1 = j
    <3>1. Cut(s, j, i + 1) = Cut(s, j, i)
      BY <1>2, <2>4 DEF Cut
    <3> QED BY <2>1, <2>2, <2>3, <2>4, <3>1
  <2>5. CASE i + 1 # j
    <3> DEFINE m == IF j =< i THEN i - 1 ELSE i
               t == Cut(s, j, i)
               u == Cut(s, j, i + 1)
    <3>1. /\ m \in Nat /\ m + 1 = (IF j =< i + 1 THEN i + 1 - 1 ELSE i + 1)
          /\ \A l \in 1 .. m : l \in 1 .. n /\ (~ (l < j) => l + 1 \in 1 .. n)
          /\ m + 1 < j => m + 1 = i + 1
          /\ ~ (m + 1 < j) => m + 1 + 1 = i + 1
      BY <1>2, <2>3, <2>5
    <3>2. t = [l \in 1 .. m |-> IF l < j THEN s[l] ELSE s[l + 1]]
      BY DEF Cut
    <3>3. u = [l \in 1 .. m + 1 |-> IF l < j THEN s[l] ELSE s[l + 1]]
      BY <3>1 DEF Cut
    <3> HIDE DEF t, u, m
    <3>4. t \in Seq(X) /\ Len(t) = m
      BY <1>2, <3>1, <3>2
    <3>5. u[m + 1] = s[i + 1] /\ \A l \in 1 .. m : u[l] = t[l]
      BY <3>1, <3>2, <3>3
    <3>6. u \in Seq(X) /\ Len(u) = m + 1
      <4>1. \A l \in 1 .. m + 1 : (IF l < j THEN s[l] ELSE s[l + 1]) \in X
        <5> TAKE l \in 1 .. m + 1
        <5>1. l = m + 1 \/ l \in 1 .. m
          BY <3>1
        <5>2. CASE l = m + 1
          BY <2>3, <3>1, <5>2
        <5>3. CASE l \in 1 .. m
          BY <1>2, <3>1, <5>3
        <5> QED BY <5>1, <5>2, <5>3
      <4>2. m + 1 \in Nat
        BY <3>1
      <4> QED BY <3>3, <4>1, <4>2
    <3>7. Append(t, s[i + 1]) = u
      <4> DEFINE v == Append(t, s[i + 1])
      <4>1. v \in Seq(X) /\ Len(v) = m + 1 /\ v[m + 1] = s[i + 1] /\ \A l \in 1 .. m : v[l] = t[l]
        BY <2>3, <3>4, AppendProperties
      <4> HIDE DEF v
      <4>2. \A l \in 1 .. m + 1 : l = m + 1 \/ l \in 1 .. m
        BY <3>1
      <4>3. \A l \in 1 .. m + 1 : v[l] = u[l]
        BY <3>5, <4>1, <4>2
      <4>4. v = u
        BY <3>6, <4>1, <4>3, SeqEqual
      <4> QED BY <4>4 DEF v
    <3> QED BY <2>1, <2>2, <2>3, <2>5, <3>7 DEF t, u
  <2> QED BY <2>4, <2>5
<1>5. Nat \subseteq N
  <2> HIDE DEF N
  <2> QED BY <1>3, <1>4, NatSetInduction
<1> QED BY <1>1, <1>2, <1>5

-------------------------------------------------------------------------------
(* A queue in pieces.                                                      *)

(* A queue cut behind its first n elements. *)
Upto(s, n)   == SubSeq(s, 1, n)
Behind(s, n) == SubSeq(s, n + 1, Len(s))

THEOREM SplitAt ==
  ASSUME NEW X, NEW s \in Seq(X), NEW n \in 0 .. Len(s)
  PROVE  /\ Upto(s, n) \in Seq(X) /\ Behind(s, n) \in Seq(X)
         /\ Len(Upto(s, n)) = n /\ Len(Behind(s, n)) = Len(s) - n
         /\ ToSet(Upto(s, n)) \union ToSet(Behind(s, n)) = ToSet(s)
         /\ IsInjective(s) => /\ IsInjective(Upto(s, n)) /\ IsInjective(Behind(s, n))
                              /\ ToSet(Upto(s, n)) \intersect ToSet(Behind(s, n)) = {}
         /\ \A x, y : Before(Upto(s, n), x, y) => Before(s, x, y)
         /\ \A x, y : x \in ToSet(Upto(s, n)) /\ y \in ToSet(Behind(s, n)) => Before(s, x, y)
<1> DEFINE t == SubSeq(s, 1, n)
           u == SubSeq(s, n + 1, Len(s))
<1> DEFINE len == Len(s)
<1>1. /\ len \in Nat /\ n \in Nat /\ n =< len /\ DOMAIN s = 1 .. len
      /\ \A i \in 1 .. len : s[i] \in X
  OBVIOUS
<1>2. /\ t \in Seq(X) /\ Len(t) = (IF 1 =< n THEN n - 1 + 1 ELSE 0)
      /\ \A i \in 1 .. n - 1 + 1 : t[i] = s[1 + i - 1]
  <2>1. 1 \in Int /\ n \in Int /\ \A i \in 1 .. n : s[i] \in X
    BY <1>1
  <2> QED BY <2>1, SubSeqProperties
<1>3. /\ u \in Seq(X) /\ Len(u) = (IF n + 1 =< len THEN len - (n + 1) + 1 ELSE 0)
      /\ \A i \in 1 .. len - (n + 1) + 1 : u[i] = s[n + 1 + i - 1]
  <2>1. n + 1 \in Int /\ len \in Int /\ \A i \in n + 1 .. len : s[i] \in X
    BY <1>1
  <2> QED BY <2>1, SubSeqProperties
<1> HIDE DEF len, t, u
<1>4. t \in Seq(X) /\ DOMAIN t = 1 .. n /\ Len(t) = n /\ \A i \in 1 .. n : t[i] = s[i]
  <2>1. n - 1 + 1 = n /\ (1 =< n \/ n = 0) /\ \A i \in 1 .. n : 1 + i - 1 = i
    BY <1>1
  <2>2. DOMAIN t = 1 .. Len(t)
    BY <1>2
  <2> QED BY <1>2, <2>1, <2>2
<1>5. /\ u \in Seq(X) /\ DOMAIN u = 1 .. len - n /\ Len(u) = len - n
      /\ \A i \in 1 .. len - n : u[i] = s[n + i]
  <2>1. /\ len - (n + 1) + 1 = len - n /\ (n + 1 =< len \/ len - n = 0)
        /\ \A i \in 1 .. len - n : n + 1 + i - 1 = n + i
    BY <1>1
  <2>2. DOMAIN u = 1 .. Len(u)
    BY <1>3
  <2> QED BY <1>3, <2>1, <2>2
<1>6. \A i \in 1 .. n : i \in 1 .. len
  BY <1>1
<1>7. \A i \in 1 .. len - n : n + i \in 1 .. len /\ n < n + i
  BY <1>1
<1>8. \A i \in 1 .. len : i \in 1 .. n \/ (i - n \in 1 .. len - n /\ n + (i - n) = i)
  BY <1>1
<1>9. ToSet(t) \union ToSet(u) = ToSet(s)
  <2>1. ASSUME NEW i \in 1 .. n PROVE t[i] \in ToSet(s)
    BY <1>1, <1>4, <1>6 DEF ToSet
  <2>2. ASSUME NEW i \in 1 .. len - n PROVE u[i] \in ToSet(s)
    BY <1>1, <1>5, <1>7 DEF ToSet
  <2>3. ASSUME NEW i \in 1 .. len PROVE s[i] \in ToSet(t) \union ToSet(u)
    <3>1. CASE i \in 1 .. n
      BY <1>4, <3>1 DEF ToSet
    <3>2. CASE i - n \in 1 .. len - n /\ n + (i - n) = i
      <4> DEFINE j == i - n
      <4>1. j \in 1 .. len - n /\ n + j = i
        BY <3>2
      <4> HIDE DEF j
      <4>2. u[j] = s[i]
        BY <1>5, <4>1
      <4> QED BY <1>5, <4>1, <4>2 DEF ToSet
    <3> QED BY <1>8, <3>1, <3>2
  <2>4. /\ ToSet(t) = {t[i] : i \in 1 .. n} /\ ToSet(u) = {u[i] : i \in 1 .. len - n}
        /\ ToSet(s) = {s[i] : i \in 1 .. len}
    BY <1>1, <1>4, <1>5 DEF ToSet
  <2> QED BY <2>1, <2>2, <2>3, <2>4
<1>10. ASSUME IsInjective(s)
       PROVE  IsInjective(t) /\ IsInjective(u) /\ ToSet(t) \intersect ToSet(u) = {}
  <2>1. \A i, j \in 1 .. len : s[i] = s[j] => i = j
    BY <1>1, <1>10 DEF IsInjective
  <2>2. IsInjective(t)
    BY <1>4, <1>6, <2>1 DEF IsInjective
  <2>3. IsInjective(u)
    <3> SUFFICES ASSUME NEW i \in 1 .. len - n, NEW j \in 1 .. len - n, u[i] = u[j] PROVE i = j
      BY <1>5 DEF IsInjective
    <3>1. n + i = n + j
      BY <1>5, <1>7, <2>1
    <3> QED BY <1>1, <3>1
  <2>4. ASSUME NEW i \in 1 .. n, NEW j \in 1 .. len - n PROVE t[i] # u[j]
    <3>1. s[i] # s[n + j]
      <4>1. i # n + j
        BY <1>1
      <4> QED BY <1>6, <1>7, <2>1, <4>1
    <3> QED BY <1>4, <1>5, <3>1
  <2>5. ToSet(t) = {t[i] : i \in 1 .. n} /\ ToSet(u) = {u[i] : i \in 1 .. len - n}
    BY <1>4, <1>5 DEF ToSet
  <2> QED BY <2>2, <2>3, <2>4, <2>5
<1>11. ASSUME NEW x, NEW y, Before(t, x, y) PROVE Before(s, x, y)
  BY <1>1, <1>4, <1>6, <1>11 DEF Before
<1>12. ASSUME NEW x, NEW y, x \in ToSet(t), y \in ToSet(u) PROVE Before(s, x, y)
  <2>1. PICK i \in 1 .. n : t[i] = x
    BY <1>4, <1>12 DEF ToSet
  <2>2. PICK j \in 1 .. len - n : u[j] = y
    BY <1>5, <1>12 DEF ToSet
  <2>3. i \in 1 .. len /\ n + j \in 1 .. len /\ i < n + j /\ s[i] = x /\ s[n + j] = y
    <3>1. i < n + j
      BY <1>1
    <3> QED BY <1>4, <1>5, <1>6, <1>7, <2>1, <2>2, <3>1
  <2> QED BY <1>1, <2>3 DEF Before
<1> QED BY <1>4, <1>5, <1>9, <1>10, <1>11, <1>12 DEF len, t, u, Upto, Behind

(* The last element of a queue, and the others. *)
THEOREM FrontAndLast ==
  ASSUME NEW X, NEW s \in Seq(X), s # <<>>
  PROVE  /\ Front(s) \in Seq(X) /\ Last(s) \in X
         /\ ToSet(s) = ToSet(Front(s)) \union {Last(s)}
         /\ IsInjective(s) => IsInjective(Front(s)) /\ Last(s) \notin ToSet(Front(s))
         /\ \A x, y : Before(Front(s), x, y) => Before(s, x, y)
         /\ \A x \in ToSet(Front(s)) : Before(s, x, Last(s))
<1> DEFINE n == Len(s) - 1
           u == SubSeq(s, n + 1, Len(s))
<1>1. n \in 0 .. Len(s) /\ n + 1 = Len(s) /\ Front(s) = SubSeq(s, 1, n) /\ Len(s) \in 1 .. Len(s)
  BY DEF Front
<1>2. ToSet(u) = {Last(s)} /\ Last(s) \in X
  <2>1. Last(s) = s[Len(s)] /\ Last(s) \in X
    BY <1>1 DEF Last
  <2> DEFINE v == SubSeq(s, Len(s), Len(s))
  <2>2. v \in Seq(X) /\ Len(v) = 1 /\ v[1] = s[Len(s)]
    BY <1>1
  <2> HIDE DEF v
  <2>3. DOMAIN v = {1}
    BY <2>2
  <2>4. u = v
    BY <1>1 DEF v
  <2> QED BY <2>1, <2>2, <2>3, <2>4 DEF ToSet
<1> HIDE DEF u
<1>3. /\ Front(s) \in Seq(X)
      /\ ToSet(Front(s)) \union ToSet(u) = ToSet(s)
      /\ IsInjective(s) => IsInjective(Front(s)) /\ ToSet(Front(s)) \intersect ToSet(u) = {}
      /\ \A x, y : Before(Front(s), x, y) => Before(s, x, y)
      /\ \A x, y : x \in ToSet(Front(s)) /\ y \in ToSet(u) => Before(s, x, y)
  <2>1. Front(s) = Upto(s, n) /\ u = Behind(s, n)
    BY <1>1 DEF u, Upto, Behind
  <2>2. s \in Seq(X) /\ n \in 0 .. Len(s)
    BY <1>1
  <2> HIDE DEF n
  <2>3. /\ Upto(s, n) \in Seq(X)
        /\ ToSet(Upto(s, n)) \union ToSet(Behind(s, n)) = ToSet(s)
        /\ IsInjective(s) => /\ IsInjective(Upto(s, n))
                             /\ ToSet(Upto(s, n)) \intersect ToSet(Behind(s, n)) = {}
        /\ \A x, y : Before(Upto(s, n), x, y) => Before(s, x, y)
        /\ \A x, y : x \in ToSet(Upto(s, n)) /\ y \in ToSet(Behind(s, n)) => Before(s, x, y)
    BY ONLY <2>2, SplitAt
  <2> QED BY <2>1, <2>3
<1> QED BY <1>2, <1>3

(* One queue behind another. *)
THEOREM Concatenation ==
  ASSUME NEW X, NEW s \in Seq(X), NEW t \in Seq(X), NEW u, u = s \o t
  PROVE  /\ u \in Seq(X) /\ ToSet(u) = ToSet(s) \union ToSet(t)
         /\ IsInjective(s) /\ IsInjective(t) /\ ToSet(s) \intersect ToSet(t) = {} => IsInjective(u)
         /\ \A x, y : Before(u, x, y) =>
              Before(s, x, y) \/ Before(t, x, y) \/ (x \in ToSet(s) /\ y \in ToSet(t))
<1> DEFINE m == Len(s)
           n == Len(t)
<1>1. /\ m \in Nat /\ n \in Nat /\ DOMAIN s = 1 .. m /\ DOMAIN t = 1 .. n
  OBVIOUS
<1>2. /\ u \in Seq(X) /\ DOMAIN u = 1 .. m + n
      /\ \A i \in 1 .. m + n : u[i] = IF i =< m THEN s[i] ELSE t[i - m]
  BY ConcatProperties
<1> HIDE DEF m, n
<1>3. ASSUME NEW i \in 1 .. m + n
      PROVE  \/ i \in 1 .. m /\ u[i] = s[i]
             \/ \E j \in 1 .. n : i = m + j /\ u[i] = t[j]
  <2>1. CASE i =< m
    BY <1>1, <1>2, <2>1
  <2>2. CASE ~ (i =< m)
    <3> DEFINE j == i - m
    <3>1. j \in 1 .. n /\ i = m + j
      BY <1>1, <2>2
    <3>2. u[i] = t[j]
      BY <1>2, <2>2
    <3> HIDE DEF j
    <3> QED BY <3>1, <3>2
  <2> QED BY <2>1, <2>2
<1>4. \A i \in 1 .. m : i \in 1 .. m + n /\ u[i] = s[i]
  BY <1>1, <1>2
<1>5. ASSUME NEW j \in 1 .. n PROVE m + j \in 1 .. m + n /\ u[m + j] = t[j]
  <2> DEFINE i == m + j
  <2>1. i \in 1 .. m + n /\ ~ (i =< m) /\ i - m = j
    BY <1>1
  <2> HIDE DEF i
  <2>2. u[i] = t[j]
    BY <1>2, <2>1
  <2> QED BY <2>1, <2>2 DEF i
<1>6. /\ ToSet(u) = {u[i] : i \in 1 .. m + n} /\ ToSet(s) = {s[i] : i \in 1 .. m}
      /\ ToSet(t) = {t[i] : i \in 1 .. n}
  BY <1>1, <1>2 DEF ToSet
<1>7. ToSet(u) = ToSet(s) \union ToSet(t)
  <2>1. \A i \in 1 .. m + n : u[i] \in ToSet(s) \union ToSet(t)
    BY <1>3, <1>6
  <2>2. \A i \in 1 .. m : s[i] \in ToSet(u)
    BY <1>4, <1>6
  <2>3. \A i \in 1 .. n : t[i] \in ToSet(u)
    BY <1>5, <1>6
  <2> QED BY <1>6, <2>1, <2>2, <2>3
<1>8. ASSUME IsInjective(s), IsInjective(t), ToSet(s) \intersect ToSet(t) = {}
      PROVE  IsInjective(u)
  <2> SUFFICES ASSUME NEW i \in 1 .. m + n, NEW l \in 1 .. m + n, u[i] = u[l] PROVE i = l
    BY <1>2 DEF IsInjective
  <2>1. \A a, b \in 1 .. m : s[a] = s[b] => a = b
    BY <1>1, <1>8 DEF IsInjective
  <2>2. \A a, b \in 1 .. n : t[a] = t[b] => a = b
    BY <1>1, <1>8 DEF IsInjective
  <2>3. \A a \in 1 .. m, b \in 1 .. n : s[a] # t[b]
    BY <1>6, <1>8
  <2>4. CASE i \in 1 .. m /\ u[i] = s[i]
    <3>1. CASE l \in 1 .. m /\ u[l] = s[l]
      BY <2>1, <2>4, <3>1
    <3>2. CASE \E j \in 1 .. n : l = m + j /\ u[l] = t[j]
      BY <2>3, <2>4, <3>2
    <3> QED BY <1>3, <3>1, <3>2
  <2>5. CASE \E j \in 1 .. n : i = m + j /\ u[i] = t[j]
    <3>1. CASE l \in 1 .. m /\ u[l] = s[l]
      BY <2>3, <2>5, <3>1
    <3>2. CASE \E j \in 1 .. n : l = m + j /\ u[l] = t[j]
      BY <2>2, <2>5, <3>2
    <3> QED BY <1>3, <3>1, <3>2
  <2> QED BY <1>3, <2>4, <2>5
<1>9. ASSUME NEW x, NEW y, Before(u, x, y)
      PROVE  Before(s, x, y) \/ Before(t, x, y) \/ (x \in ToSet(s) /\ y \in ToSet(t))
  <2>1. PICK i, l \in 1 .. m + n : i < l /\ u[i] = x /\ u[l] = y
    BY <1>2, <1>9 DEF Before
  <2>2. CASE i \in 1 .. m /\ u[i] = s[i]
    <3>1. CASE l \in 1 .. m /\ u[l] = s[l]
      BY <1>1, <2>1, <2>2, <3>1 DEF Before
    <3>2. CASE \E j \in 1 .. n : l = m + j /\ u[l] = t[j]
      BY <1>6, <2>1, <2>2, <3>2
    <3> QED BY <1>3, <3>1, <3>2
  <2>3. CASE \E j \in 1 .. n : i = m + j /\ u[i] = t[j]
    <3>1. PICK j \in 1 .. n : i = m + j /\ u[i] = t[j]
      BY <2>3
    <3>2. PICK k \in 1 .. n : l = m + k /\ u[l] = t[k]
      <4>1. ~ (l \in 1 .. m)
        BY <1>1, <2>1, <3>1
      <4> QED BY <1>3, <4>1
    <3>3. j < k
      BY <1>1, <2>1, <3>1, <3>2
    <3> QED BY <1>1, <2>1, <3>1, <3>2, <3>3 DEF Before
  <2> QED BY <1>3, <2>2, <2>3
<1> QED BY <1>2, <1>7, <1>8, <1>9

(* A queue the other way round. *)
THEOREM Reversed ==
  ASSUME NEW X, NEW s \in Seq(X)
  PROVE  /\ Reverse(s) \in Seq(X) /\ ToSet(Reverse(s)) = ToSet(s)
         /\ IsInjective(s) => IsInjective(Reverse(s))
         /\ s # <<>> => Reverse(s) # <<>>
<1> DEFINE n == Len(s)
           t == Reverse(s)
           at(i) == (n - i) + 1
<1>1. n \in Nat /\ DOMAIN s = 1 .. n /\ \A i \in 1 .. n : s[i] \in X
  OBVIOUS
<1>2. \A i \in 1 .. n : at(i) \in 1 .. n /\ at(at(i)) = i
  BY <1>1
<1>3. t = [i \in 1 .. n |-> s[at(i)]]
  BY DEF Reverse
<1> HIDE DEF n, t, at
<1>4. t \in Seq(X) /\ DOMAIN t = 1 .. n /\ Len(t) = n
  BY <1>1, <1>2, <1>3
<1>5. ToSet(t) = ToSet(s)
  <2>1. ToSet(t) = {t[i] : i \in 1 .. n} /\ ToSet(s) = {s[i] : i \in 1 .. n}
    BY <1>1, <1>4 DEF ToSet
  <2>2. \A i \in 1 .. n : at(i) \in 1 .. n /\ t[i] = s[at(i)] /\ s[i] = t[at(i)]
    BY <1>2, <1>3
  <2> QED BY <2>1, <2>2
<1>6. ASSUME IsInjective(s) PROVE IsInjective(t)
  <2> SUFFICES ASSUME NEW i \in 1 .. n, NEW j \in 1 .. n, t[i] = t[j] PROVE i = j
    BY <1>4 DEF IsInjective
  <2>1. s[at(i)] = s[at(j)]
    BY <1>3
  <2>2. at(i) = at(j)
    BY <1>1, <1>2, <1>6, <2>1 DEF IsInjective
  <2> QED BY <1>2, <2>2
<1>7. ASSUME s # <<>> PROVE t # <<>>
  <2>1. n # 0
    BY <1>7 DEF n
  <2> QED BY <1>4, <2>1
<1> QED BY <1>4, <1>5, <1>6, <1>7 DEF t

(* The order of its elements makes a queue. *)
THEOREM SameOrder ==
  ASSUME NEW X, NEW s \in Seq(X), IsInjective(s), NEW t \in Seq(X), IsInjective(t),
         ToSet(s) = ToSet(t), \A x, y : Before(s, x, y) => Before(t, x, y)
  PROVE  s = t
<1> DEFINE n == Len(s)
<1>1. Len(t) = n
  BY DistinctLength
<1>2. n \in Nat /\ DOMAIN s = 1 .. n /\ DOMAIN t = 1 .. n
  BY <1>1
<1> HIDE DEF n
<1>3. /\ \A i, j \in 1 .. n : s[i] = s[j] => i = j
      /\ \A i, j \in 1 .. n : t[i] = t[j] => i = j
  BY <1>2 DEF IsInjective
<1>4. /\ \A i \in 1 .. n : \E j \in 1 .. n : t[j] = s[i]
      /\ \A i \in 1 .. n : \E j \in 1 .. n : s[j] = t[i]
  BY <1>2 DEF ToSet
<1> DEFINE N == {m \in Nat : \A i \in 1 .. n : i =< m => s[i] = t[i]}
<1>5. 0 \in N
  BY <1>2
<1>6. ASSUME NEW m \in Nat, m \in N PROVE m + 1 \in N
  <2>1. \A i \in 1 .. n : i =< m => s[i] = t[i]
    BY <1>6
  <2>2. \A i \in 1 .. n : i =< m + 1 => i =< m \/ i = m + 1
    BY <1>2
  <2>3. ASSUME m + 1 \in 1 .. n, s[m + 1] # t[m + 1] PROVE FALSE
    <3> DEFINE k == m + 1
    <3>1. k \in 1 .. n /\ s[k] # t[k] /\ \A i \in 1 .. n : i =< m \/ i = k \/ k < i
      BY <1>2, <2>3
    <3> HIDE DEF k
    <3>2. PICK i \in 1 .. n : t[i] = s[k]
      BY <1>4, <3>1
    <3>3. PICK j \in 1 .. n : s[j] = t[k]
      BY <1>4, <3>1
    <3>4. k < i
      BY <1>3, <2>1, <3>1, <3>2
    <3>5. k < j
      BY <1>3, <2>1, <3>1, <3>3
    <3>6. Before(s, s[k], t[k]) /\ Before(t, t[k], s[k])
      BY <1>2, <3>1, <3>2, <3>3, <3>4, <3>5 DEF Before
    <3>7. Before(t, s[k], t[k])
      BY <3>6
    <3> QED BY <3>6, <3>7, BeforeIsOrder
  <2>4. \A i \in 1 .. n : i =< m + 1 => s[i] = t[i]
    BY <2>1, <2>2, <2>3
  <2> QED BY <2>4
<1>7. \A m \in Nat : m \in N
  <2> HIDE DEF N
  <2> QED BY <1>5, <1>6, NatSetInduction
<1>8. \A i \in 1 .. n : s[i] = t[i]
  <2>1. n \in N
    BY <1>2, <1>7
  <2> QED BY <1>2, <2>1
<1> QED BY <1>1, <1>8, SeqEqual DEF n
===============================================================================
