------------------------------- MODULE LsmProofs -------------------------------
(***************************************************************************)
(* Proofs about the single-tenant log of lsm.cpp, for every set of keys    *)
(* and requests, every number and size of segments and cleaning width.     *)
(*                                                                         *)
(* The inductive invariant Inv says, of each stage of a call, how many     *)
(* segments are free and which ones the cleaner holds (CountInv), that the *)
(* items of the hash table are in used segments and the bytes of a segment *)
(* are at least theirs (ItemInv, SpaceInv), and of the timeline that it    *)
(* has each live item once, before the low_timestamp of its segment, and   *)
(* what the cleaner has kept before what it has not come to (TimeInv,      *)
(* LowInv, KeptInv).                                                       *)
(***************************************************************************)
EXTENDS Lsm, QueueTheorems

(* What may be on the timeline. *)
Times == {Item(k) : k \in Keys} \union {Low(s) : s \in Segments}

ItemInv ==
  /\ IsFiniteSet(Live) /\ Live \subseteq Keys
  /\ map \in [Live -> [seg : Segments, size : Sizes]]
  /\ \A k \in Live : map[k].seg \in inUse
  /\ pc \in {"choose", "clean", "evict", "append"} => ~ IsHit(req)

CountInv ==
  /\ free_segments = NumSegments - Cardinality(inUse)
  /\ head \in inUse
  /\ pc \in {"ready", "append"} => free_segments >= cleaning_width
  /\ pc \in {"ready", "append", "choose"} => srcs = {} /\ dst_segments = <<>>
  /\ pc = "choose" => free_segments = cleaning_width - 1
  /\ pc \in {"clean", "evict"} =>
       /\ srcs \subseteq NonHead /\ Cardinality(srcs) = cleaning_width
       /\ ToSet(dst_segments) \subseteq NonHead \ srcs
       /\ Len(dst_segments) \in 1 .. cleaning_width - 1
       /\ free_segments = cleaning_width - 1 - Len(dst_segments)

SpaceInv ==
  /\ \A s \in Segments :
       /\ Bytes(LiveIn({s})) =< filled_bytes[s]
       /\ filled_bytes[s] > 0 => s \in inUse
       /\ filled_bytes[s] > SegmentSize => filled_bytes[s] \in Sizes
  /\ pc \in {"choose", "clean", "evict", "append"} => filled_bytes[head] = 0

TimeInv ==
  /\ timeline \in Seq(Times) /\ IsInjective(timeline)
  /\ \A k \in Keys : Item(k) \in ToSet(timeline) <=> k \in Live
  /\ \A s \in Segments : Low(s) \in ToSet(timeline) => s \in inUse

LowInv ==
  \A k \in Live : Low(map[k].seg) \in ToSet(timeline) =>
                    Before(timeline, Item(k), Low(map[k].seg))

KeptInv ==
  pc \in {"clean", "evict"} =>
    \A k \in LiveIn(srcs), j \in LiveIn(ToSet(dst_segments)) :
      Before(timeline, Item(j), Item(k))

(* Why the program may have been aborted. *)
AbortInv ==
  pc = "aborted" => \/ \E k \in NextItem : map[k].size > SegmentSize
                    \/ cleaning_width = 1 /\ srcs = {} /\ free_segments = 0

-------------------------------------------------------------------------------
(* Requests, segments and the elements of the timeline. *)
LEMMA SizesNat == Sizes \subseteq Nat \ {0}
BY WidthAssumption DEF Sizes

LEMMA RequestFacts ==
  ASSUME NEW r \in Requests
  PROVE  r.kid \in Keys /\ r.size \in Sizes /\ r.size \in Nat /\ r.size > 0
BY WidthAssumption DEF Sizes

LEMMA ItemFacts ==
  ASSUME ItemInv, NEW k \in Live
  PROVE  /\ k \in Keys /\ map[k] \in [seg : Segments, size : Sizes]
         /\ map[k].seg \in Segments /\ map[k].size \in Sizes /\ map[k].size \in Nat
BY SizesNat DEF ItemInv

LEMMA TimesDiffer ==
  /\ \A k, j : Item(k) = Item(j) => k = j
  /\ \A s, t : Low(s) = Low(t) => s = t
  /\ \A k, s : Item(k) # Low(s)
  /\ \A k \in Keys : Item(k) \in Times
  /\ \A s \in Segments : Low(s) \in Times
<1>1. \A k, j : Item(k) = Item(j) => k = j
  BY DEF Item
<1>2. \A s, t : Low(s) = Low(t) => s = t
  BY DEF Low
<1>3. \A k, s : Item(k) # Low(s)
  BY DEF Item, Low
<1> QED BY <1>1, <1>2, <1>3 DEF Times

LEMMA SegmentsFinite ==
  IsFiniteSet(Segments) /\ Cardinality(Segments) = NumSegments /\ NumSegments \in Nat
<1>1. NumSegments \in Nat /\ 0 =< NumSegments
  BY WidthAssumption
<1>2. IsFiniteSet(1 .. NumSegments) /\ Cardinality(1 .. NumSegments) = NumSegments
  BY <1>1, FS_Interval
<1> QED BY <1>1, <1>2 DEF Segments

LEMMA UsedFinite ==
  ASSUME NEW S \in SUBSET Segments
  PROVE  /\ IsFiniteSet(S) /\ Cardinality(S) \in Nat /\ Cardinality(S) =< NumSegments
         /\ Cardinality(S) = NumSegments => S = Segments
BY SegmentsFinite, FS_Subset, FS_CardinalityType

(* There is a first free segment when the counter says that one is free. *)
LEMMA FirstFreeExists ==
  ASSUME inUse \subseteq Segments, free_segments = NumSegments - Cardinality(inUse),
         free_segments # 0
  PROVE  FirstFree # {}
<1>1. Segments \ inUse # {}
  <2>1. inUse # Segments
    BY SegmentsFinite
  <2> QED BY <2>1
<1>2. Segments \ inUse \in SUBSET Nat
  BY SegmentsFinite DEF Segments
<1>3. PICK m \in Segments \ inUse : \A n \in Segments \ inUse : m =< n
  BY <1>1, <1>2, LeastElement
<1> QED BY <1>3 DEF FirstFree

(* Taking a segment. *)
LEMMA Taken ==
  ASSUME inUse \subseteq Segments, free_segments = NumSegments - Cardinality(inUse),
         NEW s \in FirstFree, Construct(s)
  PROVE  /\ s \in Segments /\ s \notin inUse /\ inUse' \subseteq Segments
         /\ inUse' = inUse \union {s}
         /\ free_segments' = NumSegments - Cardinality(inUse')
         /\ free_segments' = free_segments - 1
<1>1. s \in Segments /\ s \notin inUse /\ inUse' = inUse \union {s} /\ free_segments' = free_segments - 1
  BY DEF FirstFree, Construct
<1>2. IsFiniteSet(inUse) /\ Cardinality(inUse) \in Nat
  BY UsedFinite
<1>3. Cardinality(inUse \union {s}) = Cardinality(inUse) + 1
  BY <1>1, <1>2, FS_AddElement
<1> QED BY <1>1, <1>2, <1>3, SegmentsFinite

-------------------------------------------------------------------------------
(* The steps of the program, one by one. *)
Copies(k) == RelocateToDst(k) \/ RelocateToNewDst(k)

LEMMA Steps ==
  ASSUME [Next]_vars
  PROVE  \/ \E r \in Requests : Hit(r) \/ StoreInHead(r) \/ Rollover(r)
         \/ StoreAfterRollover \/ StartClean \/ Evict
         \/ \E k \in Live : Copies(k)
         \/ StopRelocation \/ Abort \/ UNCHANGED vars
BY DEF Next, Proceed, Clean, Copies

LEMMA SameWidth == [Next]_vars => cleaning_width' = cleaning_width
BY DEF Next, vars

(* What a copying step does to the hash table and the segments. *)
LEMMA CopyFacts ==
  ASSUME TypeOK, ItemInv, CountInv, NEW k \in Live, Copies(k)
  PROVE  \E s \in Segments :
           /\ pc = "clean" /\ pc' = "clean" /\ k \in NextItem /\ Relocate(k, s)
           /\ \/ /\ s = Last(dst_segments) /\ s \in ToSet(dst_segments) /\ Fits(s, map[k].size)
                 /\ UNCHANGED <<inUse, free_segments, dst_segments>>
              \/ /\ s \notin inUse /\ inUse' = inUse \union {s} /\ inUse' \subseteq Segments
                 /\ free_segments' = NumSegments - Cardinality(inUse')
                 /\ free_segments' = free_segments - 1 /\ DstLeft
                 /\ dst_segments' = Append(dst_segments, s) /\ map[k].size =< SegmentSize
<1>1. pc = "clean" /\ pc' = "clean" /\ k \in NextItem
  BY DEF Copies, RelocateToDst, RelocateToNewDst, Relocate
<1>2. CASE RelocateToDst(k)
  <2>1. Relocate(k, Last(dst_segments)) /\ Fits(Last(dst_segments), map[k].size)
        /\ UNCHANGED <<inUse, free_segments, dst_segments>>
    BY <1>2 DEF RelocateToDst
  <2>2. Last(dst_segments) \in ToSet(dst_segments) /\ Last(dst_segments) \in Segments
    <3>1. dst_segments \in Seq(Segments) /\ Len(dst_segments) \in Nat /\ Len(dst_segments) >= 1
      BY <1>1 DEF TypeOK, CountInv
    <3>2. Len(dst_segments) \in DOMAIN dst_segments
      BY <3>1
    <3> QED BY <3>1, <3>2 DEF Last, ToSet
  <2> QED BY <1>1, <2>1, <2>2
<1>3. CASE RelocateToNewDst(k)
  <2>1. PICK s \in FirstFree : Construct(s) /\ Relocate(k, s) /\ dst_segments' = Append(dst_segments, s)
    BY <1>3 DEF RelocateToNewDst
  <2>2. DstLeft /\ map[k].size =< SegmentSize
    BY <1>3 DEF RelocateToNewDst
  <2>3. /\ s \in Segments /\ s \notin inUse /\ inUse' \subseteq Segments
        /\ inUse' = inUse \union {s}
        /\ free_segments' = NumSegments - Cardinality(inUse')
        /\ free_segments' = free_segments - 1
    BY <2>1, Taken DEF TypeOK, CountInv
  <2> QED BY <1>1, <2>1, <2>2, <2>3
<1> QED BY <1>2, <1>3 DEF Copies

(* Appending to a sequence of segments. *)
LEMMA AppendSet ==
  ASSUME NEW X, NEW s \in Seq(X), NEW x \in X
  PROVE  /\ Append(s, x) \in Seq(X) /\ Len(Append(s, x)) = Len(s) + 1
         /\ ToSet(Append(s, x)) = ToSet(s) \union {x}
<1> DEFINE t == Append(s, x)
<1>1. /\ t \in Seq(X) /\ Len(t) = Len(s) + 1 /\ t[Len(s) + 1] = x
      /\ \A i \in 1 .. Len(s) : t[i] = s[i]
  BY AppendProperties
<1>2. DOMAIN s = 1 .. Len(s) /\ DOMAIN t = 1 .. Len(s) + 1 /\ Len(s) \in Nat
  BY <1>1
<1> HIDE DEF t
<1>3. \A i \in 1 .. Len(s) + 1 : i \in 1 .. Len(s) \/ i = Len(s) + 1
  BY <1>2
<1>4. ToSet(t) \subseteq ToSet(s) \union {x}
  BY <1>1, <1>2, <1>3 DEF ToSet
<1>5. ToSet(s) \union {x} \subseteq ToSet(t)
  BY <1>1, <1>2 DEF ToSet
<1> QED BY <1>1, <1>4, <1>5 DEF t

-------------------------------------------------------------------------------
(* The hash table. *)
LEMMA StoreItems ==
  ASSUME ItemInv, head \in inUse, head \in Segments, inUse' = inUse, NEW r \in Requests, Store(r)
  PROVE  ItemInv'
<1> DEFINE v == [seg |-> head, size |-> r.size]
<1>1. map' = [x \in Live \union {r.kid} |-> IF x = r.kid THEN v ELSE map[x]] /\ pc' = "ready"
  BY DEF Store, With, Live
<1>2. v \in [seg : Segments, size : Sizes] /\ v.seg \in inUse /\ r.kid \in Keys
  BY RequestFacts
<1> HIDE DEF v
<1>3. Live' = Live \union {r.kid} /\ IsFiniteSet(Live \union {r.kid})
  BY <1>1, FS_AddElement DEF Live, ItemInv
<1>4. map' \in [Live' -> [seg : Segments, size : Sizes]] /\ \A k \in Live' : map'[k].seg \in inUse'
  BY <1>1, <1>2, <1>3 DEF ItemInv
<1> QED BY <1>1, <1>2, <1>3, <1>4 DEF ItemInv

LEMMA ItemStep ==
  ASSUME TypeOK, ItemInv, CountInv, [Next]_vars
  PROVE  ItemInv'
<1>1. ASSUME NEW r \in Requests, Hit(r) PROVE ItemInv'
  BY <1>1 DEF Hit, segVars, ItemInv, Live
<1>2. ASSUME NEW r \in Requests, StoreInHead(r) PROVE ItemInv'
  BY <1>2, StoreItems DEF StoreInHead, Store, TypeOK, CountInv
<1>3. CASE StoreAfterRollover
  BY <1>3, StoreItems DEF StoreAfterRollover, Store, TypeOK, CountInv
<1>4. ASSUME NEW r \in Requests, Rollover(r) PROVE ItemInv'
  <2>1. map' = map /\ inUse \subseteq inUse' /\ req' = r /\ ~ IsHit(r)
    BY <1>4 DEF Rollover, Construct
  <2>2. ~ IsHit(req)'
    BY <2>1 DEF IsHit, Live
  <2> QED BY <2>1, <2>2 DEF ItemInv, Live
<1>5. CASE StartClean
  <2>1. map' = map /\ inUse \subseteq inUse' /\ req' = req /\ pc = "choose"
    BY <1>5 DEF StartClean, Construct, itemVars
  <2>2. ~ IsHit(req)'
    BY <2>1 DEF ItemInv, IsHit, Live
  <2> QED BY <2>1, <2>2 DEF ItemInv, Live
<1>6. ASSUME NEW k \in Live, Copies(k) PROVE ItemInv'
  <2>1. PICK s \in Segments : /\ pc = "clean" /\ Relocate(k, s) /\ inUse \subseteq inUse'
                              /\ s \in inUse'
    BY <1>6, CopyFacts DEF CountInv, NonHead
  <2>2. map' = [map EXCEPT ![k].seg = s] /\ req' = req
    BY <2>1 DEF Relocate
  <2>3. /\ Live' = Live
        /\ \A j \in Live : j # k => map'[j] = map[j]
        /\ map'[k] \in [seg : Segments, size : Sizes] /\ map'[k].seg = s
        /\ map'[k].size = map[k].size
        /\ map' \in [Live -> [seg : Segments, size : Sizes]]
    BY <2>2 DEF ItemInv, Live
  <2>4. ~ IsHit(req)'
    BY <2>1, <2>2, <2>3 DEF ItemInv, IsHit
  <2> QED BY <2>1, <2>3, <2>4 DEF ItemInv
<1>7. CASE Evict
  <2>1. /\ map' = [x \in Live \ LiveIn(srcs) |-> map[x]] /\ inUse' = inUse \ srcs
        /\ pc = "evict" /\ req' = req
    BY <1>7 DEF Evict, Without, Live
  <2>2. Live' = Live \ LiveIn(srcs) /\ Live' \in SUBSET Live /\ \A k \in Live' : map'[k] = map[k]
    BY <2>1 DEF Live
  <2>3. IsFiniteSet(Live')
    BY <2>2, FS_Subset DEF ItemInv
  <2>4. \A k \in Live' : map'[k].seg \in inUse'
    BY <2>1, <2>2 DEF ItemInv, LiveIn
  <2>5. ~ IsHit(req)'
    BY <2>1, <2>2 DEF ItemInv, IsHit
  <2>6. map' \in [Live' -> [seg : Segments, size : Sizes]]
    BY <2>1, <2>2 DEF ItemInv
  <2> QED BY <2>2, <2>3, <2>4, <2>5, <2>6 DEF ItemInv
<1>8. CASE StopRelocation \/ Abort \/ UNCHANGED vars
  <2>1. map' = map /\ inUse' = inUse /\ req' = req /\
        (pc' \in {"choose", "clean", "evict", "append"} => pc \in {"choose", "clean", "evict", "append"})
    BY <1>8 DEF StopRelocation, Abort, vars, segVars, itemVars
  <2> QED BY <2>1 DEF ItemInv, Live, IsHit
<1> QED BY Steps, <1>1, <1>2, <1>3, <1>4, <1>5, <1>6, <1>7, <1>8

-------------------------------------------------------------------------------
(* The segments: a cleaning takes cleaning_width of them and gives back    *)
(* all but the destinations, of which there are fewer.                     *)
LEMMA CountStep ==
  ASSUME TypeOK, ItemInv, CountInv, [Next]_vars
  PROVE  CountInv' /\ inUse' \subseteq Segments /\ srcs' \subseteq Segments
         /\ head' \in Segments /\ dst_segments' \in Seq(Segments)
<1> DEFINE Goal == CountInv' /\ inUse' \subseteq Segments /\ srcs' \subseteq Segments
                   /\ head' \in Segments /\ dst_segments' \in Seq(Segments)
<1> SUFFICES Goal
  OBVIOUS
<1>w. cleaning_width' = cleaning_width /\ cleaning_width \in Nat \ {0}
  BY SameWidth, WidthAssumption DEF TypeOK
<1>t. /\ inUse \subseteq Segments /\ srcs \subseteq Segments /\ head \in Segments
      /\ dst_segments \in Seq(Segments) /\ free_segments \in Nat
  BY SegmentsFinite DEF TypeOK
<1>1. ASSUME UNCHANGED <<inUse, free_segments, head, srcs, dst_segments>>,
             pc' = pc \/ (pc = "append" /\ pc' = "ready") \/ pc' = "aborted"
                      \/ (pc = "clean" /\ pc' = "evict")
      PROVE  Goal
  BY <1>1, <1>w, <1>t DEF CountInv, NonHead
<1>2. ASSUME NEW r \in Requests, Hit(r) \/ StoreInHead(r) PROVE Goal
  BY <1>1, <1>2 DEF Hit, StoreInHead, Store, segVars, cleanVars
<1>3. CASE StoreAfterRollover
  BY <1>1, <1>3 DEF StoreAfterRollover, Store, cleanVars
<1>4. ASSUME NEW r \in Requests, Rollover(r) PROVE Goal
  <2>1. /\ pc = "ready" /\ head' \in FirstFree /\ Construct(head')
        /\ pc' = (IF free_segments' < cleaning_width THEN "choose" ELSE "append")
        /\ srcs' = srcs /\ dst_segments' = dst_segments
    BY <1>4 DEF Rollover, MustClean, cleanVars
  <2>2. /\ head' \in Segments /\ head' \in inUse' /\ inUse' \subseteq Segments
        /\ free_segments' = NumSegments - Cardinality(inUse')
        /\ free_segments' = free_segments - 1
    BY <1>t, <2>1, Taken DEF CountInv
  <2>3. srcs = {} /\ dst_segments = <<>> /\ free_segments >= cleaning_width
    BY <2>1 DEF CountInv
  <2>4. CASE free_segments' < cleaning_width
    <3>1. free_segments' = cleaning_width - 1 /\ pc' = "choose"
      BY <1>w, <1>t, <2>1, <2>2, <2>3, <2>4
    <3> QED BY <1>w, <1>t, <2>1, <2>2, <2>3, <3>1 DEF CountInv
  <2>5. CASE ~ (free_segments' < cleaning_width)
    <3>1. free_segments' >= cleaning_width /\ pc' = "append"
      BY <1>w, <1>t, <2>1, <2>2, <2>5
    <3> QED BY <1>w, <1>t, <2>1, <2>2, <2>3, <3>1 DEF CountInv
  <2> QED BY <2>4, <2>5
<1>5. CASE StartClean
  <2>1. /\ pc = "choose" /\ srcs' \in Sources /\ pc' = "clean" /\ head' = head
        /\ \E s \in FirstFree : Construct(s) /\ dst_segments' = <<s>>
    BY <1>5 DEF StartClean
  <2>2. PICK s \in FirstFree : Construct(s) /\ dst_segments' = <<s>>
    BY <2>1
  <2>3. /\ s \in Segments /\ s \notin inUse /\ inUse' \subseteq Segments
        /\ inUse' = inUse \union {s}
        /\ free_segments' = NumSegments - Cardinality(inUse')
        /\ free_segments' = free_segments - 1
    BY <1>t, <2>2, Taken DEF CountInv
  <2>4. srcs' \subseteq inUse \ {head} /\ Cardinality(srcs') = cleaning_width
    BY <2>1 DEF Sources, kSubset, NonHead
  <2>5. /\ dst_segments' \in Seq(Segments) /\ Len(dst_segments') = 1
        /\ ToSet(dst_segments') = {s}
    <3>1. dst_segments' = <<s>>
      BY <2>2
    <3> QED BY <2>3, <3>1 DEF ToSet
  <2>6. free_segments = cleaning_width - 1 /\ head \in inUse
    BY <2>1 DEF CountInv
  <2>7. free_segments # 0
    <3>1. s \in Segments \ inUse
      BY <2>3
    <3>2. Cardinality(inUse) # NumSegments
      BY <1>t, <3>1, UsedFinite
    <3>3. free_segments = NumSegments - Cardinality(inUse) /\ Cardinality(inUse) \in Nat
      BY <1>t, UsedFinite DEF CountInv
    <3> QED BY <3>2, <3>3, SegmentsFinite
  <2>8. /\ 1 \in 1 .. cleaning_width - 1 /\ free_segments' = cleaning_width - 1 - 1
    BY <1>w, <1>t, <2>3, <2>6, <2>7
  <2>9. srcs' \subseteq NonHead' /\ ToSet(dst_segments') \subseteq NonHead' \ srcs'
    BY <2>1, <2>3, <2>4, <2>5, <2>6 DEF NonHead
  <2> QED BY <1>w, <1>t, <2>1, <2>3, <2>4, <2>5, <2>6, <2>8, <2>9 DEF CountInv
<1>6. ASSUME NEW k \in Live, Copies(k) PROVE Goal
  <2>1. PICK s \in Segments :
           /\ pc = "clean" /\ pc' = "clean" /\ Relocate(k, s)
           /\ \/ UNCHANGED <<inUse, free_segments, dst_segments>>
              \/ /\ s \notin inUse /\ inUse' = inUse \union {s} /\ inUse' \subseteq Segments
                 /\ free_segments' = NumSegments - Cardinality(inUse')
                 /\ free_segments' = free_segments - 1 /\ DstLeft
                 /\ dst_segments' = Append(dst_segments, s)
    BY <1>6, CopyFacts
  <2>2. head' = head /\ srcs' = srcs
    BY <2>1 DEF Relocate
  <2>3. CASE UNCHANGED <<inUse, free_segments, dst_segments>>
    BY <1>1, <2>1, <2>2, <2>3
  <2>4. CASE /\ s \notin inUse /\ inUse' = inUse \union {s} /\ inUse' \subseteq Segments
             /\ free_segments' = NumSegments - Cardinality(inUse')
             /\ free_segments' = free_segments - 1 /\ DstLeft
             /\ dst_segments' = Append(dst_segments, s)
    <3>1. /\ dst_segments' \in Seq(Segments) /\ Len(dst_segments') = Len(dst_segments) + 1
          /\ ToSet(dst_segments') = ToSet(dst_segments) \union {s}
      BY <1>t, <2>4, AppendSet
    <3>2. /\ srcs \subseteq NonHead /\ Cardinality(srcs) = cleaning_width /\ head \in inUse
          /\ ToSet(dst_segments) \subseteq NonHead \ srcs
          /\ Len(dst_segments) \in 1 .. cleaning_width - 1
          /\ free_segments = cleaning_width - 1 - Len(dst_segments)
          /\ Len(dst_segments) # cleaning_width - 1
      BY <2>1, <2>4 DEF CountInv, DstLeft
    <3>3. /\ Len(dst_segments') \in 1 .. cleaning_width - 1
          /\ free_segments' = cleaning_width - 1 - Len(dst_segments')
      BY <1>w, <2>4, <3>1, <3>2
    <3>4. srcs' \subseteq NonHead' /\ ToSet(dst_segments') \subseteq NonHead' \ srcs'
      BY <2>2, <2>4, <3>1, <3>2 DEF NonHead
    <3> QED BY <1>w, <1>t, <2>1, <2>2, <2>4, <3>1, <3>2, <3>3, <3>4 DEF CountInv
  <2> QED BY <2>1, <2>3, <2>4
<1>7. CASE Evict
  <2>1. /\ pc = "evict" /\ pc' = "append" /\ inUse' = inUse \ srcs /\ head' = head
        /\ free_segments' = free_segments + Cardinality(srcs) /\ srcs' = {} /\ dst_segments' = <<>>
    BY <1>7 DEF Evict, Freed
  <2>2. /\ srcs \subseteq NonHead /\ Cardinality(srcs) = cleaning_width /\ head \in inUse
        /\ Len(dst_segments) \in 1 .. cleaning_width - 1
        /\ free_segments = cleaning_width - 1 - Len(dst_segments)
        /\ free_segments = NumSegments - Cardinality(inUse)
    BY <2>1 DEF CountInv
  <2>3. free_segments' >= cleaning_width
    BY <1>w, <2>1, <2>2
  <2>4. head \in inUse' /\ inUse' \subseteq Segments
    BY <1>t, <2>1, <2>2 DEF NonHead
  <2>5. Cardinality(inUse) = Cardinality(inUse \ srcs) + Cardinality(srcs)
    <3>1. inUse \intersect srcs = srcs
      BY <2>2 DEF NonHead
    <3>2. Cardinality(inUse \ srcs) = Cardinality(inUse) - Cardinality(inUse \intersect srcs)
      BY <1>t, UsedFinite, FS_Difference
    <3>3. Cardinality(srcs) \in Nat /\ Cardinality(inUse) \in Nat
      BY <1>t, UsedFinite
    <3> QED BY <3>1, <3>2, <3>3
  <2>6. Cardinality(srcs) \in Nat /\ Cardinality(inUse \ srcs) \in Nat
    BY <1>t, UsedFinite
  <2>7. free_segments' = NumSegments - Cardinality(inUse')
    BY <2>1, <2>2, <2>5, <2>6, SegmentsFinite
  <2> QED BY <1>w, <1>t, <2>1, <2>3, <2>4, <2>7 DEF CountInv
<1>8. CASE StopRelocation
  BY <1>1, <1>8 DEF StopRelocation, segVars, cleanVars
<1>9. CASE Abort
  BY <1>1, <1>9 DEF Abort, segVars, cleanVars
<1>10. CASE UNCHANGED vars
  BY <1>1, <1>10 DEF vars, segVars, cleanVars
<1> HIDE DEF Goal
<1> QED BY Steps, <1>2, <1>3, <1>4, <1>5, <1>6, <1>7, <1>8, <1>9, <1>10

-------------------------------------------------------------------------------
(* The bytes of the live items of a segment. *)
LEMMA BytesNat ==
  ItemInv => \A s \in Segments : Bytes(LiveIn({s})) \in Nat
<1> SUFFICES ASSUME ItemInv, NEW s \in Segments PROVE Bytes(LiveIn({s})) \in Nat
  OBVIOUS
<1> DEFINE f == [k \in Live |-> map[k].size]
           S == LiveIn({s})
<1>1. S \in SUBSET Live /\ \A k \in Live : f[k] \in Nat
  BY ItemFacts DEF LiveIn
<1>2. IsFiniteSet(S)
  BY <1>1, FS_Subset DEF ItemInv
<1> HIDE DEF f, S
<1>3. SumFunctionOnSet(f, S) \in Nat
  BY <1>1, <1>2, SumNat
<1> QED BY <1>3 DEF Bytes, f, S

(* When a single item is stored or copied. *)
LEMMA BytesChange ==
  ASSUME ItemInv, ItemInv', NEW k, Live' \ {k} = Live \ {k},
         \A j \in Live \ {k} : map'[j] = map[j], NEW s \in Segments
  PROVE  Bytes(LiveIn({s}))' = Bytes(LiveIn({s}))
           - (IF k \in LiveIn({s}) THEN map[k].size ELSE 0)
           + (IF k \in LiveIn({s})' THEN map'[k].size ELSE 0)
<1> DEFINE f == [j \in Live |-> map[j].size]
           g == [j \in Live' |-> map'[j].size]
           S == {j \in Live : map[j].seg \in {s}}
           T == {j \in Live' : map'[j].seg \in {s}}
<1>1. /\ S \in SUBSET Live /\ T \in SUBSET Live'
      /\ \A j \in Live : f[j] = map[j].size /\ f[j] \in Nat
      /\ \A j \in Live' : g[j] = map'[j].size /\ g[j] \in Nat
  <2>1. \A j \in Live : map[j].size \in Nat
    BY ItemFacts
  <2>2. \A j \in Live' : map'[j].size \in Nat
    <3>1. map' \in [Live' -> [seg : Segments, size : Sizes]]
      BY DEF ItemInv
    <3> QED BY <3>1, SizesNat
  <2> QED BY <2>1, <2>2
<1>2. IsFiniteSet(S) /\ IsFiniteSet(T)
  <2>1. IsFiniteSet(Live) /\ IsFiniteSet(Live')
    BY DEF ItemInv
  <2> QED BY <1>1, <2>1, FS_Subset
<1>3. S \ {k} = T \ {k} /\ \A j \in S \ {k} : g[j] = f[j]
  OBVIOUS
<1>4. Bytes(LiveIn({s})) = SumFunctionOnSet(f, S) /\ Bytes(LiveIn({s}))' = SumFunctionOnSet(g, T)
  BY DEF Bytes, LiveIn
<1>5. LiveIn({s}) = S /\ LiveIn({s})' = T
  BY DEF LiveIn
<1>6. Ints(f, S) /\ Ints(g, T)
  BY <1>1 DEF Ints
<1>7. /\ k \in S => f[k] = map[k].size
      /\ k \in T => g[k] = map'[k].size
  BY <1>1
<1> HIDE DEF f, g, S, T
<1>8. SumFunctionOnSet(g, T) = SumFunctionOnSet(f, S)
           - (IF k \in S THEN f[k] ELSE 0) + (IF k \in T THEN g[k] ELSE 0)
  BY <1>2, <1>3, <1>6, SumReweigh
<1> QED BY <1>4, <1>5, <1>7, <1>8

(* When items are only thrown away. *)
LEMMA BytesKept ==
  ASSUME ItemInv, Live' \subseteq Live, \A j \in Live' : map'[j] = map[j], NEW s \in Segments
  PROVE  Bytes(LiveIn({s}))' =< Bytes(LiveIn({s})) /\ Bytes(LiveIn({s}))' \in Nat
<1> DEFINE f == [j \in Live |-> map[j].size]
           g == [j \in Live' |-> map'[j].size]
           S == {j \in Live : map[j].seg \in {s}}
           T == {j \in Live' : map'[j].seg \in {s}}
<1>1. /\ S \in SUBSET Live /\ T \in SUBSET S
      /\ \A j \in S : f[j] \in Nat
      /\ \A j \in T : g[j] = f[j]
  <2>1. \A j \in Live : map[j].size \in Nat
    BY ItemFacts
  <2> QED BY <2>1
<1>2. IsFiniteSet(S) /\ IsFiniteSet(T)
  <2>1. IsFiniteSet(Live)
    BY DEF ItemInv
  <2>2. IsFiniteSet(S)
    BY <1>1, <2>1, FS_Subset
  <2> QED BY <1>1, <2>2, FS_Subset
<1>3. Bytes(LiveIn({s})) = SumFunctionOnSet(f, S) /\ Bytes(LiveIn({s}))' = SumFunctionOnSet(g, T)
  BY DEF Bytes, LiveIn
<1> HIDE DEF f, g, S, T
<1>4. Ints(f, T)
  BY <1>1 DEF Ints
<1>5. SumFunctionOnSet(g, T) = SumFunctionOnSet(f, T)
  BY <1>1, <1>2, <1>4, SumSame
<1>6. SumFunctionOnSet(f, T) =< SumFunctionOnSet(f, S)
  BY <1>1, <1>2, SumNat
<1>7. SumFunctionOnSet(f, T) \in Nat
  <2>1. \A j \in T : f[j] \in Nat
    BY <1>1
  <2> QED BY <1>2, <2>1, SumNat
<1> QED BY <1>3, <1>5, <1>6, <1>7

LEMMA SpaceStep ==
  ASSUME TypeOK, ItemInv, CountInv, SpaceInv, [Next]_vars, ItemInv', CountInv', inUse' \subseteq Segments
  PROVE  SpaceInv' /\ filled_bytes' \in [Segments -> Nat]
<1> DEFINE Room == \A s \in Segments :
                     /\ Bytes(LiveIn({s})) =< filled_bytes[s]
                     /\ filled_bytes[s] > 0 => s \in inUse
                     /\ filled_bytes[s] > SegmentSize => filled_bytes[s] \in Sizes
           Empty == pc \in {"choose", "clean", "evict", "append"} => filled_bytes[head] = 0
<1>f. filled_bytes \in [Segments -> Nat] /\ head \in Segments /\ head \in inUse /\ SegmentSize \in Nat
  BY WidthAssumption DEF TypeOK, CountInv
<1>b. \A s \in Segments : Bytes(LiveIn({s})) \in Nat
  BY BytesNat
<1>e. \A s \in Segments : s \notin inUse => filled_bytes[s] = 0
  <2>1. \A s \in Segments : filled_bytes[s] > 0 => s \in inUse
    BY DEF SpaceInv
  <2>2. \A s \in Segments : filled_bytes[s] \in Nat
    BY <1>f
  <2> QED BY <2>1, <2>2
<1>1. ASSUME UNCHANGED <<map, filled_bytes>>, inUse \subseteq inUse', Empty' PROVE SpaceInv'
  <2>1. Room
    BY DEF SpaceInv
  <2>2. \A s \in Segments : Bytes(LiveIn({s}))' = Bytes(LiveIn({s}))
    BY <1>1 DEF Bytes, LiveIn, Live
  <2>3. Room'
    BY <1>1, <2>1, <2>2
  <2> QED BY <1>1, <2>3 DEF SpaceInv
<1>2. ASSUME NEW r \in Requests, Store(r), inUse' = inUse,
             Fits(head, r.size) \/ filled_bytes[head] = 0
      PROVE  SpaceInv' /\ filled_bytes' \in [Segments -> Nat]
  <2>1. /\ map' = [x \in Live \union {r.kid} |->
                     IF x = r.kid THEN [seg |-> head, size |-> r.size] ELSE map[x]]
        /\ filled_bytes' = [filled_bytes EXCEPT ![head] = filled_bytes[head] + r.size]
        /\ pc' = "ready"
    BY <1>2 DEF Store, With, Live
  <2>2. r.size \in Nat /\ r.size > 0 /\ r.size \in Sizes
    BY RequestFacts
  <2>3. Live' = Live \union {r.kid}
    BY <2>1 DEF Live
  <2>4. /\ Live' \ {r.kid} = Live \ {r.kid} /\ r.kid \in Live'
        /\ \A j \in Live \ {r.kid} : map'[j] = map[j]
        /\ map'[r.kid].seg = head /\ map'[r.kid].size = r.size
    BY <2>1, <2>3
  <2>5. /\ filled_bytes' \in [Segments -> Nat] /\ filled_bytes'[head] = filled_bytes[head] + r.size
        /\ \A s \in Segments \ {head} : filled_bytes'[s] = filled_bytes[s]
    BY <1>f, <2>1, <2>2
  <2>6. ASSUME NEW s \in Segments PROVE Bytes(LiveIn({s}))' =< filled_bytes'[s]
    <3> DEFINE x == IF r.kid \in LiveIn({s}) THEN map[r.kid].size ELSE 0
               y == IF r.kid \in LiveIn({s})' THEN map'[r.kid].size ELSE 0
               b == Bytes(LiveIn({s}))
    <3>1. Bytes(LiveIn({s}))' = b - x + y
      BY <2>4, BytesChange
    <3>2. x \in Nat
      BY ItemFacts DEF LiveIn
    <3>3. y = IF s = head THEN r.size ELSE 0
      BY <2>4 DEF LiveIn
    <3>4. b \in Nat /\ b =< filled_bytes[s] /\ filled_bytes[s] \in Nat
      BY <1>f, <1>b DEF SpaceInv
    <3> HIDE DEF x, y, b
    <3>5. CASE s = head
      BY <2>2, <2>5, <3>1, <3>2, <3>3, <3>4, <3>5
    <3>6. CASE s # head
      <4>1. filled_bytes'[s] = filled_bytes[s] /\ y = 0
        BY <2>5, <3>3, <3>6
      <4> QED BY <3>1, <3>2, <3>4, <4>1
    <3> QED BY <3>5, <3>6
  <2>7. ASSUME NEW s \in Segments
        PROVE  /\ filled_bytes'[s] > 0 => s \in inUse'
               /\ filled_bytes'[s] > SegmentSize => filled_bytes'[s] \in Sizes
    <3>1. CASE s = head
      <4>1. filled_bytes'[s] =< SegmentSize \/ filled_bytes'[s] = r.size
        BY <1>2, <1>f, <2>2, <2>5, <3>1 DEF Fits
      <4> QED BY <1>2, <1>f, <2>2, <2>5, <3>1, <4>1
    <3>2. CASE s # head
      BY <1>2, <2>5, <3>2 DEF SpaceInv
    <3> QED BY <3>1, <3>2
  <2>8. Empty'
    BY <2>1
  <2> HIDE DEF Empty
  <2> QED BY <2>5, <2>6, <2>7, <2>8 DEF SpaceInv, Empty
<1>3. ASSUME NEW r \in Requests, Hit(r) PROVE SpaceInv' /\ filled_bytes' \in [Segments -> Nat]
  BY <1>1, <1>f, <1>3 DEF Hit, segVars
<1>4. ASSUME NEW r \in Requests, StoreInHead(r) PROVE SpaceInv' /\ filled_bytes' \in [Segments -> Nat]
  BY <1>2, <1>4 DEF StoreInHead, Store
<1>5. CASE StoreAfterRollover
  <2>1. pc = "append" /\ req \in Requests
    BY <1>5 DEF StoreAfterRollover, TypeOK
  <2>2. filled_bytes[head] = 0
    BY <2>1 DEF SpaceInv
  <2> QED BY <1>2, <1>5, <2>1, <2>2 DEF StoreAfterRollover, Store
<1>6. ASSUME NEW r \in Requests, Rollover(r) PROVE SpaceInv' /\ filled_bytes' \in [Segments -> Nat]
  <2>1. /\ UNCHANGED <<map, filled_bytes>> /\ inUse \subseteq inUse' /\ head' \in FirstFree
    BY <1>6 DEF Rollover, Construct
  <2>2. head' \in Segments /\ head' \notin inUse
    BY <2>1 DEF FirstFree
  <2>3. filled_bytes[head'] = 0
    BY <1>e, <2>2
  <2> QED BY <1>1, <1>f, <2>1, <2>3
<1>7. CASE StartClean
  <2>1. UNCHANGED <<map, filled_bytes, head>> /\ inUse \subseteq inUse' /\ pc = "choose"
    BY <1>7 DEF StartClean, Construct, itemVars
  <2>2. Empty'
    BY <2>1 DEF SpaceInv
  <2> QED BY <1>1, <1>f, <2>1, <2>2
<1>8. ASSUME NEW k \in Live, Copies(k) PROVE SpaceInv' /\ filled_bytes' \in [Segments -> Nat]
  <2>1. PICK s \in Segments :
          /\ pc = "clean" /\ Relocate(k, s)
          /\ \/ s \in ToSet(dst_segments) /\ Fits(s, map[k].size) /\ inUse' = inUse
             \/ /\ s \notin inUse /\ inUse' = inUse \union {s} /\ map[k].size =< SegmentSize
    BY <1>8, CopyFacts
  <2>2. /\ map' = [map EXCEPT ![k].seg = s]
        /\ filled_bytes' = [filled_bytes EXCEPT ![s] = filled_bytes[s] + map[k].size]
        /\ pc' = "clean" /\ head' = head
    BY <2>1 DEF Relocate
  <2>3. /\ Live' = Live /\ \A j \in Live \ {k} : map'[j] = map[j]
        /\ map'[k].seg = s /\ map'[k].size = map[k].size
    BY <2>2 DEF ItemInv, Live
  <2>4. map[k].size \in Nat /\ map[k].seg \in inUse
    BY ItemFacts DEF ItemInv
  <2>5. /\ filled_bytes' \in [Segments -> Nat] /\ filled_bytes'[s] = filled_bytes[s] + map[k].size
        /\ \A t \in Segments \ {s} : filled_bytes'[t] = filled_bytes[t]
    BY <1>f, <2>2, <2>4
  <2>6. s \in inUse' /\ inUse \subseteq inUse' /\ s # head
    BY <1>f, <2>1 DEF CountInv, NonHead
  <2>7. filled_bytes'[s] =< SegmentSize
    <3>1. CASE Fits(s, map[k].size)
      BY <2>5, <3>1 DEF Fits
    <3>2. CASE s \notin inUse /\ map[k].size =< SegmentSize
      <4>1. filled_bytes[s] = 0
        BY <1>e, <3>2
      <4> QED BY <2>4, <2>5, <3>2, <4>1
    <3> QED BY <2>1, <3>1, <3>2
  <2>8. ASSUME NEW t \in Segments PROVE Bytes(LiveIn({t}))' =< filled_bytes'[t]
    <3> DEFINE x == IF k \in LiveIn({t}) THEN map[k].size ELSE 0
               y == IF k \in LiveIn({t})' THEN map'[k].size ELSE 0
               b == Bytes(LiveIn({t}))
    <3>1. Bytes(LiveIn({t}))' = b - x + y
      BY <2>3, BytesChange
    <3>2. x \in Nat
      BY <2>4
    <3>3. y = IF t = s THEN map[k].size ELSE 0
      BY <2>3 DEF LiveIn
    <3>4. b \in Nat /\ b =< filled_bytes[t] /\ filled_bytes[t] \in Nat
      BY <1>f, <1>b DEF SpaceInv
    <3> HIDE DEF x, y, b
    <3>5. CASE t = s
      BY <2>4, <2>5, <3>1, <3>2, <3>3, <3>4, <3>5
    <3>6. CASE t # s
      <4>1. filled_bytes'[t] = filled_bytes[t] /\ y = 0
        BY <2>5, <3>3, <3>6
      <4> QED BY <3>1, <3>2, <3>4, <4>1
    <3> QED BY <3>5, <3>6
  <2>9. ASSUME NEW t \in Segments
        PROVE  /\ filled_bytes'[t] > 0 => t \in inUse'
               /\ filled_bytes'[t] > SegmentSize => filled_bytes'[t] \in Sizes
    <3>1. CASE t = s
      BY <1>f, <2>5, <2>6, <2>7, <3>1
    <3>2. CASE t # s
      BY <2>5, <2>6, <3>2 DEF SpaceInv
    <3> QED BY <3>1, <3>2
  <2>10. Empty'
    <3>1. filled_bytes[head] = 0
      BY <2>1 DEF SpaceInv
    <3> QED BY <1>f, <2>2, <2>5, <2>6, <3>1
  <2> HIDE DEF Empty
  <2> QED BY <2>5, <2>8, <2>9, <2>10 DEF SpaceInv, Empty
<1>9. CASE Evict
  <2>1. /\ map' = [x \in Live \ LiveIn(srcs) |-> map[x]] /\ inUse' = inUse \ srcs
        /\ filled_bytes' = [s \in Segments |-> IF s \in srcs THEN 0 ELSE filled_bytes[s]]
        /\ head' = head /\ pc = "evict"
    BY <1>9 DEF Evict, Without, Live
  <2>2. Live' = Live \ LiveIn(srcs) /\ \A k \in Live' : map'[k] = map[k]
    BY <2>1 DEF Live
  <2>3. ASSUME NEW s \in Segments PROVE Bytes(LiveIn({s}))' =< filled_bytes'[s]
    <3>1. CASE s \in srcs
      <4>1. LiveIn({s})' = {}
        BY <2>2, <3>1 DEF LiveIn
      <4>2. Bytes(LiveIn({s}))' = 0
        BY <4>1, SumEmpty DEF Bytes
      <4> QED BY <2>1, <3>1, <4>2
    <3>2. CASE s \notin srcs
      <4>1. Bytes(LiveIn({s}))' =< Bytes(LiveIn({s})) /\ Bytes(LiveIn({s}))' \in Nat
        BY <2>2, BytesKept
      <4>2. Bytes(LiveIn({s})) \in Nat
        BY <1>b
      <4>3. Bytes(LiveIn({s})) =< filled_bytes[s] /\ filled_bytes'[s] = filled_bytes[s]
        BY <2>1, <3>2 DEF SpaceInv
      <4> QED BY <1>f, <4>1, <4>2, <4>3
    <3> QED BY <3>1, <3>2
  <2>4. ASSUME NEW s \in Segments
        PROVE  /\ filled_bytes'[s] > 0 => s \in inUse'
               /\ filled_bytes'[s] > SegmentSize => filled_bytes'[s] \in Sizes
    <3>1. CASE s \in srcs
      BY <1>f, <2>1, <3>1
    <3>2. CASE s \notin srcs
      BY <2>1, <3>2 DEF SpaceInv
    <3> QED BY <3>1, <3>2
  <2>5. Empty' /\ filled_bytes' \in [Segments -> Nat]
    BY <1>f, <2>1 DEF SpaceInv
  <2> HIDE DEF Empty
  <2> QED BY <2>3, <2>4, <2>5 DEF SpaceInv, Empty
<1>10. CASE StopRelocation \/ Abort \/ UNCHANGED vars
  <2>1. /\ UNCHANGED <<map, filled_bytes, inUse, head>>
        /\ pc' \in {"choose", "clean", "evict", "append"} => pc \in {"choose", "clean", "evict", "append"}
    BY <1>10 DEF StopRelocation, Abort, vars, segVars, itemVars
  <2>2. Empty'
    BY <2>1 DEF SpaceInv
  <2> QED BY <1>1, <1>f, <2>1, <2>2
<1> HIDE DEF Room, Empty
<1> QED BY Steps, <1>3, <1>4, <1>5, <1>6, <1>7, <1>8, <1>9, <1>10

-------------------------------------------------------------------------------
(* Later, as an order on the timeline. *)
LEMMA LaterIsBefore ==
  ASSUME TimeInv, NEW x, NEW y
  PROVE  Later(x, y) <=> /\ x \in ToSet(timeline)
                         /\ y \in ToSet(timeline) => Before(timeline, x, y)
<1> DEFINE t == timeline
           i == Place(t, x)
           j == Place(t, y)
<1>1. \A z : z \in ToSet(t) => Place(t, z) \in DOMAIN t /\ t[Place(t, z)] = z
  BY DEF ToSet, Place
<1>2. \A l, m \in DOMAIN t : t[l] = t[m] => l = m
  BY DEF TimeInv, IsInjective
<1>3. ASSUME x \in ToSet(t), y \in ToSet(t) PROVE i < j <=> Before(t, x, y)
  <2>1. i \in DOMAIN t /\ t[i] = x /\ j \in DOMAIN t /\ t[j] = y
    BY <1>1, <1>3
  <2> HIDE DEF i, j, t
  <2> QED BY <1>2, <2>1 DEF Before
<1> QED BY <1>3 DEF Later

(* The order of the timeline, with the promoted item in front. *)
LEMMA FrontOfTimeline ==
  ASSUME TimeInv, NEW x \in Times, timeline' = ToFront(timeline, x)
  PROVE  /\ timeline' \in Seq(Times) /\ ToSet(timeline') = {x} \union ToSet(timeline)
         /\ IsInjective(timeline')
         /\ \A y, z : y # x /\ z # x => (Before(timeline', y, z) <=> Before(timeline, y, z))
         /\ \A y \in ToSet(timeline) \ {x} : Before(timeline', x, y)
<1>1. timeline \in Seq(Times) /\ IsInjective(timeline)
  BY DEF TimeInv
<1> QED BY <1>1, MoveToFront

LEMMA Promotion ==
  ASSUME TimeInv, NEW k \in Keys, timeline' = <<Item(k)>> \o Erase(timeline, {Item(k)})
  PROVE  /\ timeline' \in Seq(Times) /\ IsInjective(timeline')
         /\ ToSet(timeline') = {Item(k)} \union ToSet(timeline)
         /\ \A y, z : y # Item(k) /\ z # Item(k) => (Before(timeline', y, z) <=> Before(timeline, y, z))
         /\ \A y \in ToSet(timeline) \ {Item(k)} : Before(timeline', Item(k), y)
<1>1. timeline' = ToFront(timeline, Item(k)) /\ Item(k) \in Times
  BY TimesDiffer DEF ToFront
<1> QED BY <1>1, FrontOfTimeline

(* A copied item and all that are newer are before the new low_timestamp   *)
(* of the destination.                                                     *)
LEMMA Restamping ==
  ASSUME TimeInv, ItemInv, NEW k \in Live, NEW s \in Segments, timeline' = Restamped(s, k)
  PROVE  /\ timeline' \in Seq(Times) /\ IsInjective(timeline')
         /\ ToSet(timeline') = {Low(s)} \union ToSet(timeline)
         /\ \A y, z : y # Low(s) /\ z # Low(s) => (Before(timeline', y, z) <=> Before(timeline, y, z))
         /\ \A y : y # Low(s) =>
              (Before(timeline', y, Low(s)) <=> y = Item(k) \/ Before(timeline, y, Item(k)))
<1> DEFINE x == Low(s)
           e == Item(k)
           u == Erase(timeline, {x})
           i == Place(u, e)
<1>1. timeline \in Seq(Times) /\ IsInjective(timeline) /\ x \in Times /\ x # e /\ e \in ToSet(timeline)
  BY TimesDiffer, ItemFacts DEF TimeInv
<1>2. timeline' = SubSeq(u, 1, i) \o <<x>> \o SubSeq(u, i + 1, Len(u))
  BY DEF Restamped
<1> HIDE DEF x, e
<1>3. u \in Seq(Times) /\ ToSet(u) = ToSet(timeline) \ {x} /\ IsInjective(u)
  BY <1>1, EraseSet, EraseDistinct
<1>4. \A y, z : y # x /\ z # x => (Before(u, y, z) <=> Before(timeline, y, z))
  BY <1>1, EraseOrder
<1> HIDE DEF u
<1>5. i \in DOMAIN u /\ u[i] = e
  BY <1>1, <1>3 DEF ToSet, Place
<1>6. i \in 1 .. Len(u)
  BY <1>3, <1>5
<1> HIDE DEF i
<1>7. x \notin ToSet(u)
  BY <1>3
<1>8. /\ timeline' \in Seq(Times) /\ ToSet(timeline') = {x} \union ToSet(u) /\ IsInjective(timeline')
      /\ \A y, z : y # x /\ z # x => (Before(timeline', y, z) <=> Before(u, y, z))
      /\ \A y : Before(timeline', y, x) <=> y = u[i] \/ Before(u, y, u[i])
  BY <1>1, <1>2, <1>3, <1>6, <1>7, InsertBehind
<1>9. \A y : y # x => (Before(timeline', y, x) <=> y = e \/ Before(timeline, y, e))
  BY <1>1, <1>4, <1>5, <1>8
<1> QED BY <1>3, <1>4, <1>8, <1>9 DEF x, e

(* The sources' items and low_timestamps are taken off. *)
LEMMA Dropping ==
  ASSUME TimeInv, NEW E, timeline' = Erase(timeline, E)
  PROVE  /\ timeline' \in Seq(Times) /\ IsInjective(timeline')
         /\ ToSet(timeline') = ToSet(timeline) \ E
         /\ \A y, z : y \notin E /\ z \notin E => (Before(timeline', y, z) <=> Before(timeline, y, z))
<1>1. timeline \in Seq(Times) /\ IsInjective(timeline)
  BY DEF TimeInv
<1> QED BY <1>1, EraseSet, EraseDistinct, EraseOrder

-------------------------------------------------------------------------------
LEMMA TimeStep ==
  ASSUME TypeOK, ItemInv, CountInv, TimeInv, [Next]_vars
  PROVE  TimeInv'
<1>1. ASSUME NEW r \in Requests, timeline' = <<Item(r.kid)>> \o Erase(timeline, {Item(r.kid)}),
             Live' = Live \union {r.kid}, inUse' = inUse
      PROVE  TimeInv'
  <2>1. r.kid \in Keys
    BY RequestFacts
  <2>2. /\ timeline' \in Seq(Times) /\ IsInjective(timeline')
        /\ ToSet(timeline') = {Item(r.kid)} \union ToSet(timeline)
    BY <1>1, <2>1, Promotion
  <2>3. \A k \in Keys : Item(k) \in ToSet(timeline') <=> k \in Live'
    BY <1>1, <2>1, <2>2, TimesDiffer DEF TimeInv
  <2>4. \A s \in Segments : Low(s) \in ToSet(timeline') => s \in inUse'
    BY <1>1, <2>1, <2>2, TimesDiffer DEF TimeInv
  <2> QED BY <2>2, <2>3, <2>4 DEF TimeInv
<1>2. ASSUME UNCHANGED timeline, Live' = Live, inUse \subseteq inUse' PROVE TimeInv'
  BY <1>2 DEF TimeInv
<1>3. ASSUME NEW r \in Requests, Hit(r) PROVE TimeInv'
  BY <1>1, <1>3 DEF Hit, segVars, IsHit, Live
<1>4. ASSUME NEW r \in Requests, StoreInHead(r) PROVE TimeInv'
  BY <1>1, <1>4 DEF StoreInHead, Store, With, Live
<1>5. CASE StoreAfterRollover
  BY <1>1, <1>5 DEF StoreAfterRollover, Store, With, Live, TypeOK
<1>6. ASSUME NEW r \in Requests, Rollover(r) PROVE TimeInv'
  <2>1. /\ head' \in Segments /\ head' \notin inUse /\ inUse' = inUse \union {head'}
        /\ timeline' = <<Low(head')>> \o timeline /\ map' = map
    BY <1>6 DEF Rollover, FirstFree, Construct
  <2>2. timeline \in Seq(Times) /\ IsInjective(timeline) /\ Low(head') \in Times
        /\ Low(head') \notin ToSet(timeline)
    BY <2>1, TimesDiffer DEF TimeInv
  <2>3. /\ timeline' \in Seq(Times) /\ IsInjective(timeline')
        /\ ToSet(timeline') = {Low(head')} \union ToSet(timeline)
    BY <2>1, <2>2, PushFront
  <2>4. /\ \A k \in Keys : Item(k) \in ToSet(timeline') <=> k \in Live'
        /\ \A s \in Segments : Low(s) \in ToSet(timeline') => s \in inUse'
    BY <2>1, <2>3, TimesDiffer DEF TimeInv, Live
  <2> QED BY <2>3, <2>4 DEF TimeInv
<1>7. CASE StartClean
  BY <1>2, <1>7 DEF StartClean, Construct, itemVars, Live
<1>8. ASSUME NEW k \in Live, Copies(k) PROVE TimeInv'
  <2>1. PICK s \in Segments : Relocate(k, s) /\ inUse \subseteq inUse' /\ s \in inUse'
    BY <1>8, CopyFacts DEF CountInv, NonHead
  <2>2. timeline' = Restamped(s, k) /\ Live' = Live
    BY <2>1 DEF Relocate, Live
  <2>3. /\ timeline' \in Seq(Times) /\ IsInjective(timeline')
        /\ ToSet(timeline') = {Low(s)} \union ToSet(timeline)
    BY <2>2, Restamping
  <2>4. /\ \A j \in Keys : Item(j) \in ToSet(timeline') <=> j \in Live'
        /\ \A t \in Segments : Low(t) \in ToSet(timeline') => t \in inUse'
    BY <2>1, <2>2, <2>3, TimesDiffer DEF TimeInv
  <2> QED BY <2>3, <2>4 DEF TimeInv
<1>9. CASE Evict
  <2> DEFINE E == {Item(k) : k \in LiveIn(srcs)} \union {Low(s) : s \in srcs}
  <2>1. timeline' = Erase(timeline, E) /\ Live' = Live \ LiveIn(srcs) /\ inUse' = inUse \ srcs
    BY <1>9 DEF Evict, Without, Live
  <2>2. \A k : Item(k) \in E <=> k \in LiveIn(srcs)
    BY TimesDiffer
  <2>3. \A s : Low(s) \in E <=> s \in srcs
    BY TimesDiffer
  <2> HIDE DEF E
  <2>4. /\ timeline' \in Seq(Times) /\ IsInjective(timeline')
        /\ ToSet(timeline') = ToSet(timeline) \ E
    BY <2>1, Dropping
  <2>5. /\ \A k \in Keys : Item(k) \in ToSet(timeline') <=> k \in Live'
        /\ \A s \in Segments : Low(s) \in ToSet(timeline') => s \in inUse'
    BY <2>1, <2>2, <2>3, <2>4 DEF TimeInv
  <2> QED BY <2>4, <2>5 DEF TimeInv
<1>10. CASE StopRelocation \/ Abort \/ UNCHANGED vars
  BY <1>2, <1>10 DEF StopRelocation, Abort, vars, segVars, itemVars, Live
<1> QED BY Steps, <1>3, <1>4, <1>5, <1>6, <1>7, <1>8, <1>9, <1>10

-------------------------------------------------------------------------------
(* Low timestamps: a copied item moves to a destination whose other items  *)
(* are newer than all that is left in the sources, and stamps it.          *)
LEMMA LowStep ==
  ASSUME TypeOK, ItemInv, CountInv, TimeInv, LowInv, KeptInv, [Next]_vars
  PROVE  LowInv'
<1>1. ASSUME NEW r \in Requests, timeline' = <<Item(r.kid)>> \o Erase(timeline, {Item(r.kid)}),
             Live' = Live \union {r.kid}, \A j \in Live \ {r.kid} : map'[j] = map[j]
      PROVE  LowInv'
  <2>1. r.kid \in Keys
    BY RequestFacts
  <2>2. /\ ToSet(timeline') = {Item(r.kid)} \union ToSet(timeline)
        /\ \A y, z : y # Item(r.kid) /\ z # Item(r.kid) =>
             (Before(timeline', y, z) <=> Before(timeline, y, z))
        /\ \A y \in ToSet(timeline) \ {Item(r.kid)} : Before(timeline', Item(r.kid), y)
    BY <1>1, <2>1, Promotion
  <2>3. ASSUME NEW j \in Live', NEW l, l = Low(map'[j].seg), l \in ToSet(timeline')
        PROVE  Before(timeline', Item(j), l)
    <3>1. l # Item(r.kid) /\ l \in ToSet(timeline)
      BY <2>2, <2>3, TimesDiffer
    <3>2. CASE j = r.kid
      BY <2>2, <3>1, <3>2
    <3>3. CASE j # r.kid
      <4>1. j \in Live /\ map'[j] = map[j] /\ Item(j) # Item(r.kid)
        BY <1>1, <3>3, TimesDiffer
      <4>2. Before(timeline, Item(j), l)
        BY <2>3, <3>1, <4>1 DEF LowInv
      <4> QED BY <2>2, <3>1, <4>1, <4>2
    <3> QED BY <3>2, <3>3
  <2> QED BY <2>3 DEF LowInv
<1>2. ASSUME UNCHANGED <<map, timeline>> PROVE LowInv'
  BY <1>2 DEF LowInv, Live
<1>3. ASSUME NEW r \in Requests, Hit(r) PROVE LowInv'
  BY <1>1, <1>3 DEF Hit, IsHit, Live
<1>4. ASSUME NEW r \in Requests, StoreInHead(r) PROVE LowInv'
  BY <1>1, <1>4 DEF StoreInHead, Store, With, Live
<1>5. CASE StoreAfterRollover
  BY <1>1, <1>5 DEF StoreAfterRollover, Store, With, Live, TypeOK
<1>6. ASSUME NEW r \in Requests, Rollover(r) PROVE LowInv'
  <2>1. /\ head' \in Segments /\ head' \notin inUse
        /\ timeline' = <<Low(head')>> \o timeline /\ map' = map
    BY <1>6 DEF Rollover, FirstFree
  <2>2. timeline \in Seq(Times) /\ Low(head') \in Times /\ Low(head') \notin ToSet(timeline)
    BY <2>1, TimesDiffer DEF TimeInv
  <2>3. /\ ToSet(timeline') = {Low(head')} \union ToSet(timeline)
        /\ \A y, z : Before(timeline', y, z) <=>
             (y = Low(head') /\ z \in ToSet(timeline)) \/ Before(timeline, y, z)
    BY <2>1, <2>2, PushFront
  <2>4. ASSUME NEW j \in Live', NEW l, l = Low(map'[j].seg), l \in ToSet(timeline')
        PROVE  Before(timeline', Item(j), l)
    <3>1. j \in Live /\ map[j].seg # head' /\ l = Low(map[j].seg)
      BY <2>1, <2>4 DEF Live, ItemInv
    <3>2. l \in ToSet(timeline)
      BY <2>3, <2>4, <3>1, TimesDiffer
    <3>3. Before(timeline, Item(j), l)
      BY <3>1, <3>2 DEF LowInv
    <3> QED BY <2>3, <3>3
  <2> QED BY <2>4 DEF LowInv
<1>7. CASE StartClean
  BY <1>2, <1>7 DEF StartClean, itemVars
<1>8. ASSUME NEW k \in Live, Copies(k) PROVE LowInv'
  <2>1. PICK s \in Segments :
          /\ pc = "clean" /\ k \in NextItem /\ Relocate(k, s)
          /\ s \in ToSet(dst_segments) \/ s \notin inUse
    BY <1>8, CopyFacts
  <2>2. timeline' = Restamped(s, k) /\ map' = [map EXCEPT ![k].seg = s]
    BY <2>1 DEF Relocate
  <2>3. Live' = Live /\ map'[k].seg = s /\ \A j \in Live \ {k} : map'[j] = map[j]
    BY <2>2 DEF ItemInv, Live
  <2>4. /\ ToSet(timeline') = {Low(s)} \union ToSet(timeline)
        /\ \A y, z : y # Low(s) /\ z # Low(s) =>
             (Before(timeline', y, z) <=> Before(timeline, y, z))
        /\ \A y : y # Low(s) =>
             (Before(timeline', y, Low(s)) <=> y = Item(k) \/ Before(timeline, y, Item(k)))
    BY <2>2, Restamping
  <2>5. k \in LiveIn(srcs)
    BY <2>1 DEF NextItem
  <2>6. ASSUME NEW j \in Live', NEW l, l = Low(map'[j].seg), l \in ToSet(timeline')
        PROVE  Before(timeline', Item(j), l)
    <3>1. CASE map'[j].seg = s
      <4>1. j = k \/ Before(timeline, Item(j), Item(k))
        <5>1. CASE j # k
          <6>1. j \in Live /\ map[j].seg = s /\ map[j].seg \in inUse
            BY <2>3, <3>1, <5>1 DEF ItemInv
          <6>2. j \in LiveIn(ToSet(dst_segments))
            BY <2>1, <6>1 DEF LiveIn
          <6> QED BY <2>1, <2>5, <6>2 DEF KeptInv
        <5> QED BY <5>1
      <4>2. Item(j) # Low(s)
        BY TimesDiffer
      <4> QED BY <2>4, <2>6, <3>1, <4>1, <4>2
    <3>2. CASE map'[j].seg # s
      <4>1. j \in Live /\ map'[j] = map[j] /\ l # Low(s) /\ Item(j) # Low(s)
        BY <2>3, <2>6, <3>2, TimesDiffer
      <4>2. Before(timeline, Item(j), l)
        BY <2>4, <2>6, <4>1 DEF LowInv
      <4> QED BY <2>4, <4>1, <4>2
    <3> QED BY <3>1, <3>2
  <2> QED BY <2>6 DEF LowInv
<1>9. CASE Evict
  <2> DEFINE E == {Item(k) : k \in LiveIn(srcs)} \union {Low(s) : s \in srcs}
  <2>1. timeline' = Erase(timeline, E) /\ map' = [x \in Live \ LiveIn(srcs) |-> map[x]]
    BY <1>9 DEF Evict, Without, Live
  <2>2. Live' = Live \ LiveIn(srcs) /\ \A j \in Live' : map'[j] = map[j] /\ map[j].seg \notin srcs
    BY <2>1 DEF Live, LiveIn
  <2>3. \A j \in Live' : Item(j) \notin E /\ Low(map[j].seg) \notin E
    BY <2>2, TimesDiffer
  <2> HIDE DEF E
  <2>4. /\ ToSet(timeline') = ToSet(timeline) \ E
        /\ \A y, z : y \notin E /\ z \notin E => (Before(timeline', y, z) <=> Before(timeline, y, z))
    BY <2>1, Dropping
  <2>5. ASSUME NEW j \in Live', Low(map'[j].seg) \in ToSet(timeline')
        PROVE  Before(timeline', Item(j), Low(map'[j].seg))
    <3>1. j \in Live /\ map'[j] = map[j] /\ Low(map[j].seg) \in ToSet(timeline)
      BY <2>2, <2>4, <2>5
    <3>2. Before(timeline, Item(j), Low(map[j].seg))
      BY <3>1 DEF LowInv
    <3> QED BY <2>3, <2>4, <3>1, <3>2
  <2> QED BY <2>5 DEF LowInv
<1>10. CASE StopRelocation \/ Abort \/ UNCHANGED vars
  BY <1>2, <1>10 DEF StopRelocation, Abort, vars, itemVars
<1> QED BY Steps, <1>3, <1>4, <1>5, <1>6, <1>7, <1>8, <1>9, <1>10

(* The cleaner comes to the newest item first. *)
LEMMA KeptStep ==
  ASSUME TypeOK, ItemInv, CountInv, TimeInv, KeptInv, [Next]_vars
  PROVE  KeptInv'
<1>1. ASSUME UNCHANGED <<map, timeline, srcs, dst_segments>>,
             pc' \in {"clean", "evict"} => pc \in {"clean", "evict"}
      PROVE  KeptInv'
  BY <1>1 DEF KeptInv, LiveIn, Live
<1>2. ASSUME NEW r \in Requests, Hit(r) \/ StoreInHead(r) \/ Rollover(r) PROVE KeptInv'
  <2>1. pc' \in {"ready", "choose", "append"}
    BY <1>2 DEF Hit, StoreInHead, Store, Rollover
  <2> QED BY <2>1 DEF KeptInv
<1>3. CASE StoreAfterRollover \/ Evict
  <2>1. pc' \in {"ready", "append"}
    BY <1>3 DEF StoreAfterRollover, Store, Evict
  <2> QED BY <2>1 DEF KeptInv
<1>4. CASE StartClean
  <2>1. PICK s \in FirstFree : dst_segments' = <<s>> /\ map' = map
    BY <1>4 DEF StartClean, itemVars
  <2>2. s \notin inUse /\ ToSet(dst_segments') = {s}
    <3>1. DOMAIN <<s>> = {1} /\ <<s>>[1] = s
      OBVIOUS
    <3> QED BY <2>1, <3>1 DEF FirstFree, ToSet
  <2>3. LiveIn(ToSet(dst_segments))' = {}
    BY <2>1, <2>2 DEF LiveIn, Live, ItemInv
  <2> QED BY <2>3 DEF KeptInv
<1>5. ASSUME NEW k \in Live, Copies(k) PROVE KeptInv'
  <2>1. PICK s \in Segments :
          /\ pc = "clean" /\ k \in NextItem /\ Relocate(k, s)
          /\ \/ s \in ToSet(dst_segments) /\ dst_segments' = dst_segments
             \/ s \notin inUse /\ dst_segments' = Append(dst_segments, s)
    BY <1>5, CopyFacts
  <2>2. timeline' = Restamped(s, k) /\ map' = [map EXCEPT ![k].seg = s] /\ srcs' = srcs
    BY <2>1 DEF Relocate
  <2>3. Live' = Live /\ map'[k].seg = s /\ \A j \in Live \ {k} : map'[j] = map[j]
    BY <2>2 DEF ItemInv, Live
  <2>4. \A y, z : y # Low(s) /\ z # Low(s) => (Before(timeline', y, z) <=> Before(timeline, y, z))
    BY <2>2, Restamping
  <2>5. k \in LiveIn(srcs) /\ \A j \in LiveIn(srcs) \ {k} : Later(Item(k), Item(j))
    BY <2>1 DEF NextItem
  <2>6. s \notin srcs
    BY <2>1 DEF CountInv, NonHead
  <2>7. ToSet(dst_segments') = ToSet(dst_segments) \/
        (s \notin inUse /\ ToSet(dst_segments') = ToSet(dst_segments) \union {s})
    BY <2>1, AppendSet, ZenonT(40) DEF TypeOK
  <2>8. ASSUME NEW i \in LiveIn(srcs)', NEW j \in LiveIn(ToSet(dst_segments))'
        PROVE  Before(timeline', Item(j), Item(i))
    <3>1. i \in LiveIn(srcs) /\ i # k
      BY <2>2, <2>3, <2>6, <2>8 DEF LiveIn
    <3>2. Before(timeline, Item(j), Item(i))
      <4>1. CASE j = k
        <5>1. Later(Item(k), Item(i)) /\ i \in Live
          BY <2>5, <3>1 DEF LiveIn
        <5>2. Item(i) \in ToSet(timeline)
          BY <5>1 DEF TimeInv, ItemInv
        <5> QED BY <4>1, <5>1, <5>2, LaterIsBefore
      <4>2. CASE j # k
        <5>1. j \in Live /\ map[j].seg \in ToSet(dst_segments') /\ map[j].seg \in inUse
          BY <2>3, <2>8, <4>2 DEF LiveIn, ItemInv
        <5>2. j \in LiveIn(ToSet(dst_segments))
          BY <2>7, <5>1 DEF LiveIn
        <5> QED BY <2>1, <3>1, <5>2 DEF KeptInv
      <4> QED BY <4>1, <4>2
    <3>3. Item(j) # Low(s) /\ Item(i) # Low(s)
      BY TimesDiffer
    <3> QED BY <2>4, <3>2, <3>3
  <2> QED BY <2>8 DEF KeptInv
<1>6. CASE StopRelocation \/ Abort \/ UNCHANGED vars
  BY <1>1, <1>6 DEF StopRelocation, Abort, vars, itemVars, cleanVars
<1> QED BY Steps, <1>2, <1>3, <1>4, <1>5, <1>6

-------------------------------------------------------------------------------
(* Of some segments, one is not later than any: one without a place on the *)
(* timeline, or the last one there.                                        *)
LEMMA LowestExists ==
  ASSUME timeline \in Seq(Times), NEW M, M # {}
  PROVE  \E m \in M : \A t \in M : ~ Later(Low(m), Low(t))
<1> DEFINE place(m) == Place(timeline, Low(m))
           n == Len(timeline)
<1>1. CASE \E m \in M : Low(m) \notin ToSet(timeline)
  BY <1>1 DEF Later
<1>2. CASE \A m \in M : Low(m) \in ToSet(timeline)
  <2>1. n \in Nat /\ \A m \in M : place(m) \in 1 .. n
    BY <1>2 DEF ToSet, Place
  <2>2. \A m, t \in M : Later(Low(m), Low(t)) => place(m) < place(t)
    BY <1>2 DEF Later
  <2> HIDE DEF place, n
  <2> DEFINE D == {n - place(m) : m \in M}
  <2>3. D \in SUBSET Nat /\ D # {}
    BY <2>1
  <2>4. PICK d \in D : \A e \in D : d =< e
    BY <2>3, LeastElement
  <2>5. PICK m \in M : d = n - place(m)
    OBVIOUS
  <2>6. ASSUME NEW t \in M PROVE ~ Later(Low(m), Low(t))
    <3>1. n - place(m) =< n - place(t)
      BY <2>4, <2>5
    <3>2. ~ (place(m) < place(t))
      <4>1. place(m) \in Nat /\ place(t) \in Nat
        BY <2>1
      <4> QED BY <2>1, <3>1, <4>1
    <3> QED BY <2>2, <3>2
  <2> QED BY <2>6
<1> QED BY <1>1, <1>2

(* The cleaner finds its sources: as many segments as it needs, none of    *)
(* which is later than a segment that it leaves alone.                     *)
LEMMA SourcesExist ==
  ASSUME TypeOK, CountInv, TimeInv, pc = "choose"
  PROVE  Sources # {}
<1> DEFINE Low1(S) == \A s \in S, t \in NonHead \ S : ~ Later(Low(s), Low(t))
           N == {n \in Nat : n =< Cardinality(NonHead) =>
                   \E S \in SUBSET NonHead : Cardinality(S) = n /\ Low1(S)}
<1>1. NonHead \in SUBSET Segments /\ IsFiniteSet(NonHead) /\ Cardinality(NonHead) \in Nat
  <2>1. NonHead \in SUBSET Segments
    BY DEF TypeOK, NonHead
  <2> QED BY <2>1, UsedFinite
<1>2. 0 \in N
  <2>1. Cardinality({}) = 0 /\ Low1({}) /\ {} \in SUBSET NonHead
    BY FS_EmptySet
  <2> QED BY <2>1
<1>3. ASSUME NEW n \in Nat, n \in N PROVE n + 1 \in N
  <2> SUFFICES ASSUME n + 1 =< Cardinality(NonHead)
               PROVE  \E S \in SUBSET NonHead : Cardinality(S) = n + 1 /\ Low1(S)
    OBVIOUS
  <2>1. n =< Cardinality(NonHead) /\ n # Cardinality(NonHead)
    BY <1>1
  <2>2. PICK S \in SUBSET NonHead : Cardinality(S) = n /\ Low1(S)
    BY <1>3, <2>1
  <2>3. NonHead \ S # {}
    <3>1. S # NonHead
      BY <2>1, <2>2
    <3> QED BY <3>1
  <2>4. PICK m \in NonHead \ S : \A t \in NonHead \ S : ~ Later(Low(m), Low(t))
    BY <2>3, LowestExists DEF TimeInv
  <2>5. IsFiniteSet(S)
    BY <1>1, FS_Subset
  <2>6. Cardinality(S \union {m}) = n + 1
    BY <2>2, <2>5, FS_AddElement
  <2>7. Low1(S \union {m})
    BY <2>2, <2>4
  <2>8. S \union {m} \in SUBSET NonHead
    OBVIOUS
  <2> HIDE DEF Low1
  <2> QED BY <2>6, <2>7, <2>8
<1>4. Nat \subseteq N
  <2> HIDE DEF N
  <2> QED BY <1>2, <1>3, NatSetInduction
<1>5. cleaning_width \in Nat /\ cleaning_width =< Cardinality(NonHead)
  <2>1. cleaning_width \in Nat \ {0} /\ NumSegments > 2 * cleaning_width /\ NumSegments \in Nat
    BY WidthAssumption DEF TypeOK
  <2>2. inUse \in SUBSET Segments /\ head \in inUse /\ free_segments = cleaning_width - 1
        /\ free_segments = NumSegments - Cardinality(inUse)
    BY DEF TypeOK, CountInv
  <2>3. Cardinality(NonHead) = Cardinality(inUse) - 1 /\ Cardinality(inUse) \in Nat
    BY <2>2, UsedFinite, FS_RemoveElement DEF NonHead
  <2> QED BY <2>1, <2>2, <2>3
<1>6. PICK S \in SUBSET NonHead : Cardinality(S) = cleaning_width /\ Low1(S)
  BY <1>4, <1>5
<1> QED BY <1>6 DEF Sources, kSubset

LEMMA AbortStep ==
  ASSUME TypeOK, ItemInv, CountInv, TimeInv, AbortInv, [Next]_vars
  PROVE  AbortInv'
<1>w. cleaning_width \in Nat \ {0} /\ free_segments \in Nat
  BY WidthAssumption, SegmentsFinite DEF TypeOK
<1>1. CASE Abort
  <2>1. UNCHANGED <<cleaning_width, map, timeline, srcs, free_segments>>
    BY <1>1, SameWidth DEF Abort, itemVars, segVars, cleanVars
  <2>2. NextItem' = NextItem /\ \A k \in NextItem : map'[k] = map[k]
    BY <2>1 DEF NextItem, LiveIn, Live, Later
  <2>3. FirstFree = {} => free_segments = 0
    BY FirstFreeExists DEF TypeOK, CountInv
  <2>4. CASE pc = "ready" /\ FirstFree = {}
    BY <1>w, <2>3, <2>4 DEF CountInv
  <2>5. CASE pc = "choose" /\ (FirstFree = {} \/ Sources = {})
    <3>1. FirstFree = {}
      BY <2>5, SourcesExist
    <3>2. cleaning_width = 1 /\ srcs = {} /\ free_segments = 0
      BY <1>w, <2>3, <2>5, <3>1 DEF CountInv
    <3> QED BY <2>1, <3>2 DEF AbortInv
  <2>6. CASE /\ pc = "clean" /\ DstLeft
             /\ \E k \in NextItem : FirstFree = {} \/ map[k].size > SegmentSize
    <3>1. FirstFree # {}
      BY <1>w, <2>3, <2>6 DEF CountInv, DstLeft
    <3>2. \E k \in NextItem : map[k].size > SegmentSize
      BY <2>6, <3>1
    <3>3. \E k \in NextItem' : map'[k].size > SegmentSize
      BY <2>2, <3>2
    <3> QED BY <3>3 DEF AbortInv
  <2> QED BY <1>1, <2>4, <2>5, <2>6 DEF Abort
<1>2. CASE UNCHANGED vars
  BY <1>2 DEF vars, itemVars, segVars, cleanVars, AbortInv, NextItem, LiveIn, Live, Later
<1>3. ASSUME NEW r \in Requests, Hit(r) \/ StoreInHead(r) \/ Rollover(r) PROVE pc' # "aborted"
  BY <1>3 DEF Hit, StoreInHead, Store, Rollover
<1>4. CASE StoreAfterRollover \/ StartClean \/ Evict \/ StopRelocation
  BY <1>4 DEF StoreAfterRollover, Store, StartClean, Evict, StopRelocation, AbortInv
<1>5. ASSUME NEW k \in Live, Copies(k) PROVE pc' # "aborted"
  BY <1>5, CopyFacts
<1> QED BY Steps, <1>1, <1>2, <1>3, <1>4, <1>5 DEF AbortInv

-------------------------------------------------------------------------------
Inv == /\ TypeOK /\ ItemInv /\ CountInv /\ SpaceInv
       /\ TimeInv /\ LowInv /\ KeptInv /\ AbortInv

LEMMA InitInv == Init => Inv
<1> SUFFICES ASSUME Init PROVE Inv
  OBVIOUS
<1>1. /\ cleaning_width \in Nat \ {0} /\ NumSegments > 2 * cleaning_width /\ NumSegments \in Nat
      /\ Requests # {} /\ SegmentSize \in Nat
  BY WidthAssumption DEF Init
<1>2. 1 \in Segments /\ NumSegments - 1 \in 0 .. NumSegments
  BY <1>1 DEF Segments
<1>3. Live = {} /\ IsFiniteSet(Live) /\ map \in [Live -> [seg : Segments, size : Sizes]]
  BY FS_EmptySet DEF Init, Live
<1>4. Cardinality({1}) = 1
  BY FS_Singleton
<1>5. timeline \in Seq(Times) /\ ToSet(timeline) = {} /\ IsInjective(timeline)
  BY DEF Init, ToSet, IsInjective
<1>6. req \in Requests
  BY <1>1 DEF Init, NoRequest
<1>7. TypeOK
  BY <1>2, <1>3, <1>6 DEF Init, TypeOK
<1>8. ItemInv
  BY <1>3 DEF Init, ItemInv
<1>9. CountInv
  BY <1>1, <1>4 DEF Init, CountInv
<1>10. SpaceInv
  <2>1. ASSUME NEW s \in Segments PROVE Bytes(LiveIn({s})) = 0
    <3>1. LiveIn({s}) = {}
      BY <1>3 DEF LiveIn
    <3> QED BY <3>1, SumEmpty DEF Bytes
  <2>2. \A s \in Segments : filled_bytes[s] = 0
    BY DEF Init
  <2> QED BY <1>1, <2>1, <2>2 DEF Init, SpaceInv
<1>11. TimeInv
  BY <1>3, <1>5 DEF TimeInv
<1>12. LowInv
  BY <1>3 DEF LowInv
<1>13. KeptInv /\ AbortInv
  BY DEF Init, KeptInv, AbortInv
<1> QED BY <1>7, <1>8, <1>9, <1>10, <1>11, <1>12, <1>13 DEF Inv

LEMMA NextInv == Inv /\ [Next]_vars => Inv'
<1> SUFFICES ASSUME Inv, [Next]_vars PROVE Inv'
  OBVIOUS
<1>1. TypeOK /\ ItemInv /\ CountInv /\ SpaceInv /\ TimeInv /\ LowInv /\ KeptInv /\ AbortInv
  BY DEF Inv
<1>2. ItemInv'
  BY <1>1, ItemStep
<1>3. CountInv' /\ inUse' \subseteq Segments /\ srcs' \subseteq Segments
      /\ head' \in Segments /\ dst_segments' \in Seq(Segments)
  BY <1>1, CountStep
<1>4. SpaceInv' /\ filled_bytes' \in [Segments -> Nat]
  BY <1>1, <1>2, <1>3, SpaceStep
<1>5. TimeInv' /\ LowInv' /\ KeptInv' /\ AbortInv'
  BY <1>1, TimeStep, LowStep, KeptStep, AbortStep
<1>6. free_segments' \in 0 .. NumSegments
  <2>1. Cardinality(inUse') \in Nat /\ Cardinality(inUse') =< NumSegments
    BY <1>3, UsedFinite
  <2> QED BY <1>3, <2>1, SegmentsFinite DEF CountInv
<1>7. cleaning_width' \in CleaningWidths
  BY <1>1, SameWidth DEF TypeOK
<1>8. pc' \in {"ready", "choose", "clean", "evict", "append", "aborted"} /\ req' \in Requests
  <2>1. ASSUME NEW r \in Requests, Hit(r) \/ StoreInHead(r) \/ Rollover(r)
        PROVE  pc' \in {"ready", "choose", "append"} /\ req' \in Requests
    BY <1>1, <2>1 DEF Hit, StoreInHead, Store, Rollover, TypeOK
  <2>2. CASE StoreAfterRollover
    BY <2>2, WidthAssumption DEF StoreAfterRollover, Store, NoRequest
  <2>3. CASE StartClean \/ StopRelocation \/ Evict \/ Abort \/ UNCHANGED vars
    BY <1>1, <2>3 DEF StartClean, StopRelocation, Evict, Abort, TypeOK, vars
  <2>4. ASSUME NEW k \in Live, Copies(k) PROVE pc' = "clean" /\ req' = req
    BY <1>1, <2>4, CopyFacts DEF Relocate
  <2> QED BY <1>1, Steps, <2>1, <2>2, <2>3, <2>4 DEF TypeOK
<1>9. TypeOK'
  <2>1. Live' \subseteq Keys /\ \A k \in Live' : map'[k] \in [seg : Segments, size : Sizes]
    BY <1>2 DEF ItemInv
  <2> QED BY <1>3, <1>4, <1>6, <1>7, <1>8, <2>1 DEF TypeOK
<1> QED BY <1>2, <1>3, <1>4, <1>5, <1>9 DEF Inv

LEMMA Invariance == Spec => []Inv
BY InitInv, NextInv, PTL DEF Spec

-------------------------------------------------------------------------------
(* Every variable keeps to its type. *)
THEOREM TypesAreRight == Spec => []TypeOK
<1>1. Inv => TypeOK
  BY DEF Inv
<1> QED BY <1>1, Invariance, PTL

(* The segments are counted right, every live item is in a used segment    *)
(* and on the timeline once, and no segment holds more than its capacity   *)
(* but for a single item: proc, rollover and clean keep their books.       *)
THEOREM BooksAreRight == Spec => []Consistent
<1>1. Inv => Consistent
  <2> SUFFICES ASSUME Inv PROVE Consistent
    OBVIOUS
  <2>1. ItemInv /\ CountInv /\ SpaceInv /\ TimeInv
    BY DEF Inv
  <2>2. Len(timeline) = Cardinality(ToSet(timeline))
    BY <2>1, DistinctLength DEF TimeInv
  <2>3. {e.id : e \in {x \in ToSet(timeline) : x.kind = "item"}} = Live
    <3>1. ASSUME NEW e \in ToSet(timeline), e.kind = "item" PROVE e.id \in Live
      <4>1. e \in Times
        BY <2>1 DEF TimeInv, ToSet
      <4>2. PICK k \in Keys : e = Item(k)
        BY <3>1, <4>1 DEF Times, Item, Low
      <4> QED BY <2>1, <4>2 DEF TimeInv, Item
    <3>2. ASSUME NEW k \in Live
          PROVE  \E e \in ToSet(timeline) : e.kind = "item" /\ e.id = k
      <4>1. Item(k) \in ToSet(timeline) /\ Item(k).kind = "item" /\ Item(k).id = k
        BY <2>1 DEF TimeInv, ItemInv, Item
      <4> QED BY <4>1
    <3> QED BY <3>1, <3>2
  <2>4. \A s \in Segments :
          /\ Bytes(LiveIn({s})) =< filled_bytes[s]
          /\ filled_bytes[s] > SegmentSize => filled_bytes[s] \in Sizes
          /\ filled_bytes[s] > 0 \/ Low(s) \in ToSet(timeline) => s \in inUse
    BY <2>1 DEF SpaceInv, TimeInv
  <2> QED BY <2>1, <2>2, <2>3, <2>4 DEF Consistent, CountInv, ItemInv
<1> QED BY <1>1, Invariance, PTL

(* After every call enough segments are free for the next cleaning, and    *)
(* the assertions of rollover and clean can fail only for an item larger   *)
(* than a segment, or with a width of 1: that clean finds cleaning_width   *)
(* sources and a destination whenever it needs one is proved on the way.   *)
THEOREM CleaningGainsSegments == Spec => []CleaningSuffices
<1>1. Inv => CleaningSuffices
  BY DEF Inv, CountInv, AbortInv, CleaningSuffices
<1> QED BY <1>1, Invariance, PTL

(* The low_timestamp by which the sources are chosen is what its name says *)
(* although it is only ever set, to the time of the item copied last.      *)
THEOREM LowTimestampsAreLow == Spec => []LowTimestampIsLow
<1>1. Inv => LowTimestampIsLow
  <2> SUFFICES ASSUME Inv, NEW k \in Live, Later(Low(map[k].seg), Item(k)) PROVE FALSE
    BY DEF LowTimestampIsLow
  <2> DEFINE l == Low(map[k].seg)
             e == Item(k)
  <2>1. TimeInv /\ LowInv /\ ItemInv
    BY DEF Inv
  <2>2. e \in ToSet(timeline) /\ l \in ToSet(timeline)
    BY <2>1 DEF Later, TimeInv, ItemInv
  <2>3. Before(timeline, l, e) /\ Before(timeline, e, l)
    BY <2>1, <2>2, LaterIsBefore DEF LowInv
  <2> HIDE DEF l, e
  <2>4. \A x, y : Before(timeline, x, y) => ~ Before(timeline, y, x)
    BY <2>1, BeforeIsOrder DEF TimeInv
  <2> QED BY <2>3, <2>4
<1> QED BY <1>1, Invariance, PTL

(* When clean stops for want of space, what it has not copied is older     *)
(* than all that it has: the log evicts in the order of use.               *)
THEOREM NewestSurvive == Spec => []SurvivorsAreNewest
<1>1. Inv => SurvivorsAreNewest
  <2> SUFFICES ASSUME Inv, pc = "evict",
                      NEW k \in LiveIn(srcs), NEW j \in LiveIn(ToSet(dst_segments))
               PROVE  Later(Item(j), Item(k))
    BY DEF SurvivorsAreNewest
  <2>1. TimeInv /\ KeptInv /\ ItemInv
    BY DEF Inv
  <2>2. Before(timeline, Item(j), Item(k))
    BY <2>1 DEF KeptInv
  <2>3. Item(j) \in ToSet(timeline)
    BY <2>1 DEF TimeInv, ItemInv, LiveIn
  <2> QED BY <2>1, <2>2, <2>3, LaterIsBefore
<1> QED BY <1>1, Invariance, PTL

-------------------------------------------------------------------------------
(* The log implements the cache: a request that is stored is a miss of the *)
(* cache even if a rollover and a cleaning come first, a cleaning evicts   *)
(* all that it drops in one step, and copying is not seen.                 *)
Contents == [k \in Live |-> map[k].size]

LEMMA StoreInstalls ==
  ASSUME ItemInv, NEW r \in Requests, Store(r), ~ IsHit(r)
  PROVE  C!Install(r.kid, r.size)
<1>1. /\ map' = [x \in Live \union {r.kid} |->
                   IF x = r.kid THEN [seg |-> head, size |-> r.size] ELSE map[x]]
      /\ outcome' = [kid |-> r.kid, size |-> r.size, result |-> "miss"]
  BY DEF Store, With, Live, Outcome
<1>2. Live' = Live \union {r.kid}
  BY <1>1 DEF Live
<1>3. Contents' = [x \in Live \union {r.kid} |-> IF x = r.kid THEN r.size ELSE map[x].size]
  BY <1>1, <1>2 DEF Contents
<1>4. DOMAIN Contents = Live /\ \A x \in Live : Contents[x] = map[x].size
  BY DEF Contents
<1>5. Contents' = C!With(C!Without(Contents, {}), r.kid, r.size)
  BY <1>3, <1>4 DEF C!With, C!Without
<1>6. r.kid \in DOMAIN Contents => Contents[r.kid] # r.size
  BY <1>4 DEF IsHit
<1>7. \E gone \in SUBSET (DOMAIN Contents \ {r.kid}) :
        Contents' = C!With(C!Without(Contents, gone), r.kid, r.size)
  BY <1>5
<1> QED BY <1>1, <1>6, <1>7 DEF C!Install, C!Outcome, Contents

LEMMA StepOfCache ==
  ASSUME Inv, [Next]_vars
  PROVE  [C!CacheNext]_C!cvars
<1>1. ItemInv /\ TypeOK /\ CountInv
  BY DEF Inv
<1>2. ASSUME NEW r \in Requests, C!Hit(r.kid, r.size) \/ C!Install(r.kid, r.size)
      PROVE  [C!CacheNext]_C!cvars
  BY <1>2, RequestFacts DEF C!CacheNext
<1>3. ASSUME map' = map, outcome' = outcome PROVE [C!CacheNext]_C!cvars
  BY <1>3 DEF C!cvars, Live
<1>4. ASSUME NEW r \in Requests, Hit(r) PROVE [C!CacheNext]_C!cvars
  <2>1. C!Hit(r.kid, r.size)
    BY <1>4 DEF Hit, IsHit, C!Hit, Outcome, C!Outcome, Live
  <2> QED BY <1>2, <2>1
<1>5. ASSUME NEW r \in Requests, StoreInHead(r) PROVE [C!CacheNext]_C!cvars
  BY <1>1, <1>2, <1>5, StoreInstalls DEF StoreInHead
<1>6. CASE StoreAfterRollover
  <2>1. req \in Requests /\ ~ IsHit(req) /\ Store(req)
    BY <1>1, <1>6 DEF StoreAfterRollover, TypeOK, ItemInv
  <2> QED BY <1>1, <1>2, <2>1, StoreInstalls
<1>7. ASSUME NEW r \in Requests, Rollover(r) PROVE [C!CacheNext]_C!cvars
  BY <1>3, <1>7 DEF Rollover
<1>8. CASE StartClean \/ StopRelocation \/ Abort \/ UNCHANGED vars
  BY <1>3, <1>8 DEF StartClean, StopRelocation, Abort, vars, itemVars
<1>9. ASSUME NEW k \in Live, Copies(k) PROVE [C!CacheNext]_C!cvars
  <2>1. PICK s \in Segments : Relocate(k, s)
    BY <1>1, <1>9, CopyFacts
  <2>2. map' = [map EXCEPT ![k].seg = s] /\ outcome' = outcome
    BY <2>1 DEF Relocate
  <2>3. Live' = Live /\ \A j \in Live : map'[j].size = map[j].size
    BY <1>1, <2>2 DEF ItemInv, Live
  <2>4. Contents' = Contents
    BY <2>3 DEF Contents
  <2> QED BY <2>2, <2>4 DEF C!cvars, Contents
<1>10. CASE Evict
  <2>1. map' = [x \in Live \ LiveIn(srcs) |-> map[x]] /\ outcome' = outcome
    BY <1>10 DEF Evict, Without, Live
  <2>2. Live' = Live \ LiveIn(srcs)
    BY <2>1 DEF Live
  <2>3. Contents' = [x \in Live \ LiveIn(srcs) |-> map[x].size]
    BY <2>1, <2>2 DEF Contents
  <2>4. DOMAIN Contents = Live /\ \A x \in Live : Contents[x] = map[x].size
    BY DEF Contents
  <2>5. Contents' = C!Without(Contents, LiveIn(srcs))
    BY <2>3, <2>4 DEF C!Without
  <2>6. LiveIn(srcs) \in SUBSET DOMAIN Contents
    BY <2>4 DEF LiveIn
  <2>7. C!Evict
    BY <2>1, <2>5, <2>6 DEF C!Evict, Contents
  <2> QED BY <2>7 DEF C!CacheNext
<1> QED BY Steps, <1>4, <1>5, <1>6, <1>7, <1>8, <1>9, <1>10

THEOREM LogIsCache == Spec => IsCache
<1>1. Init => C!CacheInit
  BY DEF Init, C!CacheInit, Live
<1>2. Inv /\ [Next]_vars => [C!CacheNext]_C!cvars
  BY StepOfCache
<1> QED BY <1>1, <1>2, Invariance, PTL DEF Spec, IsCache, C!CacheSpec
===============================================================================
