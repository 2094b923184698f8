---------------------------- MODULE LscMultiProofs ----------------------------
(***************************************************************************)
(* Proofs about the log of lsc_multi, for every set of applications, keys  *)
(* and requests, every number and size of segments and cleaning width.     *)
(*                                                                         *)
(* The inductive invariant Inv says, of each stage of a call, how many     *)
(* segments are free and what the cleaner holds, that free segments are    *)
(* empty, that stored objects fit into a segment, and that the request     *)
(* being stored is not already cached.                                     *)
(***************************************************************************)
EXTENDS LscMulti, QueueTheorems

(* The segments the stages of a call hold, and the free ones they leave. *)
SegmentInv ==
  /\ NoDangling
  /\ free_segments = Cardinality(Free)
  /\ pc \in {"ready", "append"} => free_segments >= CleaningWidth
  /\ pc \in {"ready", "append", "choose"} => srcs = {} /\ dst_segments = <<>>
  /\ pc = "choose" => free_segments = CleaningWidth - 1
  /\ pc \in {"clean", "evict"} =>
       /\ Cardinality(srcs) = CleaningWidth
       /\ free_segments + Len(dst_segments) = CleaningWidth - 1

(* Free segments are empty, and what was admitted fits into an empty one. *)
RoomInv ==
  /\ \A s \in Free : filled_bytes[s] = 0
  /\ \A k \in Live : map[k].size =< SegmentSize
  /\ pc # "ready" =>
       /\ req \in Requests /\ req.size =< SegmentSize /\ ~ IsHit(req)
       /\ filled_bytes[head] = 0

(* Unless the cleaner is about to crash, some application had an item for  *)
(* it at the last cleaning.                                                *)
QueueInv ==
  /\ pc \notin {"clean", "crashed"} => \E a \in Apps : cleaning_it[a]
  /\ pc = "clean" => \/ \E a \in Apps : cleaning_it[a]
                     \/ Queued = {} /\ dst_segments = <<>>

Inv == TypeOK /\ SegmentInv /\ RoomInv /\ QueueInv /\ MinMemGuarantee

-------------------------------------------------------------------------------
(* Free segments are a finite set. *)
LEMMA FreeFinite == IsFiniteSet(Segments) /\ IsFiniteSet(Free) /\ Cardinality(Segments) = NumSegments
<1>1. NumSegments \in Nat /\ NumSegments > 0
  BY SegmentsAssumption
<1>2. IsFiniteSet(1 .. NumSegments) /\ Cardinality(1 .. NumSegments) = NumSegments
  BY <1>1, FS_Interval
<1>3. IsFiniteSet(Segments) /\ Cardinality(Segments) = NumSegments
  BY <1>2 DEF Segments
<1>4. Free \in SUBSET Segments
  BY DEF Free
<1> QED BY <1>3, <1>4, FS_Subset

(* What is known of a request, and of an item of the hash table. *)
LEMMA SizesNat == Sizes \subseteq Nat \ {0}
BY RequestsAssumption DEF Sizes

LEMMA RequestFacts ==
  ASSUME NEW r \in Requests
  PROVE  r.kid \in Keys /\ r.app \in Apps /\ r.size \in Sizes /\ r.size \in Nat
BY RequestsAssumption DEF Sizes

LEMMA ItemFacts ==
  ASSUME TypeOK, NEW k \in Live
  PROVE  /\ map[k] \in Items /\ map[k].seg \in Segments /\ map[k].app \in Apps
         /\ map[k].size \in Sizes /\ map[k].size \in Nat
<1>1. map[k] \in Items
  BY DEF TypeOK
<1> QED BY <1>1, SizesNat DEF Items

(* Taking a segment makes one free segment less. *)
LEMMA TakeSegment ==
  ASSUME NEW s \in Free, inUse' = inUse \union {s}
  PROVE  Free' = Free \ {s} /\ Cardinality(Free') = Cardinality(Free) - 1
<1>1. Free' = Free \ {s}
  BY DEF Free
<1> QED BY <1>1, FreeFinite, FS_RemoveElement

(* Giving segments back makes that many free segments more. *)
LEMMA GiveSegments ==
  ASSUME srcs \subseteq inUse, inUse \subseteq Segments, inUse' = inUse \ srcs
  PROVE  /\ Free' = Free \union srcs
         /\ Cardinality(Free') = Cardinality(Free) + Cardinality(srcs)
<1>1. Free' = Free \union srcs /\ Free \intersect srcs = {}
  BY DEF Free
<1>2. IsFiniteSet(srcs)
  BY FreeFinite, FS_Subset
<1>3. Cardinality(Free \union srcs) = Cardinality(Free) + Cardinality(srcs) - 0
  BY <1>1, <1>2, FreeFinite, FS_Union, FS_EmptySet
<1> QED BY <1>1, <1>2, <1>3, FreeFinite, FS_CardinalityType

(* The survivor is chosen among the applications with a queued item, and   *)
(* the item among its own.                                                 *)
LEMMA SurvivorIsQueued ==
  /\ ChooseSurvivor \subseteq Queued
  /\ \A a \in Apps : \A k \in Newest(Pending(a)) :
       k \in Live /\ map[k].seg \in srcs /\ map[k].app = a
BY DEF ChooseSurvivor, MostInNeed, Queued, Newest, Pending, LiveOf

(* Sources are as many segments as the cleaning width, without the head. *)
LEMMA SourcesAreNonHead ==
  \A S \in ChooseCleaningSources : S \subseteq NonHead /\ Cardinality(S) = CleaningWidth
BY DEF ChooseCleaningSources, SourcesRandom, SourcesLowNeed, kSubset

(* Stealing respects reservations. *)
LEMMA StealInv ==
  ASSUME NEW a \in Apps, credit_bytes \in [Apps -> Int], MinMemGuarantee, Steal(a)
  PROVE  credit_bytes' \in [Apps -> Int] /\ MinMemGuarantee'
<1>1. CASE UNCHANGED credit_bytes
  BY <1>1 DEF MinMemGuarantee, BytesLimit
<1>2. CASE \E other \in Apps :
             /\ MayStealFrom(a, other)
             /\ credit_bytes' = [credit_bytes EXCEPT ![other] = @ - StealBytes(a),
                                                     ![a] = @ + StealBytes(a)]
  <2>1. PICK other \in Apps :
             /\ MayStealFrom(a, other)
             /\ credit_bytes' = [credit_bytes EXCEPT ![other] = @ - StealBytes(a),
                                                     ![a] = @ + StealBytes(a)]
    BY <1>2
  <2>2. StealBytes(a) \in Nat
    BY AppsAssumption DEF StealBytes
  <2> QED BY AppsAssumption, <2>1, <2>2 DEF MinMemGuarantee, BytesLimit, MayStealFrom
<1> QED BY <1>1, <1>2 DEF Steal

-------------------------------------------------------------------------------
LEMMA InitInv == Init => Inv
<1> SUFFICES ASSUME Init PROVE Inv
  OBVIOUS
<1>1. 1 \in Segments /\ NumSegments - 1 \in 0 .. NumSegments /\ NumSegments - 1 >= CleaningWidth
  BY SegmentsAssumption DEF Segments
<1>2. TypeOK
  <2>1. filled_bytes \in [Segments -> 0 .. SegmentSize] /\ app_bytes \in [Segments -> [Apps -> Nat]]
    BY RequestsAssumption DEF Init
  <2>2. stale \in [Segments -> [Apps -> [n : Nat, bytes : Nat]]]
    BY DEF Init, NoItems
  <2>3. credit_bytes \in [Apps -> Int] /\ cleaning_it \in [Apps -> BOOLEAN]
    BY DEF Init
  <2>4. Live = {} /\ dst_segments \in Seq(Segments)
    BY DEF Init, Live
  <2> QED BY <1>1, <2>1, <2>2, <2>3, <2>4 DEF Init, TypeOK
<1>3. Free = Segments \ {1} /\ Cardinality(Free) = NumSegments - 1
  BY <1>1, FreeFinite, FS_RemoveElement DEF Init, Free
<1>4. SegmentInv
  <2>1. Live = {} /\ ToSet(dst_segments) = {}
    BY DEF Init, Live, ToSet
  <2> QED BY <1>1, <1>3, <2>1 DEF Init, SegmentInv, NoDangling
<1>5. RoomInv
  BY DEF Init, RoomInv, Live, Free
<1>6. QueueInv /\ MinMemGuarantee
  BY AppsAssumption DEF Init, QueueInv, MinMemGuarantee, BytesLimit
<1> QED BY <1>2, <1>4, <1>5, <1>6 DEF Inv

(* Storing an object at the head. *)
LEMMA StoreInv ==
  ASSUME Inv, NEW r \in Requests, r.size =< SegmentSize, pc \in {"ready", "append"},
         ~ IsHit(r), Fits(head, r.size), Store(r), req' \in {req, NoRequest}
  PROVE  Inv'
<1> USE DEF Inv
<1>1. r.kid \in Keys /\ r.app \in Apps /\ r.size \in Sizes /\ r.size \in Nat
  BY RequestFacts
<1>2. Live' = Live \union {r.kid}
      /\ \A k \in Live' : map'[k] = IF k = r.kid
           THEN [seg |-> head, size |-> r.size, app |-> r.app] ELSE map[k]
  BY DEF Store, With, Live
<1>3. credit_bytes' \in [Apps -> Int] /\ MinMemGuarantee'
  <2>1. CASE shadow_q[r.app][r.kid] > 0
    BY <1>1, <2>1, StealInv DEF Store, TypeOK
  <2>2. CASE ~ (shadow_q[r.app][r.kid] > 0)
    BY <2>2 DEF Store, TypeOK, MinMemGuarantee, BytesLimit
  <2> QED BY <2>1, <2>2
<1>4. filled_bytes' \in [Segments -> 0 .. SegmentSize] /\ app_bytes' \in [Segments -> [Apps -> Nat]]
  <2>1. head \in Segments /\ filled_bytes[head] + r.size \in 0 .. SegmentSize
    BY <1>1, RequestsAssumption DEF Fits, TypeOK
  <2>2. filled_bytes' = [filled_bytes EXCEPT ![head] = filled_bytes[head] + r.size]
        /\ app_bytes' = [app_bytes EXCEPT ![head][r.app] = app_bytes[head][r.app] + r.size]
    BY DEF Store, Write
  <2>3. filled_bytes' \in [Segments -> 0 .. SegmentSize]
    BY <2>1, <2>2 DEF TypeOK
  <2>4. app_bytes' \in [Segments -> [Apps -> Nat]]
    BY <1>1, <2>1, <2>2 DEF TypeOK
  <2> QED BY <2>3, <2>4
<1>5. stale' \in [Segments -> [Apps -> [n : Nat, bytes : Nat]]]
  <2>1. CASE r.kid \in Live
    <3>1. map[r.kid].seg \in Segments /\ map[r.kid].app \in Apps /\ map[r.kid].size \in Nat
      BY <2>1, ItemFacts
    <3>2. stale' = [stale EXCEPT ![map[r.kid].seg][map[r.kid].app] =
                      [n |-> stale[map[r.kid].seg][map[r.kid].app].n + 1,
                       bytes |-> stale[map[r.kid].seg][map[r.kid].app].bytes + map[r.kid].size]]
      BY <2>1 DEF Store
    <3>3. stale[map[r.kid].seg][map[r.kid].app] \in [n : Nat, bytes : Nat]
      BY <3>1 DEF TypeOK
    <3>4. [n |-> stale[map[r.kid].seg][map[r.kid].app].n + 1,
           bytes |-> stale[map[r.kid].seg][map[r.kid].app].bytes + map[r.kid].size]
             \in [n : Nat, bytes : Nat]
      BY <3>1, <3>3
    <3> QED BY <3>1, <3>2, <3>4 DEF TypeOK
  <2>2. CASE r.kid \notin Live
    BY <2>2 DEF Store, TypeOK
  <2> QED BY <2>1, <2>2
<1>6. \A k \in Live' : map'[k] \in Items
  <2>1. [seg |-> head, size |-> r.size, app |-> r.app] \in Items
    BY <1>1 DEF TypeOK, Items
  <2> QED BY <1>2, <2>1 DEF TypeOK
<1>7. TypeOK'
  BY <1>1, <1>2, <1>3, <1>4, <1>5, <1>6 DEF TypeOK, Store, cleanVars
<1>8. SegmentInv'
  <2>1. NoDangling'
    BY <1>2 DEF SegmentInv, NoDangling, Store, cleanVars
  <2>2. Free' = Free /\ UNCHANGED <<free_segments, srcs, dst_segments>> /\ pc' = "ready"
    BY DEF Store, Free, cleanVars
  <2> QED BY <2>1, <2>2 DEF SegmentInv
<1>9. RoomInv'
  <2>1. \A s \in Free' : filled_bytes'[s] = 0
    BY DEF RoomInv, SegmentInv, NoDangling, Store, Write, Free, TypeOK
  <2> QED BY <1>2, <2>1 DEF RoomInv, Store
<1>10. QueueInv'
  BY DEF QueueInv, Store, cleanVars
<1> QED BY <1>3, <1>7, <1>8, <1>9, <1>10

(* The actions that change neither the log nor the items. *)
LEMMA ReadyInv ==
  ASSUME Inv, NEW r \in Requests, Request(r)
  PROVE  Inv'
<1> USE DEF Inv
<1>1. CASE Oversize(r)
  BY <1>1 DEF Oversize, TypeOK, SegmentInv, NoDangling, RoomInv, QueueInv, MinMemGuarantee,
     BytesLimit, Live, Free, segVars, itemVars, billVars, cleanVars, IsHit, Queued, Pending, LiveOf
<1>2. CASE HitInLog(r)
  <2>1. /\ Live' = Live
        /\ \A k \in Live : /\ map'[k].seg = map[k].seg /\ map'[k].size = map[k].size
                           /\ map'[k] \in Items
    <3>1. r.kid \in Live /\ map[r.kid] \in Items /\ r.app \in Apps
      BY <1>2, RequestFacts, ItemFacts DEF HitInLog, IsHit
    <3>2. map' = [map EXCEPT ![r.kid].app = r.app]
      BY <1>2 DEF HitInLog
    <3>3. \A k \in Live : map[k] \in Items
      BY DEF TypeOK
    <3> QED BY <3>1, <3>2, <3>3 DEF Live, Items
  <2>2. TypeOK'
    BY <1>2, <2>1 DEF HitInLog, TypeOK, segVars, billVars, cleanVars
  <2>3. SegmentInv' /\ RoomInv' /\ QueueInv' /\ MinMemGuarantee'
    BY <1>2, <2>1 DEF HitInLog, SegmentInv, NoDangling, RoomInv, QueueInv, MinMemGuarantee,
       BytesLimit, Free, segVars, cleanVars
  <2> QED BY <2>2, <2>3
<1>3. CASE StoreInHead(r)
  <2>1. r.size =< SegmentSize
    <3>1. filled_bytes[head] \in Nat /\ SegmentSize \in Nat
      BY RequestsAssumption DEF TypeOK
    <3> QED BY <1>3, <3>1, RequestFacts DEF StoreInHead, Fits
  <2> QED BY <1>3, <2>1, StoreInv DEF StoreInHead
<1>4. CASE Rollover(r)
  <2>1. head' \in Free /\ inUse' = inUse \union {head'}
    BY <1>4 DEF Rollover, FirstFree
  <2>2. Free' = Free \ {head'} /\ Cardinality(Free') = Cardinality(Free) - 1
    BY <2>1, TakeSegment
  <2>3. /\ pc = "ready" /\ pc' \in {"choose", "append"} /\ free_segments' = free_segments - 1
        /\ UNCHANGED <<filled_bytes, app_bytes, map, stale, credit_bytes, cleaning_it, srcs, dst_segments>>
        /\ pc' = "choose" => free_segments' < CleaningWidth
        /\ pc' = "append" => free_segments' >= CleaningWidth
    BY <1>4, SegmentsAssumption DEF Rollover, itemVars, cleanVars, MustClean, TypeOK
  <2>4. free_segments >= CleaningWidth /\ free_segments' \in 0 .. NumSegments
    BY <2>3, SegmentsAssumption DEF SegmentInv, TypeOK
  <2>5. TypeOK'
    BY <1>4, <2>1, <2>3, <2>4 DEF Rollover, TypeOK, Free, Live
  <2>6. SegmentInv'
    <3>1. NoDangling'
      BY <2>1, <2>3 DEF SegmentInv, NoDangling, Live, ToSet
    <3>2. free_segments' = Cardinality(Free')
      BY <2>2, <2>3 DEF SegmentInv
    <3> QED BY <2>3, <2>4, <3>1, <3>2, SegmentsAssumption DEF SegmentInv, TypeOK
  <2>7. RoomInv'
    BY <1>4, <2>1, <2>2 DEF Rollover, RoomInv, MustClean, itemVars, Live, IsHit
  <2>8. QueueInv' /\ MinMemGuarantee'
    BY <1>4 DEF Rollover, QueueInv, MinMemGuarantee, BytesLimit, MustClean, cleanVars
  <2> QED BY <2>5, <2>6, <2>7, <2>8
<1> QED BY <1>1, <1>2, <1>3, <1>4 DEF Request

LEMMA StartCleanInv == Inv /\ StartClean => Inv'
<1> SUFFICES ASSUME Inv, StartClean PROVE Inv'
  OBVIOUS
<1> USE DEF Inv
<1>1. srcs' \subseteq NonHead /\ Cardinality(srcs') = CleaningWidth
  BY SourcesAreNonHead DEF StartClean
<1>2. TypeOK'
  BY <1>1 DEF StartClean, TypeOK, NonHead, ItsAfter, segVars, itemVars, Live
<1>3. SegmentInv'
  <2>1. pc = "choose" /\ pc' = "clean" /\ dst_segments = <<>>
        /\ UNCHANGED <<inUse, free_segments, head, map, dst_segments>>
    BY DEF StartClean, SegmentInv, segVars, itemVars
  <2>2. NoDangling'
    BY <1>1, <2>1 DEF SegmentInv, NoDangling, NonHead, Live, ToSet
  <2>3. Len(dst_segments') = 0 /\ free_segments \in Nat
    BY <2>1 DEF TypeOK
  <2> QED BY <1>1, <2>1, <2>2, <2>3, SegmentsAssumption DEF SegmentInv, Free
<1>4. RoomInv' /\ MinMemGuarantee'
  BY DEF StartClean, RoomInv, MinMemGuarantee, BytesLimit, Free, segVars, itemVars, Live, IsHit
<1>5. QueueInv'
  <2>1. \A a \in Apps : cleaning_it'[a] <=> Pending(a)' # {}
    BY DEF StartClean, ItsAfter, Pending, LiveOf, Live, itemVars
  <2>2. dst_segments' = <<>>
    BY DEF StartClean, SegmentInv
  <2> QED BY <2>1, <2>2 DEF QueueInv, Queued, StartClean
<1> QED BY <1>2, <1>3, <1>4, <1>5

(* Moving a live item into segment s with room for it. *)
LEMMA MoveFacts ==
  ASSUME Inv, NEW k \in Live, NEW s \in Segments, Move(k, s), Fits(s, map[k].size)
  PROVE  /\ Live' = Live
         /\ \A j \in Live : /\ map'[j] \in Items /\ map'[j].size = map[j].size
                            /\ map'[j].seg = IF j = k THEN s ELSE map[j].seg
         /\ filled_bytes' \in [Segments -> 0 .. SegmentSize]
         /\ app_bytes' \in [Segments -> [Apps -> Nat]]
         /\ \A t \in Segments \ {s} : filled_bytes'[t] = filled_bytes[t]
<1>1. map[k] \in Items /\ map[k].size \in Nat /\ map[k].app \in Apps
  BY ItemFacts DEF Inv
<1>2. map' = [map EXCEPT ![k].seg = s]
  BY DEF Move
<1>3. Live' = Live
  BY <1>2 DEF Live
<1>4. \A j \in Live : /\ map'[j] \in Items /\ map'[j].size = map[j].size
                      /\ map'[j].seg = IF j = k THEN s ELSE map[j].seg
  BY <1>1, <1>2 DEF Inv, TypeOK, Items, Live
<1>5. /\ filled_bytes' \in [Segments -> 0 .. SegmentSize]
      /\ app_bytes' \in [Segments -> [Apps -> Nat]]
      /\ \A t \in Segments \ {s} : filled_bytes'[t] = filled_bytes[t]
  <2>1. filled_bytes[s] + map[k].size \in 0 .. SegmentSize
    BY <1>1, RequestsAssumption DEF Fits, Inv, TypeOK
  <2>2. filled_bytes' = [filled_bytes EXCEPT ![s] = filled_bytes[s] + map[k].size]
        /\ app_bytes' = [app_bytes EXCEPT ![s][map[k].app] = app_bytes[s][map[k].app] + map[k].size]
    BY DEF Move, Write
  <2>3. filled_bytes' \in [Segments -> 0 .. SegmentSize]
        /\ \A t \in Segments \ {s} : filled_bytes'[t] = filled_bytes[t]
    BY <2>1, <2>2 DEF Inv, TypeOK
  <2>4. app_bytes' \in [Segments -> [Apps -> Nat]]
    BY <1>1, <2>2 DEF Inv, TypeOK
  <2> QED BY <2>3, <2>4
<1> QED BY <1>3, <1>4, <1>5

LEMMA RelocateInv == Inv /\ Relocate => Inv'
<1> SUFFICES ASSUME Inv, Relocate PROVE Inv'
  OBVIOUS
<1> USE DEF Inv
<1>0. PICK a \in ChooseSurvivor : \E k \in Newest(Pending(a)) :
             RelocateToDst(k) \/ RelocateToNewDst(k)
  BY DEF Relocate
<1>1. PICK k \in Newest(Pending(a)) : RelocateToDst(k) \/ RelocateToNewDst(k)
  BY <1>0
<1>2. a \in Queued /\ k \in Live /\ map[k].seg \in srcs
  BY <1>0, <1>1, SurvivorIsQueued DEF Queued
<1>3. pc = "clean" /\ pc' = "clean" /\ \E b \in Apps : cleaning_it[b]
  BY <1>1, <1>2 DEF Relocate, RelocateToDst, RelocateToNewDst, Move, QueueInv
<1>4. MinMemGuarantee' /\ QueueInv'
  BY <1>1, <1>3 DEF RelocateToDst, RelocateToNewDst, Move, MinMemGuarantee, BytesLimit, QueueInv
<1>5. CASE RelocateToDst(k)
  <2> DEFINE d == Last(dst_segments)
  <2>1. d \in Segments /\ d \in ToSet(dst_segments) /\ Fits(d, map[k].size)
    BY <1>5 DEF RelocateToDst, RoomFor, TypeOK, Last, ToSet
  <2> HIDE DEF d
  <2>2. Move(k, d)
    BY <1>5 DEF RelocateToDst, d
  <2>3. /\ Live' = Live
        /\ \A j \in Live : /\ map'[j] \in Items /\ map'[j].size = map[j].size
                           /\ map'[j].seg = IF j = k THEN d ELSE map[j].seg
        /\ filled_bytes' \in [Segments -> 0 .. SegmentSize]
        /\ app_bytes' \in [Segments -> [Apps -> Nat]]
        /\ \A t \in Segments \ {d} : filled_bytes'[t] = filled_bytes[t]
    BY <1>2, <2>1, <2>2, MoveFacts
  <2>4. d \in inUse /\ d # head
    BY <2>1 DEF SegmentInv, NoDangling
  <2>5. TypeOK'
    BY <1>5, <2>2, <2>3 DEF RelocateToDst, TypeOK, Move
  <2>6. SegmentInv'
    BY <1>3, <1>5, <2>2, <2>3, <2>4 DEF RelocateToDst, SegmentInv, NoDangling, Free, Move
  <2>7. RoomInv'
    <3>1. \A s \in Free' : filled_bytes'[s] = 0
      BY <1>5, <2>3, <2>4 DEF RelocateToDst, RoomInv, Free
    <3>2. UNCHANGED <<head, req>> /\ filled_bytes'[head] = filled_bytes[head]
      BY <2>2, <2>3, <2>4 DEF Move, TypeOK
    <3> QED BY <1>3, <2>3, <3>1, <3>2 DEF RoomInv, IsHit
  <2> QED BY <1>4, <2>5, <2>6, <2>7
<1>6. CASE RelocateToNewDst(k)
  <2>1. PICK s \in Free : /\ Move(k, s)
                          /\ inUse' = inUse \union {s}
                          /\ dst_segments' = Append(dst_segments, s)
    BY <1>6 DEF RelocateToNewDst, FirstFree
  <2>2. s \in Segments /\ s # head /\ s \notin srcs /\ s \notin inUse
    BY <2>1 DEF Free, SegmentInv, NoDangling
  <2>3. Fits(s, map[k].size)
    BY <1>2, <2>1, ItemFacts DEF Fits, RoomInv
  <2>4. /\ Live' = Live
        /\ \A j \in Live : /\ map'[j] \in Items /\ map'[j].size = map[j].size
                           /\ map'[j].seg = IF j = k THEN s ELSE map[j].seg
        /\ filled_bytes' \in [Segments -> 0 .. SegmentSize]
        /\ app_bytes' \in [Segments -> [Apps -> Nat]]
        /\ \A t \in Segments \ {s} : filled_bytes'[t] = filled_bytes[t]
    BY <1>2, <2>1, <2>2, <2>3, MoveFacts
  <2>5. Free' = Free \ {s} /\ Cardinality(Free') = Cardinality(Free) - 1
    BY <2>1, TakeSegment
  <2>6. dst_segments' \in Seq(Segments) /\ Len(dst_segments') = Len(dst_segments) + 1
    BY <2>1, <2>2 DEF TypeOK
  <2>7. ToSet(dst_segments') \subseteq ToSet(dst_segments) \union {s}
    <3>1. \A i \in 1 .. Len(dst_segments') :
             dst_segments'[i] = IF i = Len(dst_segments) + 1 THEN s ELSE dst_segments[i]
      <4>1. dst_segments \in Seq(Segments)
        BY DEF TypeOK
      <4> QED BY <2>1, <2>2, <4>1
    <3>2. DOMAIN dst_segments' = 1 .. Len(dst_segments')
          /\ DOMAIN dst_segments = 1 .. Len(dst_segments)
      BY <2>6 DEF TypeOK
    <3> QED BY <2>6, <3>1, <3>2 DEF TypeOK, ToSet
  <2>8. free_segments' \in 0 .. NumSegments
    BY <1>3, <1>6, <2>6, SegmentsAssumption DEF RelocateToNewDst, DstLeft, SegmentInv, TypeOK
  <2>9. TypeOK'
    BY <2>1, <2>2, <2>4, <2>6, <2>8 DEF TypeOK, Move
  <2>10. SegmentInv'
    <3>1. NoDangling'
      <4>1. UNCHANGED <<head, srcs>>
        BY <2>1 DEF Move
      <4> QED BY <2>1, <2>2, <2>4, <2>7, <4>1 DEF SegmentInv, NoDangling
    <3>2. srcs' = srcs /\ free_segments' = Cardinality(Free')
      BY <1>6, <2>1, <2>5 DEF RelocateToNewDst, Move, SegmentInv
    <3> QED BY <1>3, <1>6, <2>6, <3>1, <3>2, SegmentsAssumption DEF RelocateToNewDst, SegmentInv, TypeOK
  <2>11. RoomInv'
    BY <1>3, <2>1, <2>2, <2>4, <2>5 DEF RoomInv, Move, IsHit, Free, TypeOK
  <2> QED BY <1>4, <2>9, <2>10, <2>11
<1> QED BY <1>1, <1>5, <1>6

LEMMA EndRelocationInv == Inv /\ (EndRelocation \/ CrashInClean) => Inv'
<1> SUFFICES ASSUME Inv, EndRelocation \/ CrashInClean PROVE Inv'
  OBVIOUS
<1> USE DEF Inv
<1>1. TypeOK' /\ SegmentInv' /\ RoomInv' /\ MinMemGuarantee'
  BY DEF EndRelocation, CrashInClean, TypeOK, SegmentInv, NoDangling, RoomInv,
     MinMemGuarantee, BytesLimit, Live, Free, segVars, itemVars, cleanVars, IsHit
<1>2. QueueInv'
  BY SurvivorIsQueued DEF EndRelocation, CrashInClean, QueueInv, cleanVars
<1> QED BY <1>1, <1>2

LEMMA EndCleanInv == Inv /\ EndClean => Inv'
<1> SUFFICES ASSUME Inv, EndClean PROVE Inv'
  OBVIOUS
<1> USE DEF Inv
<1> DEFINE gone == UNION {Pending(a) : a \in Apps}
<1>1. Live' = Live \ gone /\ \A k \in Live' : map'[k] = map[k]
  BY DEF EndClean, Without, Live
<1>2. \A k \in Live' : map[k].seg \notin srcs
  BY <1>1 DEF Pending, LiveOf, TypeOK, Items
<1>3. pc = "evict" /\ pc' = "append" /\ srcs' = {} /\ dst_segments' = <<>> /\ UNCHANGED <<req, head>>
  BY DEF EndClean
<1>4. srcs \subseteq inUse /\ inUse \subseteq Segments /\ inUse' = inUse \ srcs
  BY DEF EndClean, TypeOK, SegmentInv, NoDangling
<1>5. Free' = Free \union srcs /\ Cardinality(Free') = Cardinality(Free) + Cardinality(srcs)
  BY <1>4, GiveSegments
<1>6. free_segments' = Cardinality(Free') /\ free_segments' >= CleaningWidth
  <2>1. free_segments \in Nat /\ free_segments' = free_segments + Cardinality(srcs)
    BY DEF EndClean, TypeOK
  <2> QED BY <1>3, <1>5, <2>1, SegmentsAssumption DEF SegmentInv
<1>7. free_segments' \in 0 .. NumSegments
  <2>1. Free' \subseteq Segments
    BY <1>4, <1>5 DEF Free
  <2> QED BY <1>6, <2>1, FreeFinite, FS_Subset, FS_CardinalityType
<1>8. /\ filled_bytes' \in [Segments -> 0 .. SegmentSize]
      /\ app_bytes' \in [Segments -> [Apps -> Nat]]
      /\ stale' \in [Segments -> [Apps -> [n : Nat, bytes : Nat]]]
  BY RequestsAssumption DEF EndClean, TypeOK, NoItems
<1>9. TypeOK'
  <2>1. UNCHANGED <<credit_bytes, cleaning_it>>
    BY DEF EndClean
  <2>2. dst_segments' \in Seq(Segments)
    BY <1>3
  <2> QED BY <1>1, <1>3, <1>4, <1>7, <1>8, <2>1, <2>2 DEF TypeOK
<1>10. SegmentInv'
  BY <1>1, <1>2, <1>3, <1>4, <1>6 DEF SegmentInv, NoDangling, ToSet
<1>11. RoomInv'
  <2>1. \A s \in Free' : filled_bytes'[s] = 0
    BY <1>4, <1>5 DEF EndClean, RoomInv, Free
  <2>2. filled_bytes'[head] = 0
    BY <1>3 DEF EndClean, RoomInv, TypeOK
  <2> QED BY <1>1, <1>3, <2>1, <2>2 DEF RoomInv, IsHit
<1>12. QueueInv' /\ MinMemGuarantee'
  BY <1>3 DEF EndClean, QueueInv, MinMemGuarantee, BytesLimit
<1> QED BY <1>9, <1>10, <1>11, <1>12

LEMMA NextInv == Inv /\ [Next]_vars => Inv'
<1> SUFFICES ASSUME Inv, [Next]_vars PROVE Inv'
  OBVIOUS
<1>1. ASSUME NEW r \in Requests, Request(r) PROVE Inv'
  BY <1>1, ReadyInv
<1>2. CASE StartClean
  BY <1>2, StartCleanInv
<1>3. CASE Relocate
  BY <1>3, RelocateInv
<1>4. CASE EndRelocation \/ CrashInClean
  BY <1>4, EndRelocationInv
<1>5. CASE EndClean
  BY <1>5, EndCleanInv
<1>6. CASE StoreAfterRollover
  <2>1. Fits(head, req.size)
    BY <1>6, RequestFacts DEF StoreAfterRollover, Inv, RoomInv, Fits
  <2> QED BY <1>6, <2>1, StoreInv DEF StoreAfterRollover, Inv, RoomInv
<1>7. CASE UNCHANGED vars
  <2> USE <1>7 DEF vars, segVars, itemVars, billVars, cleanVars
  <2>1. Live' = Live /\ Free' = Free /\ Queued' = Queued
    BY DEF Live, Free, Queued, Pending, LiveOf
  <2>2. TypeOK'
    BY <2>1 DEF Inv, TypeOK
  <2>3. SegmentInv' /\ RoomInv' /\ QueueInv' /\ MinMemGuarantee'
    BY <2>1 DEF Inv, SegmentInv, NoDangling, RoomInv, QueueInv, MinMemGuarantee, BytesLimit, IsHit
  <2> QED BY <2>2, <2>3 DEF Inv
<1> QED BY <1>1, <1>2, <1>3, <1>4, <1>5, <1>6, <1>7 DEF Next, Proceed, Crashed

(* Every reachable state satisfies the inductive invariant. *)
THEOREM Invariance == Spec => []Inv
BY InitInv, NextInv, PTL DEF Spec

(* Every variable keeps its type, and no segment is filled beyond its size *)
(* by proc or by clean.                                                    *)
THEOREM TypeCorrect == Spec => []TypeOK
<1>1. Inv => TypeOK
  BY DEF Inv
<1> QED BY <1>1, Invariance, PTL

(* The hash table never points into a segment that clean gave back, and    *)
(* sources, destinations and head of the log stay apart.                   *)
THEOREM NeverDangling == Spec => []NoDangling
<1>1. Inv => NoDangling
  BY DEF Inv, SegmentInv
<1> QED BY <1>1, Invariance, PTL

(* Whatever the trace, rollover and choose_cleaning_destination find a     *)
(* free segment: their assertions never fire.                              *)
THEOREM FreeSegmentsSuffice == Spec => []FreeSegments
<1>1. Inv => FreeSegments
  BY DEF Inv, SegmentInv, FreeSegments
<1> QED BY <1>1, Invariance, PTL

(* choose_cleaning_sources_low_need always finds an application. *)
THEOREM LowNeedNeverNull == Spec => []LowNeedAppExists
<1>1. Inv => LowNeedAppExists
  BY DEF Inv, QueueInv, LowNeedAppExists
<1> QED BY <1>1, Invariance, PTL

(* No sequence of steals takes an application below its reservation. *)
THEOREM ReservationsHold == Spec => []MinMemGuarantee
<1>1. Inv => MinMemGuarantee
  BY DEF Inv
<1> QED BY <1>1, Invariance, PTL

-------------------------------------------------------------------------------
(* The log implements the cache the replay loop expects.                   *)

contents == [k \in Live |-> map[k].size]

LEMMA CacheInit == Init => C!CacheInit
BY DEF Init, C!CacheInit, Live, Outcome

(* Storing a request that does not hit installs its size and leaves every  *)
(* other key alone.                                                        *)
LEMMA StoreInstalls ==
  ASSUME NEW r \in Requests, ~ IsHit(r), Store(r)
  PROVE  C!Install(r.kid, r.size)
<1>1. Live' = Live \union {r.kid}
      /\ \A k \in Live' : map'[k] = IF k = r.kid
           THEN [seg |-> head, size |-> r.size, app |-> r.app] ELSE map[k]
  BY DEF Store, With, Live
<1>2. contents' = C!With(C!Without(contents, {}), r.kid, r.size)
  BY <1>1 DEF contents, C!With, C!Without
<1>3. r.kid \in DOMAIN contents => contents[r.kid] # r.size
  BY DEF IsHit, contents
<1>4. outcome' = C!Outcome(r.kid, r.size, "miss")
  BY DEF Store, Outcome, C!Outcome
<1>5. {} \in SUBSET (DOMAIN contents \ {r.kid})
  OBVIOUS
<1> QED BY <1>2, <1>3, <1>4, <1>5 DEF C!Install, contents

LEMMA StepRefines == Inv /\ Inv' /\ [Next]_vars => [C!CacheNext]_(C!cvars)
<1> SUFFICES ASSUME Inv, Inv', [Next]_vars PROVE [C!CacheNext]_(C!cvars)
  OBVIOUS
<1>1. ASSUME NEW r \in Requests, Oversize(r) PROVE C!CacheNext
  <2>1. contents' = contents /\ contents' = C!Without(contents, {})
    BY <1>1 DEF Oversize, itemVars, contents, Live, C!Without
  <2>2. outcome' = C!Outcome(r.kid, r.size, "rejected") /\ {} \in SUBSET DOMAIN contents
    BY <1>1 DEF Oversize, Outcome, C!Outcome
  <2>3. C!Refuse(r.kid, r.size)
    BY <2>1, <2>2 DEF C!Refuse, contents
  <2> QED BY <2>3, RequestFacts DEF C!CacheNext
<1>2. ASSUME NEW r \in Requests, HitInLog(r) PROVE C!CacheNext
  <2>1. Live' = Live /\ \A k \in Live : map'[k].size = map[k].size
    <3>1. \A k \in Live : map[k] \in Items
      BY DEF Inv, TypeOK
    <3> QED BY <1>2, <3>1 DEF HitInLog, Live, Items
  <2>2. contents' = contents /\ r.kid \in DOMAIN contents /\ contents[r.kid] = r.size
    BY <1>2, <2>1 DEF HitInLog, IsHit, contents
  <2>3. outcome' = C!Outcome(r.kid, r.size, "hit")
    BY <1>2 DEF HitInLog, Outcome, C!Outcome
  <2>4. C!Hit(r.kid, r.size)
    BY <2>2, <2>3 DEF C!Hit, contents
  <2> QED BY <2>4, RequestFacts DEF C!CacheNext
<1>3. ASSUME NEW r \in Requests, StoreInHead(r) PROVE C!CacheNext
  <2>1. C!Install(r.kid, r.size)
    BY <1>3, StoreInstalls DEF StoreInHead
  <2> QED BY <2>1, RequestFacts DEF C!CacheNext
<1>4. CASE StoreAfterRollover
  <2>1. req \in Requests /\ ~ IsHit(req)
    BY <1>4 DEF StoreAfterRollover, Inv, RoomInv
  <2>2. PICK r \in Requests : r = req
    BY <2>1
  <2>3. C!Install(r.kid, r.size)
    BY <1>4, <2>1, <2>2, StoreInstalls DEF StoreAfterRollover
  <2> QED BY <2>3, RequestFacts DEF C!CacheNext
<1>5. CASE EndClean
  <2> DEFINE gone == UNION {Pending(a) : a \in Apps}
  <2>1. Live' = Live \ gone /\ \A k \in Live' : map'[k] = map[k]
    BY <1>5 DEF EndClean, Without, Live
  <2>2. gone \in SUBSET Live
    BY DEF Pending, LiveOf
  <2> HIDE DEF gone
  <2>3. contents' = C!Without(contents, gone) /\ gone \in SUBSET DOMAIN contents
    BY <2>1, <2>2 DEF contents, C!Without
  <2>4. outcome' = outcome
    BY <1>5 DEF EndClean
  <2>5. C!Evict
    BY <2>3, <2>4 DEF C!Evict, contents
  <2> QED BY <2>5 DEF C!CacheNext
<1>6. CASE Relocate
  <2>1. PICK a \in ChooseSurvivor : \E k \in Newest(Pending(a)) :
               \E s \in Segments \union {Last(dst_segments)} : Move(k, s)
    BY <1>6 DEF Relocate, RelocateToDst, RelocateToNewDst, FirstFree, Free
  <2>2. PICK k \in Newest(Pending(a)) :
               \E s \in Segments \union {Last(dst_segments)} : Move(k, s)
    BY <2>1
  <2>3. k \in Live
    BY <2>1, <2>2, SurvivorIsQueued DEF Queued
  <2>4. map[k] \in Items
    BY <2>3 DEF Inv, TypeOK
  <2>5. Live' = Live /\ \A j \in Live : map'[j].size = map[j].size
    BY <2>2, <2>3, <2>4 DEF Move, Live, Items
  <2>6. contents' = contents /\ outcome' = outcome
    BY <2>2, <2>5 DEF contents, Move
  <2> QED BY <2>6 DEF C!cvars, contents
<1>7. CASE \/ UNCHANGED vars \/ StartClean \/ EndRelocation \/ CrashInClean
           \/ \E r \in Requests : Rollover(r)
  <2>1. UNCHANGED <<map, outcome>>
    BY <1>7 DEF vars, itemVars, StartClean, EndRelocation, CrashInClean, Rollover
  <2> QED BY <2>1 DEF C!cvars, Live
<1> QED BY <1>1, <1>2, <1>3, <1>4, <1>5, <1>6, <1>7 DEF Next, Request, Proceed, Crashed

(* Seen from the replay loop, the log is a cache: a request hits exactly   *)
(* if its key is cached with its size, and nothing but a request brings an *)
(* object into it, however much cleaning happens in between.               *)
THEOREM LogIsCache == Spec => IsCache
<1>1. Inv /\ Inv' /\ [Next]_vars => [C!CacheNext]_(C!cvars)
  BY StepRefines
<1> QED BY <1>1, CacheInit, Invariance, PTL DEF Spec, IsCache, C!CacheSpec

-------------------------------------------------------------------------------
(***************************************************************************)
(* Proofs about what the cleaner of lsc_multi keeps and what it throws     *)
(* away: the order of survivors within an application, between             *)
(* applications, and how full its destinations are.                        *)
(*                                                                         *)
(* All of it rests on one lemma about a turn of the relocation loop: one   *)
(* item, the newest queued one of the application that was chosen, goes    *)
(* from the pending items to the moved ones, and nothing else does.        *)
(***************************************************************************)

(* A destination that at least one size of the trace does not fit into. *)
Tight(s) == \E n \in Sizes : n =< SegmentSize /\ ~ Fits(s, n)

(* All destinations but the current one are tight, and so is the current   *)
(* one when items were left behind.                                        *)
FullInv ==
  /\ \A i \in 1 .. Len(dst_segments) - 1 : Tight(dst_segments[i])
  /\ EvictsOnlyWhenFull

CleanerInv == FullInv /\ SurvivorsAreNewest /\ ReservationPriority /\ GreedyIsGlobal

-------------------------------------------------------------------------------
(* Outside of a cleaning nothing is pending and nothing is moved. *)
LEMMA NothingMoved ==
  ASSUME dst_segments = <<>>
  PROVE  \A a \in Apps : Moved(a) = {}
BY DEF Moved, LiveOf, ToSet

(* A free segment holds no live item. *)
LEMMA FreeIsEmpty ==
  ASSUME Inv, NEW s \in Free
  PROVE  \A k \in Live : map[k].seg # s
BY DEF Inv, SegmentInv, NoDangling, Free

(* The destinations of a turn of the loop that moves item k to segment s. *)
LEMMA DestinationsAfter ==
  ASSUME Inv, NEW s \in Segments,
         \/ dst_segments # <<>> /\ s = Last(dst_segments) /\ UNCHANGED dst_segments
         \/ dst_segments' = Append(dst_segments, s)
  PROVE  /\ ToSet(dst_segments') = ToSet(dst_segments) \union {s}
         /\ dst_segments' \in Seq(Segments)
<1>1. dst_segments \in Seq(Segments)
  BY DEF Inv, TypeOK
<1>2. CASE dst_segments # <<>> /\ s = Last(dst_segments) /\ UNCHANGED dst_segments
  BY <1>1, <1>2 DEF Last, ToSet
<1>3. CASE dst_segments' = Append(dst_segments, s)
  <2>1. /\ Len(dst_segments') = Len(dst_segments) + 1
        /\ \A i \in 1 .. Len(dst_segments') :
             dst_segments'[i] = IF i = Len(dst_segments) + 1 THEN s ELSE dst_segments[i]
        /\ dst_segments' \in Seq(Segments)
    BY <1>1, <1>3
  <2> QED BY <1>1, <2>1 DEF ToSet
<1> QED BY <1>2, <1>3

(* What a turn of the relocation loop does: the newest pending item of the *)
(* chosen application joins the moved ones, in a segment it fits into.     *)
Turn(a, k, s) ==
  /\ a \in ChooseSurvivor /\ k \in Newest(Pending(a)) /\ s \in Segments \ srcs
  /\ \/ dst_segments # <<>> /\ s = Last(dst_segments) /\ UNCHANGED dst_segments
     \/ ~ RoomFor(k) /\ s \in Free /\ dst_segments' = Append(dst_segments, s)
  /\ Move(k, s)
  /\ inUse' = inUse \union {s} /\ (s \in inUse \/ s \in Free)
  /\ \A b \in Apps : /\ Moved(b)' = IF b = a THEN Moved(b) \union {k} ELSE Moved(b)
                     /\ Pending(b)' = IF b = a THEN Pending(b) \ {k} ELSE Pending(b)

LEMMA RelocateIsTurn ==
  ASSUME Inv, Relocate
  PROVE  \E a \in Apps, k \in Live, s \in Segments : Turn(a, k, s)
<1> USE DEF Inv
<1>0. PICK a \in ChooseSurvivor : \E k \in Newest(Pending(a)) :
             RelocateToDst(k) \/ RelocateToNewDst(k)
  BY DEF Relocate
<1>1. PICK k \in Newest(Pending(a)) : RelocateToDst(k) \/ RelocateToNewDst(k)
  BY <1>0
<1>2. a \in Apps /\ k \in Live /\ map[k].seg \in srcs /\ map[k].app = a
  BY <1>0, <1>1, SurvivorIsQueued DEF Queued
<1>3. \E s \in Segments \ srcs :
        /\ \/ dst_segments # <<>> /\ s = Last(dst_segments) /\ UNCHANGED dst_segments
           \/ ~ RoomFor(k) /\ s \in Free /\ dst_segments' = Append(dst_segments, s)
        /\ Move(k, s)
        /\ inUse' = inUse \union {s} /\ (s \in inUse \/ s \in Free)
  <2>1. CASE RelocateToDst(k)
    <3>1. dst_segments # <<>> /\ Last(dst_segments) \in ToSet(dst_segments)
      BY <2>1 DEF RelocateToDst, RoomFor, TypeOK, Last, ToSet
    <3>2. Last(dst_segments) \in Segments \ srcs /\ Last(dst_segments) \in inUse
      BY <3>1 DEF SegmentInv, NoDangling, TypeOK
    <3>3. inUse' = inUse \union {Last(dst_segments)}
      BY <2>1, <3>2 DEF RelocateToDst
    <3> QED BY <2>1, <3>1, <3>2, <3>3 DEF RelocateToDst
  <2>2. CASE RelocateToNewDst(k)
    <3>1. FirstFree \subseteq Free /\ Free \subseteq Segments \ srcs
      BY DEF FirstFree, Free, SegmentInv, NoDangling
    <3> QED BY <2>2, <3>1 DEF RelocateToNewDst
  <2> QED BY <1>1, <2>1, <2>2
<1>4. PICK s \in Segments \ srcs :
        /\ \/ dst_segments # <<>> /\ s = Last(dst_segments) /\ UNCHANGED dst_segments
           \/ ~ RoomFor(k) /\ s \in Free /\ dst_segments' = Append(dst_segments, s)
        /\ Move(k, s)
        /\ inUse' = inUse \union {s} /\ (s \in inUse \/ s \in Free)
  BY <1>3
<1>5. ToSet(dst_segments') = ToSet(dst_segments) \union {s}
  BY <1>4, DestinationsAfter
<1>6. \A j \in Live : j # k /\ map[j].seg = s => s \in ToSet(dst_segments)
  <2>1. CASE s \in Free
    BY <2>1, FreeIsEmpty
  <2>2. CASE dst_segments # <<>> /\ s = Last(dst_segments)
    BY <2>2 DEF TypeOK, Last, ToSet
  <2> QED BY <1>4, <2>1, <2>2
<1>7. /\ Live' = Live /\ srcs' = srcs
      /\ \A j \in Live : /\ map'[j].app = map[j].app
                         /\ map'[j].seg = IF j = k THEN s ELSE map[j].seg
  <2>1. \A j \in Live : map[j] \in Items
    BY DEF TypeOK
  <2> QED BY <1>2, <1>4, <2>1 DEF Move, Live, Items
<1>8. ASSUME NEW b \in Apps
      PROVE  /\ Moved(b)' = IF b = a THEN Moved(b) \union {k} ELSE Moved(b)
             /\ Pending(b)' = IF b = a THEN Pending(b) \ {k} ELSE Pending(b)
  <2>1. Moved(b)' = {j \in Live : map'[j].seg \in ToSet(dst_segments) \union {s} /\ map'[j].app = b}
    BY <1>5, <1>7 DEF Moved, LiveOf
  <2>2. Pending(b)' = {j \in Live : map'[j].seg \in srcs /\ map'[j].app = b}
    BY <1>7 DEF Pending, LiveOf
  <2> QED BY <1>2, <1>6, <1>7, <2>1, <2>2 DEF Moved, Pending, LiveOf
<1> QED BY <1>0, <1>1, <1>2, <1>4, <1>8 DEF Turn

(* The steps that are not a turn of the loop, nor its end, hold no item    *)
(* moved afterwards.                                                       *)
LEMMA NoDestination ==
  ASSUME Inv, [Next]_vars, ~ Relocate, ~ EndRelocation, ~ CrashInClean, ~ UNCHANGED vars
  PROVE  dst_segments' = <<>> /\ pc' # "evict"
<1> USE DEF Inv
<1>1. ASSUME NEW r \in Requests, Request(r) PROVE dst_segments' = <<>> /\ pc' # "evict"
  BY <1>1 DEF Request, Oversize, HitInLog, StoreInHead, Rollover, Store, cleanVars, SegmentInv
<1>2. CASE StartClean \/ EndClean \/ StoreAfterRollover
  BY <1>2 DEF StartClean, EndClean, StoreAfterRollover, Store, cleanVars, SegmentInv
<1> QED BY <1>1, <1>2 DEF Next, Proceed, Crashed

(* Stages of a cleaning that change neither what is pending and what is    *)
(* moved, nor its order, nor what the limits are.                          *)
LEMMA EndKeepsSets ==
  ASSUME EndRelocation \/ CrashInClean \/ UNCHANGED vars
  PROVE  /\ \A a \in Apps : Moved(a)' = Moved(a) /\ Pending(a)' = Pending(a)
         /\ Queued' = Queued
         /\ UNCHANGED <<recency, credit_bytes, dst_segments, filled_bytes>>
BY DEF EndRelocation, CrashInClean, vars, segVars, itemVars, cleanVars, Moved, Pending,
   Queued, LiveOf, Live

-------------------------------------------------------------------------------
(* How full the destinations are.                                          *)

(* What fills up cannot become roomier. *)
LEMMA TightStaysTight ==
  ASSUME NEW s \in Segments, Tight(s), TypeOK, filled_bytes'[s] \in Nat,
         filled_bytes'[s] >= filled_bytes[s]
  PROVE  Tight(s)'
<1>1. PICK n \in Sizes : n =< SegmentSize /\ ~ Fits(s, n)
  BY DEF Tight
<1>2. n \in Nat /\ filled_bytes[s] \in Nat /\ SegmentSize \in Nat
  BY SizesNat, RequestsAssumption DEF TypeOK
<1> QED BY <1>1, <1>2 DEF Tight, Fits

LEMMA TurnFull ==
  ASSUME Inv, FullInv, pc = "clean", NEW a \in Apps, NEW k \in Live, NEW s \in Segments,
         Turn(a, k, s), Inv'
  PROVE  FullInv'
<1> USE DEF Inv
<1>1. map[k].size \in Sizes /\ map[k].size \in Nat /\ map[k].size =< SegmentSize
  BY ItemFacts DEF RoomInv
<1>2. \A t \in Segments : filled_bytes'[t] \in Nat /\ filled_bytes'[t] >= filled_bytes[t]
  <2>1. filled_bytes' = [filled_bytes EXCEPT ![s] = @ + map[k].size]
    BY DEF Turn, Move, Write
  <2>2. \A t \in Segments : filled_bytes[t] \in Nat
    BY RequestsAssumption DEF TypeOK
  <2>3. filled_bytes \in [Segments -> 0 .. SegmentSize]
    BY DEF TypeOK
  <2> QED BY <1>1, <2>1, <2>2, <2>3
<1>3. \A t \in Segments : Tight(t) => Tight(t)'
  BY <1>2, TightStaysTight
<1>4. dst_segments \in Seq(Segments)
  BY DEF TypeOK
<1>5. (\A i \in 1 .. Len(dst_segments) - 1 : Tight(dst_segments[i]))'
  <2>1. CASE UNCHANGED dst_segments
    <3>1. \A i \in 1 .. Len(dst_segments) - 1 : Tight(dst_segments[i]) /\ dst_segments[i] \in Segments
      BY <1>4 DEF FullInv
    <3> QED BY <1>3, <2>1, <3>1 DEF Tight, Fits
  <2>2. CASE ~ RoomFor(k) /\ dst_segments' = Append(dst_segments, s)
    <3>1. /\ Len(dst_segments') = Len(dst_segments) + 1
          /\ \A i \in 1 .. Len(dst_segments) : /\ dst_segments'[i] = dst_segments[i]
                                               /\ dst_segments[i] \in Segments
      BY <1>4, <2>2
    <3>2. ASSUME dst_segments # <<>> PROVE Tight(dst_segments[Len(dst_segments)])
      BY <1>1, <2>2, <3>2 DEF RoomFor, Tight, Last
    <3>3. \A i \in 1 .. Len(dst_segments) : Tight(dst_segments[i])
      BY <1>4, <3>2 DEF FullInv
    <3> QED BY <1>3, <1>4, <3>1, <3>3 DEF Tight, Fits
  <2> QED BY <2>1, <2>2 DEF Turn
<1>6. pc' = "clean"
  BY DEF Turn, Move
<1> QED BY <1>5, <1>6 DEF FullInv, EvictsOnlyWhenFull

(* The loop is left with items pending only for lack of destinations. *)
LEMMA EndFull ==
  ASSUME Inv, FullInv, EndRelocation
  PROVE  FullInv'
<1> USE DEF Inv
<1>1. dst_segments' = dst_segments /\ filled_bytes' = filled_bytes /\ Queued' = Queued
  BY EndKeepsSets
<1>2. \A s : Tight(s)' = Tight(s)
  BY <1>1 DEF Tight, Fits
<1>3. dst_segments \in Seq(Segments)
  BY DEF TypeOK
<1>4. ASSUME Queued # {}
      PROVE  /\ Len(dst_segments) = CleaningWidth - 1
             /\ \A s \in ToSet(dst_segments) : Tight(s)
  <2>1. PICK a \in ChooseSurvivor : \E k \in Newest(Pending(a)) : ~ RoomFor(k) /\ ~ DstLeft
    BY <1>4 DEF EndRelocation
  <2>2. PICK k \in Newest(Pending(a)) : ~ RoomFor(k) /\ ~ DstLeft
    BY <2>1
  <2>3. k \in Live
    BY <2>1, <2>2, SurvivorIsQueued DEF Queued
  <2>4. map[k].size \in Sizes /\ map[k].size =< SegmentSize
    BY <2>3, ItemFacts DEF RoomInv
  <2>5. Len(dst_segments) = CleaningWidth - 1
    BY <1>3, <2>2, SegmentsAssumption DEF EndRelocation, DstLeft, SegmentInv, TypeOK
  <2>6. ASSUME dst_segments # <<>> PROVE Tight(dst_segments[Len(dst_segments)])
    BY <2>2, <2>4, <2>6 DEF RoomFor, Tight, Last
  <2>7. \A i \in 1 .. Len(dst_segments) : Tight(dst_segments[i])
    BY <1>3, <2>6 DEF FullInv
  <2> QED BY <1>3, <2>5, <2>7 DEF ToSet
<1> QED BY <1>1, <1>2, <1>4 DEF FullInv, EvictsOnlyWhenFull, Tight

-------------------------------------------------------------------------------
(* Which items survive.                                                    *)

(* The newest of a set of items is newer than the rest of it. *)
LEMMA NewestIsNewer ==
  ASSUME NEW K, NEW k \in Newest(K)
  PROVE  \A j \in K \ {k} : Newer(k, j)
BY DEF Newest

(* The queues of a are what srcs holds of it, newest first, so that the    *)
(* item moved is newer than what stays queued.                             *)
LEMMA TurnSurvivors ==
  ASSUME SurvivorsAreNewest, NEW a \in Apps, NEW k \in Live, NEW s \in Segments, Turn(a, k, s)
  PROVE  SurvivorsAreNewest'
<1>1. recency' = recency
  BY DEF Turn, Move
<1>2. \A b \in Apps : \A i \in Moved(b)', j \in Pending(b)' : Newer(i, j)
  BY NewestIsNewer DEF Turn, SurvivorsAreNewest
<1> QED BY <1>1, <1>2 DEF SurvivorsAreNewest, Newer

(* The application that was chosen is at its reservation if any is that    *)
(* has an item queued, under the policy that looks for it.                 *)
LEMMA TurnReservation ==
  ASSUME ReservationPriority, NEW a \in Apps, NEW k \in Live, NEW s \in Segments, Turn(a, k, s)
  PROVE  ReservationPriority'
<1>1. \A b \in Apps : AtReservation(b)' = AtReservation(b)
  BY DEF Turn, Move, AtReservation, BytesLimit
<1>2. ASSUME Subpolicy = "NORMAL", NEW b \in Queued, AtReservation(b)
      PROVE  AtReservation(a)
  BY <1>2 DEF Turn, ChooseSurvivor, MostInNeed
<1>3. Queued' \subseteq Queued
  BY DEF Turn, Queued
<1>4. \A b \in Apps : Moved(b)' # {} => b = a \/ Moved(b) # {}
  BY DEF Turn
<1>5. ASSUME Subpolicy = "NORMAL", NEW b \in Queued', AtReservation(b),
             NEW c \in Apps, Moved(c)' # {}
      PROVE  AtReservation(c)
  BY <1>2, <1>3, <1>4, <1>5 DEF ReservationPriority
<1> QED BY <1>1, <1>3, <1>5 DEF ReservationPriority, Queued

(* The greedy policy looks at the newest queued item of every application. *)
LEMMA TurnGreedy ==
  ASSUME GreedyIsGlobal, NEW a \in Apps, NEW k \in Live, NEW s \in Segments, Turn(a, k, s)
  PROVE  GreedyIsGlobal'
<1>1. recency' = recency
  BY DEF Turn, Move
<1>2. ASSUME Subpolicy = "GREEDY", NEW b \in Apps, NEW j \in Pending(b) \ {k}
      PROVE  Newer(k, j)
  <2>1. k \in Newest(UNION {Pending(c) : c \in Apps})
    BY <1>2 DEF Turn, ChooseSurvivor
  <2> QED BY <1>2, <2>1, NewestIsNewer
<1>3. \A b \in Apps : k \notin Pending(b)'
  <2>1. map' = [map EXCEPT ![k].seg = s] /\ s \notin srcs /\ srcs' = srcs
    BY DEF Turn, Move
  <2> QED BY <2>1 DEF Pending, LiveOf, Live
<1>4. ASSUME Subpolicy = "GREEDY", NEW b \in Apps, NEW c \in Apps,
             NEW i \in Moved(b)', NEW j \in Pending(c)'
      PROVE  Newer(i, j)
  <2>1. j \in Pending(c) \ {k} /\ (i = k \/ i \in Moved(b))
    BY <1>3, <1>4 DEF Turn
  <2> QED BY <1>2, <1>4, <2>1 DEF GreedyIsGlobal
<1> QED BY <1>1, <1>4 DEF GreedyIsGlobal, Newer

LEMMA InitCleaner == Init => CleanerInv
<1> SUFFICES ASSUME Init PROVE CleanerInv
  OBVIOUS
<1>1. dst_segments = <<>> /\ pc = "ready"
  BY DEF Init
<1>2. \A a \in Apps : Moved(a) = {}
  BY <1>1, NothingMoved
<1> QED BY <1>1, <1>2 DEF CleanerInv, FullInv, EvictsOnlyWhenFull, SurvivorsAreNewest,
        ReservationPriority, GreedyIsGlobal

LEMMA NextCleaner == Inv /\ Inv' /\ CleanerInv /\ [Next]_vars => CleanerInv'
<1> SUFFICES ASSUME Inv, Inv', CleanerInv, [Next]_vars PROVE CleanerInv'
  OBVIOUS
<1>1. CASE Relocate
  <2>1. PICK a \in Apps, k \in Live, s \in Segments : Turn(a, k, s)
    BY <1>1, RelocateIsTurn
  <2>2. FullInv'
    BY <1>1, <2>1, TurnFull DEF Relocate, CleanerInv
  <2>3. SurvivorsAreNewest' /\ ReservationPriority' /\ GreedyIsGlobal'
    BY <2>1, TurnSurvivors, TurnReservation, TurnGreedy DEF CleanerInv
  <2> QED BY <2>2, <2>3 DEF CleanerInv
<1>2. CASE EndRelocation \/ CrashInClean \/ UNCHANGED vars
  <2>1. /\ \A a \in Apps : Moved(a)' = Moved(a) /\ Pending(a)' = Pending(a)
        /\ Queued' = Queued
        /\ UNCHANGED <<recency, credit_bytes, dst_segments, filled_bytes>>
    BY <1>2, EndKeepsSets
  <2>2. FullInv'
    <3>1. CASE EndRelocation
      BY <3>1, EndFull DEF CleanerInv
    <3>2. CASE CrashInClean \/ UNCHANGED vars
      BY <2>1, <3>2 DEF CrashInClean, vars, CleanerInv, FullInv, EvictsOnlyWhenFull, Tight, Fits
    <3> QED BY <1>2, <3>1, <3>2
  <2>3. SurvivorsAreNewest' /\ GreedyIsGlobal'
    BY <2>1 DEF CleanerInv, SurvivorsAreNewest, GreedyIsGlobal, Newer
  <2>4. ReservationPriority'
    BY <2>1 DEF CleanerInv, ReservationPriority, AtReservation, BytesLimit
  <2> QED BY <2>2, <2>3, <2>4 DEF CleanerInv
<1>3. CASE ~ Relocate /\ ~ EndRelocation /\ ~ CrashInClean /\ ~ UNCHANGED vars
  <2>1. dst_segments' = <<>> /\ pc' # "evict"
    BY <1>3, NoDestination
  <2>2. \A a \in Apps : Moved(a)' = {}
    BY <2>1 DEF Moved, LiveOf, ToSet
  <2> QED BY <2>1, <2>2 DEF CleanerInv, FullInv, EvictsOnlyWhenFull, SurvivorsAreNewest,
          ReservationPriority, GreedyIsGlobal
<1> QED BY <1>1, <1>2, <1>3

LEMMA CleanerInvariance == Spec => []CleanerInv
BY InitCleaner, NextCleaner, Invariance, PTL DEF Spec

-------------------------------------------------------------------------------
(* Cleaning throws items away only when all its destinations are taken     *)
(* and full, but for the largest object of the trace.                      *)
THEOREM EvictionsAreForced == Spec => []EvictsOnlyWhenFull
<1>1. CleanerInv => EvictsOnlyWhenFull
  BY DEF CleanerInv, FullInv
<1> QED BY <1>1, CleanerInvariance, PTL

(* Whichever applications take turns in the destinations, an item that was *)
(* copied is newer than any its application has left behind.               *)
THEOREM LruWithinApplications == Spec => []SurvivorsAreNewest
<1>1. CleanerInv => SurvivorsAreNewest
  BY DEF CleanerInv
<1> QED BY <1>1, CleanerInvariance, PTL

(* An application above its reservation has no item copied while one at    *)
(* its reservation waits.                                                  *)
THEOREM ReservedGoFirst == Spec => []ReservationPriority
<1>1. CleanerInv => ReservationPriority
  BY DEF CleanerInv
<1> QED BY <1>1, CleanerInvariance, PTL

(* Under the GREEDY policy choosing application by application amounts to  *)
(* one LRU order over all of them.                                         *)
THEOREM GreedyIsGlobalLru == Spec => []GreedyIsGlobal
<1>1. CleanerInv => GreedyIsGlobal
  BY DEF CleanerInv
<1> QED BY <1>1, CleanerInvariance, PTL

-------------------------------------------------------------------------------
(* The order of item times. *)
RecencyInv == recency \in Seq(Keys) /\ IsInjective(recency) /\ ToSet(recency) = Live

LEMMA TouchRecency ==
  ASSUME RecencyInv, NEW k \in Keys, recency' = Touch(k), Live' = Live \union {k}
  PROVE  RecencyInv'
<1> DEFINE rest == Erase(recency, {k})
<1>1. rest \in Seq(Keys) /\ ToSet(rest) = Live \ {k} /\ IsInjective(rest)
  BY EraseSet, EraseDistinct DEF RecencyInv
<1>2. recency' = <<k>> \o rest
  BY DEF Touch
<1> HIDE DEF rest
<1>3. /\ <<k>> \o rest \in Seq(Keys) /\ IsInjective(<<k>> \o rest)
      /\ ToSet(<<k>> \o rest) = {k} \union ToSet(rest)
  BY <1>1, PushFront
<1>4. recency' \in Seq(Keys) /\ IsInjective(recency') /\ ToSet(recency') = Live'
  BY <1>1, <1>2, <1>3
<1> QED BY <1>4 DEF RecencyInv

LEMMA NextRecency == Inv /\ RecencyInv /\ [Next]_vars => RecencyInv'
<1> SUFFICES ASSUME Inv, RecencyInv, [Next]_vars PROVE RecencyInv'
  OBVIOUS
<1>1. ASSUME NEW r \in Requests, Store(r) PROVE RecencyInv'
  <2>1. Live' = Live \union {r.kid}
    BY <1>1 DEF Store, With, Live
  <2> QED BY <1>1, <2>1, RequestFacts, TouchRecency DEF Store
<1>2. ASSUME NEW r \in Requests, HitInLog(r) PROVE RecencyInv'
  <2>1. Live' = Live \union {r.kid}
    BY <1>2 DEF HitInLog, IsHit, Live
  <2> QED BY <1>2, <2>1, RequestFacts, TouchRecency DEF HitInLog
<1>3. CASE EndClean
  <2> DEFINE gone == UNION {Pending(a) : a \in Apps}
  <2>1. Live' = Live \ gone /\ recency' = Erase(recency, gone)
    BY <1>3 DEF EndClean, Without, Live
  <2> HIDE DEF gone
  <2>2. /\ recency' \in Seq(Keys) /\ IsInjective(recency')
        /\ ToSet(recency') = Live'
    BY <2>1, EraseSet, EraseDistinct DEF RecencyInv
  <2> QED BY <2>2 DEF RecencyInv
<1>4. CASE Relocate
  <2>1. PICK a \in Apps, k \in Live, s \in Segments : Turn(a, k, s)
    BY <1>4, RelocateIsTurn
  <2>2. recency' = recency /\ Live' = Live
    BY <2>1 DEF Turn, Move, Live
  <2> QED BY <2>2 DEF RecencyInv
<1>5. CASE \/ \E r \in Requests : Oversize(r) \/ Rollover(r)
           \/ StartClean \/ EndRelocation \/ CrashInClean \/ UNCHANGED vars
  BY <1>5 DEF Oversize, Rollover, StartClean, EndRelocation, CrashInClean, vars, itemVars,
     RecencyInv, Live
<1> QED BY <1>1, <1>2, <1>3, <1>4, <1>5 DEF Next, Request, Proceed, Crashed, StoreInHead,
           StoreAfterRollover, Inv, RoomInv

-------------------------------------------------------------------------------
(* Shadow queues. *)
Shadows   == {q \in [Keys -> Nat] : SumFunctionOnSet(q, Keys) =< ShadowCap}
ShadowInv == shadow_q \in [Apps -> Shadows]

LEMMA EntryChanges ==
  ASSUME NEW q \in [Keys -> Nat], NEW k \in Keys, NEW n \in Nat
  PROVE  /\ [q EXCEPT ![k] = n] \in [Keys -> Nat]
         /\ SumFunctionOnSet([q EXCEPT ![k] = n], Keys) = SumFunctionOnSet(q, Keys) - q[k] + n
         /\ SumFunctionOnSet(q, Keys) \in Nat /\ q[k] =< SumFunctionOnSet(q, Keys)
<1> DEFINE p == [q EXCEPT ![k] = n]
<1>1. p \in [Keys -> Nat] /\ p[k] = n /\ \A j \in Keys \ {k} : p[j] = q[j]
  OBVIOUS
<1>2. IsFiniteSet(Keys) /\ Ints(q, Keys) /\ \A j \in Keys : q[j] \in Nat
  BY RequestsAssumption DEF Ints
<1> HIDE DEF p
<1>3. SumFunctionOnSet(p, Keys) = SumFunctionOnSet(q, Keys) - q[k] + p[k]
  BY <1>1, <1>2, SumChange
<1>4. SumFunctionOnSet(q, Keys) \in Nat /\ q[k] =< SumFunctionOnSet(q, Keys)
  BY <1>2, SumNat
<1> QED BY <1>1, <1>3, <1>4 DEF p

(* An object that comes back with another size makes room by its old size  *)
(* before the new one is looked at.                                        *)
LEMMA IntoShadowFits ==
  ASSUME TypeOK, NEW q \in Shadows, NEW k \in Live
  PROVE  IntoShadow(q, k) \in Shadows
<1> DEFINE rest == [q EXCEPT ![k] = 0]
           n == map[k].size
<1>1. k \in Keys /\ n \in Nat /\ q \in [Keys -> Nat] /\ ShadowCap \in Nat
  BY ItemFacts, RequestsAssumption DEF TypeOK, Shadows
<1>2. /\ rest \in [Keys -> Nat] /\ rest[k] = 0
      /\ SumFunctionOnSet(rest, Keys) =< ShadowCap /\ SumFunctionOnSet(rest, Keys) \in Nat
  <2>1. /\ rest \in [Keys -> Nat] /\ rest[k] = 0
        /\ SumFunctionOnSet(rest, Keys) = SumFunctionOnSet(q, Keys) - q[k] + 0
        /\ q[k] =< SumFunctionOnSet(q, Keys) /\ SumFunctionOnSet(q, Keys) \in Nat /\ q[k] \in Nat
    BY <1>1, EntryChanges, ZenonT(40)
  <2>2. SumFunctionOnSet(q, Keys) =< ShadowCap
    BY DEF Shadows
  <2> HIDE DEF rest
  <2> QED BY <1>1, <2>1, <2>2
<1> HIDE DEF rest, n
<1>3. /\ [rest EXCEPT ![k] = n] \in [Keys -> Nat]
      /\ SumFunctionOnSet([rest EXCEPT ![k] = n], Keys) = SumFunctionOnSet(rest, Keys) + n
  <2>0. k \in Keys /\ n \in Nat /\ rest \in [Keys -> Nat]
    BY <1>1, <1>2
  <2>1. /\ [rest EXCEPT ![k] = n] \in [Keys -> Nat]
        /\ SumFunctionOnSet([rest EXCEPT ![k] = n], Keys) = SumFunctionOnSet(rest, Keys) - rest[k] + n
    BY <2>0, EntryChanges, ZenonT(40)
  <2> DEFINE x == SumFunctionOnSet([rest EXCEPT ![k] = n], Keys)
             y == SumFunctionOnSet(rest, Keys)
  <2>2. x = y - rest[k] + n /\ rest[k] = 0 /\ y \in Nat
    BY <1>2, <2>1
  <2> HIDE DEF x, y
  <2>3. x = y + n
    BY <1>1, <2>2
  <2> QED BY <2>1, <2>3 DEF x, y
<1>4. SumFunction(rest) = SumFunctionOnSet(rest, Keys)
  BY <1>2 DEF SumFunction
<1>5. IntoShadow(q, k) = IF SumFunction(rest) + n =< ShadowCap
                         THEN [rest EXCEPT ![k] = n] ELSE rest
  BY DEF IntoShadow, rest, n
<1> QED BY <1>2, <1>3, <1>4, <1>5 DEF Shadows

(* The largest of a set of positions. *)
LEMMA MaxIsIn ==
  ASSUME NEW n \in Nat
  PROVE  \A T \in SUBSET (1 .. n) : T # {} => Max(T) \in T
<1> DEFINE P == {T \in SUBSET (1 .. n) : T # {} => \E x \in T : \A y \in T : x >= y}
<1>1. {} \in P
  OBVIOUS
<1>2. ASSUME NEW T \in SUBSET (1 .. n), T # {}, \A x \in T : T \ {x} \in P PROVE T \in P
  <2>1. PICK x \in T : TRUE
    BY <1>2
  <2>2. CASE T \ {x} = {}
    <3>1. \A y \in T : x >= y
      BY <2>2
    <3> QED BY <3>1
  <2>3. CASE T \ {x} # {}
    <3>1. PICK m \in T \ {x} : \A y \in T \ {x} : m >= y
      BY <1>2, <2>1, <2>3
    <3>2. m \in Nat /\ x \in Nat
      OBVIOUS
    <3>3. CASE m >= x
      <4>1. \A y \in T : m >= y
        BY <3>1, <3>3
      <4> QED BY <4>1
    <3>4. CASE ~ (m >= x)
      <4>1. \A y \in T : x >= y
        BY <3>1, <3>2, <3>4
      <4> QED BY <4>1
    <3> QED BY <3>3, <3>4
  <2> QED BY <2>2, <2>3
<1>3. \A T \in SUBSET (1 .. n) : T \in P
  <2>1. IsFiniteSet(1 .. n)
    BY FS_Interval
  <2> HIDE DEF P
  <2> QED BY <1>1, <1>2, <2>1, SubsetInduction
<1> QED BY <1>3 DEF Max

(* What the fold in EndClean says. *)
IsShadowFold(g, q, s) ==
  g = [T \in SUBSET (DOMAIN s) |->
         IF T = {} THEN q ELSE IntoShadow(g[T \ {Max(T)}], s[Max(T)])]

LEMMA ShadowFoldIsRecursive ==
  ASSUME NEW q, NEW s
  PROVE  FoldLeft(IntoShadow, q, s) = (CHOOSE g : IsShadowFold(g, q, s))[DOMAIN s]
BY DEF FoldLeft, MapThenFoldSet, IsShadowFold

LEMMA ShadowFoldExists ==
  ASSUME TypeOK, NEW q \in Shadows, NEW s \in Seq(Live)
  PROVE  IsShadowFold(CHOOSE g : IsShadowFold(g, q, s), q, s)
<1> DEFINE D == DOMAIN s
           step == [i \in D |-> [v \in Shadows |-> IntoShadow(v, s[i])]]
           pick == [T \in SUBSET D |-> Max(T)]
<1>1. D = 1 .. Len(s) /\ Len(s) \in Nat /\ IsFiniteSet(D) /\ \A i \in D : s[i] \in Live
  BY FS_Interval
<1>2. \A T \in SUBSET D : T # {} => pick[T] \in T /\ pick[T] = Max(T)
  BY <1>1, MaxIsIn
<1>3. \A i \in D, v \in Shadows :
        step[i][v] = IntoShadow(v, s[i]) /\ IntoShadow(v, s[i]) \in Shadows
  BY <1>1, IntoShadowFits
<1> HIDE DEF step, pick, D
<1>4. PICK g : IsFold(g, q, step, pick, D)
  BY <1>1, <1>2, FoldExists
<1>5. \A T \in SUBSET D : g[T] = IF T = {} THEN q ELSE step[pick[T]][g[T \ {pick[T]}]]
  BY <1>4 DEF IsFold
<1> DEFINE P == {T \in SUBSET D : g[T] \in Shadows}
<1>6. {} \in P
  BY <1>5
<1>7. ASSUME NEW T \in SUBSET D, T # {}, \A x \in T : T \ {x} \in P PROVE T \in P
  <2>1. pick[T] \in D /\ g[T \ {pick[T]}] \in Shadows
    BY <1>2, <1>7
  <2>2. step[pick[T]][g[T \ {pick[T]}]] \in Shadows
    BY <1>3, <2>1
  <2>3. g[T] = step[pick[T]][g[T \ {pick[T]}]]
    BY <1>5, <1>7
  <2> QED BY <2>2, <2>3
<1>8. \A T \in SUBSET D : T \in P
  <2>1. IsFiniteSet(D)
    BY <1>1
  <2> HIDE DEF P
  <2> QED BY <1>6, <1>7, <2>1, SubsetInduction
<1>9. \A T \in SUBSET D :
        g[T] = IF T = {} THEN q ELSE IntoShadow(g[T \ {Max(T)}], s[Max(T)])
  <2> TAKE T \in SUBSET D
  <2>1. CASE T # {}
    <3>1. pick[T] \in D /\ pick[T] = Max(T) /\ T \ {Max(T)} \in SUBSET D
      BY <1>2, <2>1
    <3>2. g[T \ {Max(T)}] \in Shadows
      BY <1>8, <3>1
    <3> QED BY <1>3, <1>5, <2>1, <3>1, <3>2
  <2>2. CASE T = {}
    BY <1>5, <2>2
  <2> QED BY <2>1, <2>2
<1>10. IsShadowFold(g, q, s)
  BY <1>4, <1>9 DEF IsShadowFold, IsFold, D
<1> QED BY <1>10

LEMMA ShadowFoldFits ==
  ASSUME TypeOK, NEW q \in Shadows, NEW s \in Seq(Live)
  PROVE  FoldLeft(IntoShadow, q, s) \in Shadows
<1> DEFINE D == DOMAIN s
           g == CHOOSE g : IsShadowFold(g, q, s)
           P == {T \in SUBSET D : g[T] \in Shadows}
<1>1. FoldLeft(IntoShadow, q, s) = g[D] /\ IsShadowFold(g, q, s)
  BY ShadowFoldIsRecursive, ShadowFoldExists
<1>2. D = 1 .. Len(s) /\ Len(s) \in Nat /\ IsFiniteSet(D) /\ \A i \in D : s[i] \in Live
  BY FS_Interval
<1> HIDE DEF g, D
<1>3. \A T \in SUBSET D :
        g[T] = IF T = {} THEN q ELSE IntoShadow(g[T \ {Max(T)}], s[Max(T)])
  BY <1>1 DEF IsShadowFold, D
<1>4. {} \in P
  BY <1>3
<1>5. ASSUME NEW T \in SUBSET D, T # {}, \A x \in T : T \ {x} \in P PROVE T \in P
  <2>1. Max(T) \in T /\ Max(T) \in D
    BY <1>2, <1>5, MaxIsIn
  <2>2. g[T \ {Max(T)}] \in Shadows /\ s[Max(T)] \in Live
    BY <1>2, <1>5, <2>1
  <2>3. g[T] = IntoShadow(g[T \ {Max(T)}], s[Max(T)])
    BY <1>3, <1>5
  <2> QED BY <2>2, <2>3, IntoShadowFits
<1>6. \A T \in SUBSET D : T \in P
  <2>1. IsFiniteSet(D)
    BY <1>2
  <2> HIDE DEF P
  <2> QED BY <1>4, <1>5, <2>1, SubsetInduction
<1> QED BY <1>1, <1>6

LEMMA NextShadow == Inv /\ RecencyInv /\ ShadowInv /\ [Next]_vars => ShadowInv'
<1> SUFFICES ASSUME Inv, RecencyInv, ShadowInv, [Next]_vars PROVE ShadowInv'
  OBVIOUS
<1>1. CASE EndClean
  <2>1. ASSUME NEW a \in Apps
        PROVE  FoldLeft(IntoShadow, shadow_q[a], Keep(recency, Pending(a))) \in Shadows
    <3> DEFINE s == Keep(recency, Pending(a))
    <3>1. recency \in Seq(Live)
      <4>1. \A i \in 1 .. Len(recency) : recency[i] \in Live
        BY DEF RecencyInv, ToSet
      <4>2. recency \in Seq(Keys)
        BY DEF RecencyInv
      <4> QED BY <4>1, <4>2
    <3>2. s \in Seq(Live)
      BY <3>1, KeepSet
    <3> HIDE DEF s
    <3>3. FoldLeft(IntoShadow, shadow_q[a], s) \in Shadows
      BY <3>2, ShadowFoldFits DEF Inv, ShadowInv
    <3> QED BY <3>3 DEF s
  <2> QED BY <1>1, <2>1 DEF EndClean, ShadowInv
<1>2. CASE ~ EndClean
  <2>1. shadow_q' = shadow_q
    BY <1>2 DEF Next, Request, Proceed, Crashed, Oversize, HitInLog, StoreInHead, Rollover,
       Store, StartClean, Relocate, RelocateToDst, RelocateToNewDst, Move, EndRelocation,
       CrashInClean, StoreAfterRollover, vars
  <2> QED BY <2>1 DEF ShadowInv
<1> QED BY <1>1, <1>2

LEMMA InitQueues == Init => RecencyInv /\ ShadowInv
<1> SUFFICES ASSUME Init PROVE RecencyInv /\ ShadowInv
  OBVIOUS
<1>1. RecencyInv
  BY DEF Init, RecencyInv, Live, ToSet, IsInjective
<1>2. ASSUME NEW a \in Apps PROVE shadow_q[a] \in Shadows
  <2>1. shadow_q[a] \in [Keys -> Nat] /\ \A k \in Keys : shadow_q[a][k] = 0
    BY DEF Init
  <2>2. SumFunctionOnSet(shadow_q[a], Keys) = 0
    BY <2>1, RequestsAssumption, SumNat
  <2> QED BY <2>1, <2>2, RequestsAssumption DEF Shadows
<1>3. shadow_q \in [Apps -> Shadows]
  BY <1>2 DEF Init
<1> QED BY <1>1, <1>3 DEF ShadowInv

(* The times order the cached objects, each once, and no shadow queue      *)
(* outgrows its capacity, in whatever sizes its objects come back.         *)
THEOREM QueuesAreRight == Spec => []QueuesOK
<1>1. RecencyInv /\ ShadowInv => QueuesOK
  <2> SUFFICES ASSUME RecencyInv, ShadowInv PROVE QueuesOK
    OBVIOUS
  <2>1. ToSet(recency) = Live /\ Len(recency) = Cardinality(Live)
    BY DistinctLength DEF RecencyInv
  <2>2. \A a \in Apps : SumFunction(shadow_q[a]) =< ShadowCap
    BY DEF ShadowInv, Shadows, SumFunction
  <2> QED BY <2>1, <2>2 DEF QueuesOK
<1> QED BY <1>1, InitQueues, NextRecency, NextShadow, Invariance, PTL DEF Spec

-------------------------------------------------------------------------------
(***************************************************************************)
(* Proofs about the bookkeeping of lsc_multi: the fill level of segments,  *)
(* the bills of applications and the credit they hand to each other are    *)
(* kept by additions and subtractions in proc, clean and try_steal_from,   *)
(* and are shown to be what counting the log from scratch would give.      *)
(***************************************************************************)
(* Credit.                                                                 *)

(* A steal takes from one application what it gives to another. *)
LEMMA StealConserves ==
  ASSUME Inv, CreditConserved, NEW a \in Apps, Steal(a)
  PROVE  CreditConserved'
<1>1. credit_bytes \in [Apps -> Int] /\ IsFiniteSet(Apps)
  BY AppsAssumption DEF Inv, TypeOK
<1>2. CASE UNCHANGED credit_bytes
  BY <1>2 DEF CreditConserved
<1>3. ASSUME NEW other \in Apps, MayStealFrom(a, other),
             credit_bytes' = [credit_bytes EXCEPT ![other] = @ - StealBytes(a),
                                                  ![a] = @ + StealBytes(a)]
      PROVE  CreditConserved'
  <2> DEFINE n == StealBytes(a)
             taken == [credit_bytes EXCEPT ![other] = @ - n]
  <2>1. n \in Int /\ other # a
    BY <1>3, AppsAssumption DEF StealBytes, MayStealFrom
  <2> HIDE DEF n
  <2>2. /\ taken \in [Apps -> Int] /\ taken[other] = credit_bytes[other] - n
        /\ \A b \in Apps \ {other} : taken[b] = credit_bytes[b]
    BY <1>1, <2>1
  <2>3. /\ credit_bytes' \in [Apps -> Int] /\ credit_bytes'[a] = taken[a] + n
        /\ \A b \in Apps \ {a} : credit_bytes'[b] = taken[b]
    BY <1>1, <1>3, <2>1 DEF n
  <2>4. Ints(credit_bytes, Apps) /\ Ints(taken, Apps) /\ credit_bytes'[a] \in Int
    BY <1>1, <2>2, <2>3 DEF Ints
  <2> HIDE DEF taken
  <2>5. SumFunctionOnSet(taken, Apps) = SumFunctionOnSet(credit_bytes, Apps) - n
    <3>1. SumFunctionOnSet(taken, Apps)
            = SumFunctionOnSet(credit_bytes, Apps) - credit_bytes[other] + taken[other]
      BY <1>1, <2>2, <2>4, SumChange
    <3>2. SumFunctionOnSet(credit_bytes, Apps) \in Int /\ credit_bytes[other] \in Int
      BY <1>1, <2>4, SumInt
    <3> QED BY <2>1, <2>2, <3>1, <3>2
  <2>6. SumFunctionOnSet(credit_bytes', Apps) = SumFunctionOnSet(taken, Apps) + n
    <3>1. SumFunctionOnSet(credit_bytes', Apps)
            = SumFunctionOnSet(taken, Apps) - taken[a] + credit_bytes'[a]
      BY <1>1, <2>3, <2>4, SumChange
    <3>2. SumFunctionOnSet(taken, Apps) \in Int /\ taken[a] \in Int
      BY <1>1, <2>2, <2>4, SumInt
    <3> QED BY <2>1, <2>3, <3>1, <3>2
  <2>7. SumFunctionOnSet(credit_bytes, Apps) = 0
    BY <1>1 DEF CreditConserved, SumFunction
  <2>8. SumFunctionOnSet(credit_bytes', Apps) = 0
    BY <2>1, <2>5, <2>6, <2>7
  <2> QED BY <2>3, <2>8 DEF CreditConserved, SumFunction
<1> QED BY <1>2, <1>3 DEF Steal

LEMMA InitCredit == Init => CreditConserved
<1> SUFFICES ASSUME Init PROVE CreditConserved
  OBVIOUS
<1>1. DOMAIN credit_bytes = Apps /\ \A a \in Apps : credit_bytes[a] = 0
  BY DEF Init
<1>2. SumFunctionOnSet(credit_bytes, Apps) = 0
  BY <1>1, AppsAssumption, SumNat
<1> QED BY <1>1, <1>2 DEF CreditConserved, SumFunction

LEMMA NextCredit == Inv /\ CreditConserved /\ [Next]_vars => CreditConserved'
<1> SUFFICES ASSUME Inv, CreditConserved, [Next]_vars PROVE CreditConserved'
  OBVIOUS
<1>1. ASSUME NEW r \in Requests, Store(r) PROVE CreditConserved'
  <2>1. CASE shadow_q[r.app][r.kid] > 0
    BY <1>1, <2>1, RequestFacts, StealConserves DEF Store
  <2>2. CASE ~ (shadow_q[r.app][r.kid] > 0)
    BY <1>1, <2>2 DEF Store, CreditConserved
  <2> QED BY <2>1, <2>2
<1>2. CASE StoreAfterRollover
  BY <1>1, <1>2 DEF StoreAfterRollover, Inv, RoomInv
<1>3. ASSUME NEW r \in Requests, Request(r) PROVE CreditConserved'
  <2>1. CASE StoreInHead(r)
    BY <1>1, <2>1 DEF StoreInHead
  <2>2. CASE Oversize(r) \/ HitInLog(r) \/ Rollover(r)
    BY <2>2 DEF Oversize, HitInLog, Rollover, CreditConserved
  <2> QED BY <1>3, <2>1, <2>2 DEF Request
<1>4. CASE StartClean \/ Relocate \/ EndRelocation \/ CrashInClean \/ EndClean \/ UNCHANGED vars
  <2>1. UNCHANGED credit_bytes
    BY <1>4 DEF StartClean, Relocate, RelocateToDst, RelocateToNewDst, Move, EndRelocation,
       CrashInClean, EndClean, vars
  <2> QED BY <2>1 DEF CreditConserved
<1> QED BY <1>2, <1>3, <1>4 DEF Next, Proceed, Crashed

(* However often applications steal, their memory limits add up to the     *)
(* memory that was handed out.                                             *)
THEOREM CreditIsConserved == Spec => []CreditConserved
BY InitCredit, NextCredit, Invariance, PTL DEF Spec

-------------------------------------------------------------------------------
(* Fill levels.                                                            *)

SizeOf        == [k \in Live |-> map[k].size]
In(s)         == {k \in Live : map[k].seg = s}
StaleBytes(s) == [a \in Apps |-> stale[s][a].bytes]

FillInv == IsFiniteSet(Live) /\ SegmentAccounting

LEMMA AccountingMeans ==
  SegmentAccounting <=>
    \A s \in Segments \ srcs :
      filled_bytes[s] = SumFunctionOnSet(SizeOf, In(s)) + SumFunctionOnSet(StaleBytes(s), Apps)
BY DEF SegmentAccounting, Bytes, SizeOf, In, StaleBytes, SumFunction

(* The sums the accounting is about are sums of naturals. *)
LEMMA SumsAreNat ==
  ASSUME TypeOK, IsFiniteSet(Live)
  PROVE  /\ \A K \in SUBSET Live :
              IsFiniteSet(K) /\ Ints(SizeOf, K) /\ SumFunctionOnSet(SizeOf, K) \in Nat
         /\ \A s \in Segments : /\ Ints(StaleBytes(s), Apps)
                                /\ SumFunctionOnSet(StaleBytes(s), Apps) \in Nat
<1>1. ASSUME NEW K \in SUBSET Live
      PROVE  IsFiniteSet(K) /\ Ints(SizeOf, K) /\ SumFunctionOnSet(SizeOf, K) \in Nat
  <2>1. IsFiniteSet(K) /\ \A k \in K : SizeOf[k] \in Nat
    BY FS_Subset, ItemFacts DEF SizeOf
  <2> QED BY <2>1, SumNat DEF Ints
<1>2. ASSUME NEW s \in Segments
      PROVE  Ints(StaleBytes(s), Apps) /\ SumFunctionOnSet(StaleBytes(s), Apps) \in Nat
  <2>1. \A a \in Apps : StaleBytes(s)[a] \in Nat
    BY DEF TypeOK, StaleBytes
  <2> QED BY <2>1, AppsAssumption, SumNat DEF Ints
<1> QED BY <1>1, <1>2

(* What a store does to the items of a set of keys that are in one place.  *)
LEMMA StoreFacts ==
  ASSUME Inv, NEW r \in Requests, Store(r)
  PROVE  /\ Live' = Live \union {r.kid}
         /\ map'[r.kid] = [seg |-> head, size |-> r.size, app |-> r.app]
         /\ \A k \in Live \ {r.kid} : map'[k] = map[k]
         /\ SizeOf' = [k \in Live' |-> IF k = r.kid THEN r.size ELSE SizeOf[k]]
<1>1. Live' = Live \union {r.kid}
      /\ \A k \in Live' : map'[k] = IF k = r.kid
           THEN [seg |-> head, size |-> r.size, app |-> r.app] ELSE map[k]
  BY DEF Store, With, Live
<1>2. \A k \in Live' : map'[k].size = IF k = r.kid THEN r.size ELSE SizeOf[k]
  BY <1>1 DEF SizeOf
<1>3. SizeOf' = [k \in Live' |-> map'[k].size]
  BY DEF SizeOf
<1> QED BY <1>1, <1>2, <1>3

LEMMA StoreFill ==
  ASSUME Inv, FillInv, NEW r \in Requests, Store(r)
  PROVE  FillInv'
<1> USE DEF Inv
<1>1. /\ Live' = Live \union {r.kid}
      /\ map'[r.kid] = [seg |-> head, size |-> r.size, app |-> r.app]
      /\ \A k \in Live \ {r.kid} : map'[k] = map[k]
      /\ SizeOf' = [k \in Live' |-> IF k = r.kid THEN r.size ELSE SizeOf[k]]
  BY StoreFacts
<1>2. IsFiniteSet(Live')
  BY <1>1, FS_AddElement DEF FillInv
<1>3. r.size \in Nat /\ r.app \in Apps /\ head \in Segments
  BY RequestFacts DEF TypeOK
<1>4. ASSUME NEW s \in Segments
      PROVE  SumFunctionOnSet(SizeOf', In(s)') = SumFunctionOnSet(SizeOf, In(s))
               - (IF r.kid \in In(s) THEN map[r.kid].size ELSE 0)
               + (IF s = head THEN r.size ELSE 0)
  <2>1. In(s)' = {k \in Live' : map'[k].seg = s}
    BY DEF In
  <2>2. In(s) \ {r.kid} = In(s)' \ {r.kid} /\ (r.kid \in In(s)' <=> s = head)
    BY <1>1, <2>1 DEF In
  <2>3. In(s) \in SUBSET Live /\ In(s)' \in SUBSET Live'
    BY <2>1 DEF In
  <2>4. IsFiniteSet(In(s)) /\ Ints(SizeOf, In(s)) /\ IsFiniteSet(In(s)')
    BY <1>2, <2>3, SumsAreNat, FS_Subset DEF FillInv
  <2>5. \A k \in In(s) \ {r.kid} : SizeOf'[k] = SizeOf[k]
    BY <1>1, <2>3
  <2>6. Ints(SizeOf', In(s)')
    BY <1>1, <1>3, <2>2, <2>3, <2>4 DEF Ints
  <2>7. SumFunctionOnSet(SizeOf', In(s)') = SumFunctionOnSet(SizeOf, In(s))
               - (IF r.kid \in In(s) THEN SizeOf[r.kid] ELSE 0)
               + (IF r.kid \in In(s)' THEN SizeOf'[r.kid] ELSE 0)
    BY <2>2, <2>4, <2>5, <2>6, SumReweigh
  <2>8. r.kid \in In(s) => SizeOf[r.kid] = map[r.kid].size
    BY <2>3 DEF SizeOf
  <2>9. SizeOf'[r.kid] = r.size
    BY <1>1
  <2> QED BY <2>2, <2>7, <2>8, <2>9
<1>5. ASSUME NEW s \in Segments
      PROVE  SumFunctionOnSet(StaleBytes(s)', Apps) = SumFunctionOnSet(StaleBytes(s), Apps)
               + (IF r.kid \in In(s) THEN map[r.kid].size ELSE 0)
  <2>1. StaleBytes(s)' = [a \in Apps |-> stale'[s][a].bytes]
    BY DEF StaleBytes
  <2>2. CASE r.kid \in In(s)
    <3> DEFINE b == map[r.kid].app
    <3>1. b \in Apps /\ map[r.kid].size \in Nat /\ r.kid \in Live /\ map[r.kid].seg = s
      BY <2>2, ItemFacts DEF In
    <3>2. stale' = [stale EXCEPT ![s][b] = [n |-> @.n + 1, bytes |-> @.bytes + map[r.kid].size]]
      BY <3>1 DEF Store
    <3>3. /\ StaleBytes(s)'[b] = StaleBytes(s)[b] + map[r.kid].size
          /\ \A a \in Apps \ {b} : StaleBytes(s)'[a] = StaleBytes(s)[a]
      BY <2>1, <3>1, <3>2 DEF StaleBytes, TypeOK
    <3>4. Ints(StaleBytes(s), Apps) /\ IsFiniteSet(Apps)
      BY SumsAreNat, AppsAssumption DEF FillInv
    <3>5. StaleBytes(s)[b] \in Int /\ StaleBytes(s)'[b] \in Int
      BY <3>1, <3>3, <3>4 DEF Ints
    <3>6. SumFunctionOnSet(StaleBytes(s)', Apps)
            = SumFunctionOnSet(StaleBytes(s), Apps) - StaleBytes(s)[b] + StaleBytes(s)'[b]
      <4> DEFINE f == StaleBytes(s)
                 g == StaleBytes(s)'
      <4> HIDE DEF f, g, b
      <4>1. SumFunctionOnSet(g, Apps) = SumFunctionOnSet(f, Apps) - f[b] + g[b]
        BY <3>1, <3>3, <3>4, <3>5, SumChange DEF f, g
      <4> QED BY <4>1 DEF f, g
    <3>7. SumFunctionOnSet(StaleBytes(s), Apps) \in Int
      BY <3>4, SumInt
    <3> QED BY <2>2, <3>1, <3>3, <3>5, <3>6, <3>7
  <2>3. CASE r.kid \notin In(s)
    <3>1. \A a \in Apps : stale'[s][a] = stale[s][a]
      <4>1. CASE r.kid \in Live
        <5>1. map[r.kid].seg # s /\ map[r.kid].seg \in Segments
          BY <2>3, <4>1, ItemFacts DEF In
        <5> QED BY <4>1, <5>1 DEF Store, TypeOK
      <4>2. CASE r.kid \notin Live
        BY <4>2 DEF Store
      <4> QED BY <4>1, <4>2
    <3>2. StaleBytes(s)' = StaleBytes(s)
      BY <2>1, <3>1 DEF StaleBytes
    <3>3. SumFunctionOnSet(StaleBytes(s), Apps) \in Nat
      BY SumsAreNat DEF FillInv
    <3> QED BY <2>3, <3>2, <3>3
  <2> QED BY <2>2, <2>3
<1>6. \A s \in Segments : filled_bytes'[s] = filled_bytes[s] + IF s = head THEN r.size ELSE 0
  <2>1. filled_bytes' = [filled_bytes EXCEPT ![head] = @ + r.size]
    BY DEF Store, Write
  <2>2. \A s \in Segments : filled_bytes[s] \in Nat
    BY RequestsAssumption DEF TypeOK
  <2>3. DOMAIN filled_bytes = Segments
    BY DEF TypeOK
  <2> QED BY <1>3, <2>1, <2>2, <2>3
<1>7. srcs' = srcs
  BY DEF Store, cleanVars
<1>8. ASSUME NEW s \in Segments \ srcs
      PROVE  filled_bytes'[s] = SumFunctionOnSet(SizeOf', In(s)')
                                  + SumFunctionOnSet(StaleBytes(s)', Apps)
  <2>1. filled_bytes[s] = SumFunctionOnSet(SizeOf, In(s)) + SumFunctionOnSet(StaleBytes(s), Apps)
    BY AccountingMeans DEF FillInv
  <2>2. In(s) \in SUBSET Live
    BY DEF In
  <2>3. SumFunctionOnSet(SizeOf, In(s)) \in Nat /\ SumFunctionOnSet(StaleBytes(s), Apps) \in Nat
    BY <2>2, SumsAreNat DEF FillInv
  <2>4. r.kid \in In(s) => map[r.kid].size \in Nat
    BY ItemFacts DEF In
  <2> QED BY <1>3, <1>4, <1>5, <1>6, <2>1, <2>3, <2>4
<1>9. SegmentAccounting'
  BY <1>7, <1>8 DEF SegmentAccounting, Bytes, SizeOf, In, StaleBytes, SumFunction
<1> QED BY <1>2, <1>9 DEF FillInv

(* A turn of the relocation loop moves an item out of the sources, whose   *)
(* fill levels are not looked at any more.                                 *)
LEMMA TurnItems ==
  ASSUME Inv, NEW a \in Apps, NEW k \in Live, NEW s \in Segments, Turn(a, k, s)
  PROVE  /\ map[k].seg \in srcs /\ map[k].app = a /\ s \notin srcs
         /\ srcs' = srcs /\ stale' = stale /\ Live' = Live /\ SizeOf' = SizeOf
         /\ map'[k].seg = s /\ map'[k].app = a /\ \A j \in Live \ {k} : map'[j] = map[j]
<1>1. map[k].seg \in srcs /\ map[k].app = a /\ map[k] \in Items
  BY SurvivorIsQueued, ItemFacts DEF Turn, Queued, Inv
<1>2. map' = [map EXCEPT ![k].seg = s] /\ srcs' = srcs /\ stale' = stale /\ s \notin srcs
  BY DEF Turn, Move
<1>3. /\ Live' = Live /\ \A j \in Live \ {k} : map'[j] = map[j]
      /\ map'[k].seg = s /\ map'[k].app = a /\ map'[k].size = map[k].size
  BY <1>1, <1>2 DEF Live, Items
<1>4. SizeOf' = SizeOf
  BY <1>3 DEF SizeOf
<1> QED BY <1>1, <1>2, <1>3, <1>4

LEMMA TurnFill ==
  ASSUME Inv, FillInv, NEW a \in Apps, NEW k \in Live, NEW s \in Segments, Turn(a, k, s)
  PROVE  FillInv'
<1> USE DEF Inv
<1>1. /\ map[k].seg \in srcs /\ map[k].app = a /\ s \notin srcs
      /\ srcs' = srcs /\ stale' = stale /\ Live' = Live /\ SizeOf' = SizeOf
      /\ map'[k].seg = s /\ map'[k].app = a /\ \A j \in Live \ {k} : map'[j] = map[j]
  BY TurnItems
<1>2. map[k].size \in Nat
  BY ItemFacts
<1>3. ASSUME NEW t \in Segments \ srcs
      PROVE  filled_bytes'[t] = SumFunctionOnSet(SizeOf, In(t)')
                                  + SumFunctionOnSet(StaleBytes(t), Apps)
  <2>1. filled_bytes[t] = SumFunctionOnSet(SizeOf, In(t)) + SumFunctionOnSet(StaleBytes(t), Apps)
    BY AccountingMeans DEF FillInv
  <2>2. In(t)' = IF t = s THEN In(t) \union {k} ELSE In(t)
    BY <1>1 DEF In
  <2>3. k \notin In(t) /\ In(t) \in SUBSET Live /\ In(t) \union {k} \in SUBSET Live
    BY <1>1 DEF In
  <2>4. filled_bytes'[t] = filled_bytes[t] + IF t = s THEN map[k].size ELSE 0
    <3>1. filled_bytes' = [filled_bytes EXCEPT ![s] = @ + map[k].size]
      BY DEF Turn, Move, Write
    <3>2. filled_bytes[t] \in Nat /\ DOMAIN filled_bytes = Segments
      BY RequestsAssumption DEF TypeOK
    <3> QED BY <1>2, <3>1, <3>2
  <2>5. /\ IsFiniteSet(In(t)) /\ Ints(SizeOf, In(t) \union {k})
        /\ SumFunctionOnSet(SizeOf, In(t)) \in Nat
        /\ SumFunctionOnSet(StaleBytes(t), Apps) \in Nat
    BY <2>3, SumsAreNat DEF FillInv
  <2>6. SumFunctionOnSet(SizeOf, In(t) \union {k}) = SumFunctionOnSet(SizeOf, In(t)) + map[k].size
    <3>1. SizeOf[k] = map[k].size
      BY DEF SizeOf
    <3> QED BY <2>3, <2>5, <3>1, SumAdd
  <2> QED BY <1>2, <2>1, <2>2, <2>4, <2>5, <2>6
<1>4. \A t \in Segments : StaleBytes(t)' = StaleBytes(t)
  BY <1>1 DEF StaleBytes
<1>5. SegmentAccounting'
  <2>1. \A t \in Segments \ srcs' :
          filled_bytes'[t] = SumFunctionOnSet(SizeOf', In(t)')
                               + SumFunctionOnSet(StaleBytes(t)', Apps)
    BY <1>1, <1>3, <1>4
  <2> QED BY <2>1 DEF SegmentAccounting, Bytes, SizeOf, In, StaleBytes, SumFunction
<1> QED BY <1>1, <1>5 DEF FillInv

(* What clean throws away, and what it leaves. *)
LEMMA EndCleanItems ==
  ASSUME Inv, EndClean
  PROVE  /\ Live' = Live \ {k \in Live : map[k].seg \in srcs}
         /\ \A k \in Live' : map'[k] = map[k]
         /\ SizeOf' = [k \in Live' |-> SizeOf[k]]
         /\ srcs' = {} /\ inUse' = inUse \ srcs
<1> DEFINE gone == UNION {Pending(a) : a \in Apps}
<1>1. Live' = Live \ gone /\ \A k \in Live' : map'[k] = map[k]
  BY DEF EndClean, Without, Live
<1>2. gone = {k \in Live : map[k].seg \in srcs}
  BY ItemFacts DEF Pending, LiveOf, Inv
<1>3. SizeOf' = [k \in Live' |-> SizeOf[k]]
  BY <1>1 DEF SizeOf
<1> QED BY <1>1, <1>2, <1>3 DEF EndClean

LEMMA EndCleanFill == Inv /\ FillInv /\ EndClean => FillInv'
<1> SUFFICES ASSUME Inv, FillInv, EndClean PROVE FillInv'
  OBVIOUS
<1> USE DEF Inv
<1>1. /\ Live' = Live \ {k \in Live : map[k].seg \in srcs}
      /\ \A k \in Live' : map'[k] = map[k]
      /\ SizeOf' = [k \in Live' |-> SizeOf[k]]
      /\ srcs' = {} /\ inUse' = inUse \ srcs
  BY EndCleanItems
<1>2. ASSUME NEW t \in Segments \ srcs
      PROVE  filled_bytes'[t] = SumFunctionOnSet(SizeOf', In(t)')
                                  + SumFunctionOnSet(StaleBytes(t)', Apps)
  <2>1. filled_bytes[t] = SumFunctionOnSet(SizeOf, In(t)) + SumFunctionOnSet(StaleBytes(t), Apps)
    BY AccountingMeans DEF FillInv
  <2>2. In(t)' = In(t) /\ In(t) \in SUBSET Live /\ In(t) \in SUBSET Live'
    BY <1>1 DEF In
  <2>3. SumFunctionOnSet(SizeOf', In(t)) = SumFunctionOnSet(SizeOf, In(t))
    <3>1. IsFiniteSet(In(t)) /\ Ints(SizeOf, In(t)) /\ \A k \in In(t) : SizeOf'[k] = SizeOf[k]
      BY <1>1, <2>2, SumsAreNat DEF FillInv
    <3> QED BY <3>1, SumSame
  <2>4. filled_bytes'[t] = filled_bytes[t] /\ StaleBytes(t)' = StaleBytes(t)
    BY DEF EndClean, StaleBytes
  <2> QED BY <2>1, <2>2, <2>3, <2>4
<1>3. ASSUME NEW t \in srcs
      PROVE  filled_bytes'[t] = SumFunctionOnSet(SizeOf', In(t)')
                                  + SumFunctionOnSet(StaleBytes(t)', Apps)
  <2>1. t \in Segments /\ In(t)' = {}
    BY <1>1 DEF In, TypeOK
  <2>2. filled_bytes'[t] = 0 /\ \A a \in Apps : StaleBytes(t)'[a] = 0
    BY <2>1 DEF EndClean, StaleBytes, NoItems
  <2>3. SumFunctionOnSet(StaleBytes(t)', Apps) = 0
    <3> DEFINE f == StaleBytes(t)'
    <3>1. \A a \in Apps : f[a] = 0
      BY <2>2
    <3> HIDE DEF f
    <3>2. SumFunctionOnSet(f, Apps) = 0
      BY <3>1, AppsAssumption, SumNat
    <3> QED BY <3>2 DEF f
  <2>4. SumFunctionOnSet(SizeOf', {}) = 0
    BY SumEmpty
  <2> QED BY <2>1, <2>2, <2>3, <2>4
<1>4. SegmentAccounting'
  <2>1. \A t \in Segments \ srcs' :
          filled_bytes'[t] = SumFunctionOnSet(SizeOf', In(t)')
                               + SumFunctionOnSet(StaleBytes(t)', Apps)
    BY <1>1, <1>2, <1>3
  <2> QED BY <2>1 DEF SegmentAccounting, Bytes, SizeOf, In, StaleBytes, SumFunction
<1>5. IsFiniteSet(Live')
  BY <1>1, FS_Subset DEF FillInv
<1> QED BY <1>4, <1>5 DEF FillInv

(* A hit gives the item to another application, where it is. *)
LEMMA HitFill ==
  ASSUME Inv, FillInv, NEW r \in Requests, HitInLog(r)
  PROVE  FillInv'
<1> USE DEF Inv
<1>1. /\ Live' = Live /\ map' = [map EXCEPT ![r.kid].app = r.app]
      /\ filled_bytes' = filled_bytes /\ stale' = stale /\ srcs' = srcs
  BY DEF HitInLog, segVars, cleanVars, Live
<1>2. \A k \in Live : map'[k].seg = map[k].seg /\ map'[k].size = map[k].size
  BY <1>1, ItemFacts DEF Items, Live
<1>3. /\ \A s \in Segments : In(s)' = In(s) /\ StaleBytes(s)' = StaleBytes(s)
      /\ SizeOf' = SizeOf
  BY <1>1, <1>2 DEF In, SizeOf, StaleBytes
<1>4. SegmentAccounting'
  <2>1. \A s \in Segments \ srcs' :
          filled_bytes'[s] = SumFunctionOnSet(SizeOf', In(s)')
                               + SumFunctionOnSet(StaleBytes(s)', Apps)
    BY <1>1, <1>3, AccountingMeans DEF FillInv
  <2> QED BY <2>1 DEF SegmentAccounting, Bytes, SizeOf, In, StaleBytes, SumFunction
<1> QED BY <1>1, <1>4 DEF FillInv

LEMMA InitFill == Init => FillInv
<1> SUFFICES ASSUME Init PROVE FillInv
  OBVIOUS
<1>1. Live = {} /\ IsFiniteSet({})
  BY FS_EmptySet DEF Init, Live
<1>2. ASSUME NEW s \in Segments
      PROVE  filled_bytes[s] = SumFunctionOnSet(SizeOf, In(s))
                                 + SumFunctionOnSet(StaleBytes(s), Apps)
  <2>1. filled_bytes[s] = 0 /\ In(s) = {} /\ \A a \in Apps : StaleBytes(s)[a] = 0
    BY <1>1 DEF Init, In, StaleBytes, NoItems
  <2>2. SumFunctionOnSet(StaleBytes(s), Apps) = 0
    BY <2>1, AppsAssumption, SumNat
  <2>3. SumFunctionOnSet(SizeOf, {}) = 0
    BY SumEmpty
  <2> QED BY <2>1, <2>2, <2>3
<1> QED BY <1>1, <1>2, AccountingMeans DEF FillInv

LEMMA NextFill == Inv /\ FillInv /\ [Next]_vars => FillInv'
<1> SUFFICES ASSUME Inv, FillInv, [Next]_vars PROVE FillInv'
  OBVIOUS
<1>1. ASSUME NEW r \in Requests, StoreInHead(r) PROVE FillInv'
  BY <1>1, StoreFill DEF StoreInHead
<1>2. ASSUME NEW r \in Requests, HitInLog(r) PROVE FillInv'
  BY <1>2, HitFill
<1>3. CASE StoreAfterRollover
  BY <1>3, StoreFill DEF StoreAfterRollover, Inv, RoomInv
<1>4. CASE Relocate
  BY <1>4, RelocateIsTurn, TurnFill
<1>5. CASE EndClean
  BY <1>5, EndCleanFill
<1>6. ASSUME UNCHANGED <<map, filled_bytes, stale>>, srcs \subseteq srcs'
      PROVE  FillInv'
  <2>1. Live' = Live /\ \A s \in Segments : In(s)' = In(s) /\ StaleBytes(s)' = StaleBytes(s)
    BY <1>6 DEF Live, In, StaleBytes
  <2>2. SizeOf' = SizeOf
    BY <1>6 DEF SizeOf, Live
  <2>3. \A s \in Segments \ srcs' :
          filled_bytes'[s] = SumFunctionOnSet(SizeOf', In(s)')
                               + SumFunctionOnSet(StaleBytes(s)', Apps)
    BY <1>6, <2>1, <2>2, AccountingMeans DEF FillInv
  <2>4. SegmentAccounting'
    BY <2>3 DEF SegmentAccounting, Bytes, SizeOf, In, StaleBytes, SumFunction
  <2> QED BY <2>1, <2>4 DEF FillInv
<1>7. CASE StartClean
  <2>1. srcs = {}
    BY <1>7 DEF StartClean, Inv, SegmentInv
  <2> QED BY <1>6, <1>7, <2>1 DEF StartClean, segVars, itemVars
<1>8. CASE \/ \E r \in Requests : Oversize(r) \/ Rollover(r)
           \/ EndRelocation \/ CrashInClean \/ UNCHANGED vars
  BY <1>6, <1>8 DEF Oversize, Rollover, EndRelocation, CrashInClean, vars, segVars,
     itemVars, cleanVars
<1> QED BY <1>1, <1>2, <1>3, <1>4, <1>5, <1>7, <1>8 DEF Next, Request, Proceed, Crashed

(* Whatever was superseded, moved or handed to another application, the    *)
(* fill level of a segment is what its items take together.                *)
THEOREM FillLevelsAreRight == Spec => []SegmentAccounting
<1>1. FillInv => SegmentAccounting
  BY DEF FillInv
<1> QED BY <1>1, InitFill, NextFill, Invariance, PTL DEF Spec

LEMMA FillInvariance == Spec => []FillInv
BY InitFill, NextFill, Invariance, PTL DEF Spec

-------------------------------------------------------------------------------
(* Bills.                                                                  *)

(* What the code supposes of a trace: a key is requested by one            *)
(* application.  MCLscMulti_shared shows that the bills are wrong without  *)
(* it.                                                                     *)
OneOwner == \A q, r \in Requests : q.kid = r.kid => q.app = r.app

(* A size_t counts the bytes of the whole log. *)
LogFits == NumSegments * SegmentSize < Wrap

(* An item belongs to the application that requests its key, and           *)
(* superseded items have a size.                                           *)
OwnerInv == \A k \in Live : \A r \in Requests : r.kid = k => map[k].app = r.app
StaleInv == \A s \in Segments, a \in Apps : stale[s][a].n =< stale[s][a].bytes

BillInv ==
  /\ OwnerInv /\ StaleInv /\ BillingExact
  /\ DOMAIN bytes_in_use = Apps /\ DOMAIN live_items = Apps

(* Bytes and counts are the same sums, of sizes and of ones. *)
Fields        == {"n", "bytes"}
Kept          == inUse \ srcs
Weight(f)     == [k \in Live |-> IF f = "bytes" THEN map[k].size ELSE 1]
StaleOf(a, f) == [s \in Segments |-> stale[s][a][f]]
Billed(a, f)  == IF f = "bytes" THEN bytes_in_use[a] ELSE live_items[a]
Holds(S, a, f) ==
  SumFunctionOnSet(Weight(f), LiveOf(S, a)) + SumFunctionOnSet(StaleOf(a, f), S)

LEMMA WeightFacts ==
  ASSUME TypeOK, IsFiniteSet(Live), NEW f \in Fields
  PROVE  /\ \A k \in Live : Weight(f)[k] \in Nat \ {0}
         /\ \A K \in SUBSET Live : /\ IsFiniteSet(K) /\ Ints(Weight(f), K)
                                   /\ SumFunctionOnSet(Weight(f), K) \in Nat
<1>1. \A k \in Live : Weight(f)[k] \in Nat \ {0}
  BY ItemFacts, SizesNat DEF Weight
<1>2. ASSUME NEW K \in SUBSET Live
      PROVE  IsFiniteSet(K) /\ Ints(Weight(f), K) /\ SumFunctionOnSet(Weight(f), K) \in Nat
  <2>1. IsFiniteSet(K) /\ \A k \in K : Weight(f)[k] \in Nat
    BY <1>1, FS_Subset
  <2> QED BY <2>1, SumNat DEF Ints
<1> QED BY <1>1, <1>2

LEMMA StaleFacts ==
  ASSUME TypeOK, NEW a \in Apps, NEW f \in Fields
  PROVE  /\ \A s \in Segments : StaleOf(a, f)[s] = stale[s][a][f] /\ StaleOf(a, f)[s] \in Nat
         /\ \A S \in SUBSET Segments : /\ IsFiniteSet(S) /\ Ints(StaleOf(a, f), S)
                                       /\ SumFunctionOnSet(StaleOf(a, f), S) \in Nat
<1>1. \A s \in Segments : StaleOf(a, f)[s] = stale[s][a][f] /\ StaleOf(a, f)[s] \in Nat
  BY DEF TypeOK, StaleOf, Fields
<1>2. ASSUME NEW S \in SUBSET Segments
      PROVE  /\ IsFiniteSet(S) /\ Ints(StaleOf(a, f), S)
             /\ SumFunctionOnSet(StaleOf(a, f), S) \in Nat
  <2>1. IsFiniteSet(S) /\ \A s \in S : StaleOf(a, f)[s] \in Nat
    BY <1>1, FreeFinite, FS_Subset
  <2> QED BY <2>1, SumNat DEF Ints
<1> QED BY <1>1, <1>2

BillsMatch == \A a \in Apps, f \in Fields : Billed(a, f) = Holds(Kept, a, f)

LEMMA BillingMeans == TypeOK /\ FillInv => (BillingExact <=> BillsMatch)
<1> SUFFICES ASSUME TypeOK, FillInv PROVE BillingExact <=> BillsMatch
  OBVIOUS
<1>1. ASSUME NEW a \in Apps
      PROVE  /\ Bytes(LiveOf(Kept, a)) + StaleSum(Kept, a, "bytes") = Holds(Kept, a, "bytes")
             /\ Cardinality(LiveOf(Kept, a)) + StaleSum(Kept, a, "n") = Holds(Kept, a, "n")
  <2>1. Weight("bytes") = [k \in Live |-> map[k].size]
    BY DEF Weight
  <2>2. SumFunctionOnSet(Weight("n"), LiveOf(Kept, a)) = Cardinality(LiveOf(Kept, a))
    <3>1. LiveOf(Kept, a) \in SUBSET Live
      BY DEF LiveOf
    <3>2. IsFiniteSet(LiveOf(Kept, a)) /\ \A k \in LiveOf(Kept, a) : Weight("n")[k] = 1
      BY <3>1, FS_Subset DEF Weight, FillInv
    <3> QED BY <3>2, SumCounts
  <2> QED BY <2>1, <2>2 DEF Holds, Bytes, StaleSum, StaleOf
<1> QED BY <1>1 DEF BillingExact, Billed, Fields, Kept, BillsMatch

-------------------------------------------------------------------------------
LEMMA HoldsNat ==
  ASSUME TypeOK, IsFiniteSet(Live), NEW a \in Apps, NEW f \in Fields, NEW S \in SUBSET Segments
  PROVE  Holds(S, a, f) \in Nat
<1>1. LiveOf(S, a) \in SUBSET Live
  BY DEF LiveOf
<1> QED BY <1>1, WeightFacts, StaleFacts DEF Holds

(* What two sets of segments hold is the sum of what each holds. *)
LEMMA HoldsUnion ==
  ASSUME TypeOK, IsFiniteSet(Live), NEW a \in Apps, NEW f \in Fields,
         NEW S \in SUBSET Segments, NEW T \in SUBSET Segments, S \intersect T = {}
  PROVE  Holds(S \union T, a, f) = Holds(S, a, f) + Holds(T, a, f)
<1>1. /\ LiveOf(S \union T, a) = LiveOf(S, a) \union LiveOf(T, a)
      /\ LiveOf(S, a) \intersect LiveOf(T, a) = {}
      /\ LiveOf(S, a) \in SUBSET Live /\ LiveOf(T, a) \in SUBSET Live
  BY DEF LiveOf
<1> DEFINE w == Weight(f)
           c == StaleOf(a, f)
           K == LiveOf(S, a)
           L == LiveOf(T, a)
<1>2. /\ IsFiniteSet(K) /\ IsFiniteSet(L) /\ Ints(w, K \union L)
      /\ SumFunctionOnSet(w, K) \in Nat /\ SumFunctionOnSet(w, L) \in Nat
  <2>1. K \union L \in SUBSET Live
    BY <1>1
  <2> QED BY <1>1, <2>1, WeightFacts
<1>3. /\ IsFiniteSet(S) /\ IsFiniteSet(T) /\ Ints(c, S \union T)
      /\ SumFunctionOnSet(c, S) \in Nat /\ SumFunctionOnSet(c, T) \in Nat
  <2>1. S \union T \in SUBSET Segments
    OBVIOUS
  <2> QED BY <2>1, StaleFacts
<1>4. K \intersect L = {}
  BY <1>1
<1> HIDE DEF w, c, K, L
<1>5. SumFunctionOnSet(w, K \union L) = SumFunctionOnSet(w, K) + SumFunctionOnSet(w, L)
  BY <1>2, <1>4, SumUnion
<1>6. SumFunctionOnSet(c, S \union T) = SumFunctionOnSet(c, S) + SumFunctionOnSet(c, T)
  BY <1>3, SumUnion
<1>7. /\ Holds(S \union T, a, f) = SumFunctionOnSet(w, K \union L) + SumFunctionOnSet(c, S \union T)
      /\ Holds(S, a, f) = SumFunctionOnSet(w, K) + SumFunctionOnSet(c, S)
      /\ Holds(T, a, f) = SumFunctionOnSet(w, L) + SumFunctionOnSet(c, T)
  BY <1>1 DEF Holds, w, c, K, L
<1> QED BY <1>2, <1>3, <1>5, <1>6, <1>7

(* One segment holds no more of an application than its fill level. *)
LEMMA HoldsFilled ==
  ASSUME Inv, FillInv, NEW a \in Apps, NEW s \in Segments \ srcs
  PROVE  Holds({s}, a, "bytes") =< filled_bytes[s]
<1> USE DEF Inv
<1>1. filled_bytes[s] = SumFunctionOnSet(SizeOf, In(s)) + SumFunctionOnSet(StaleBytes(s), Apps)
  BY AccountingMeans DEF FillInv
<1>2. SumFunctionOnSet(SizeOf, LiveOf({s}, a)) =< SumFunctionOnSet(SizeOf, In(s))
  <2>1. In(s) \in SUBSET Live /\ LiveOf({s}, a) \in SUBSET In(s)
    BY DEF In, LiveOf
  <2>2. IsFiniteSet(In(s)) /\ \A k \in In(s) : SizeOf[k] \in Nat
    BY <2>1, SumsAreNat, ItemFacts DEF FillInv, SizeOf
  <2> QED BY <2>1, <2>2, SumNat
<1>3. stale[s][a].bytes =< SumFunctionOnSet(StaleBytes(s), Apps)
  <2>1. \A b \in Apps : StaleBytes(s)[b] \in Nat
    BY DEF TypeOK, StaleBytes
  <2>2. StaleBytes(s)[a] =< SumFunctionOnSet(StaleBytes(s), Apps)
    BY <2>1, AppsAssumption, SumNat
  <2> QED BY <2>2 DEF StaleBytes
<1>4. /\ Weight("bytes") = SizeOf /\ StaleOf(a, "bytes")[s] = stale[s][a].bytes
      /\ stale[s][a].bytes \in Nat
  BY DEF Weight, SizeOf, StaleOf, TypeOK
<1>5. SumFunctionOnSet(StaleOf(a, "bytes"), {s}) = stale[s][a].bytes
  <2>1. {s} = {} \union {s} /\ s \notin {} /\ IsFiniteSet({}) /\ Ints(StaleOf(a, "bytes"), {} \union {s})
    BY <1>4, FS_EmptySet DEF Ints
  <2>2. SumFunctionOnSet(StaleOf(a, "bytes"), {} \union {s})
          = SumFunctionOnSet(StaleOf(a, "bytes"), {}) + StaleOf(a, "bytes")[s]
    BY <2>1, SumAdd
  <2> QED BY <1>4, <2>1, <2>2, SumEmpty
<1>6. LiveOf({s}, a) \in SUBSET Live /\ In(s) \in SUBSET Live
  BY DEF LiveOf, In
<1>7. /\ SumFunctionOnSet(SizeOf, LiveOf({s}, a)) \in Nat /\ SumFunctionOnSet(SizeOf, In(s)) \in Nat
      /\ SumFunctionOnSet(StaleBytes(s), Apps) \in Nat
  BY <1>6, SumsAreNat DEF FillInv
<1> QED BY <1>1, <1>2, <1>3, <1>4, <1>5, <1>7 DEF Holds

(* A count is no more than the bytes counted. *)
LEMMA CountsAreLess ==
  ASSUME Inv, FillInv, StaleInv, NEW a \in Apps, NEW S \in SUBSET Segments
  PROVE  Holds(S, a, "n") =< Holds(S, a, "bytes")
<1> USE DEF Inv
<1>1. LiveOf(S, a) \in SUBSET Live /\ "n" \in Fields /\ "bytes" \in Fields
  BY DEF LiveOf, Fields
<1>2. SumFunctionOnSet(Weight("n"), LiveOf(S, a)) =< SumFunctionOnSet(Weight("bytes"), LiveOf(S, a))
  <2>1. \A k \in LiveOf(S, a) : Weight("n")[k] =< Weight("bytes")[k]
    <3>1. \A k \in Live : Weight("n")[k] = 1 /\ Weight("bytes")[k] \in Nat \ {0}
      BY <1>1, WeightFacts DEF Weight, FillInv
    <3> QED BY <1>1, <3>1
  <2> DEFINE K == LiveOf(S, a)
             v == Weight("n")
             w == Weight("bytes")
  <2>2. IsFiniteSet(K) /\ Ints(v, K) /\ Ints(w, K)
    BY <1>1, WeightFacts DEF FillInv
  <2> HIDE DEF K, v, w
  <2>3. SumFunctionOnSet(v, K) =< SumFunctionOnSet(w, K)
    BY <2>1, <2>2, SumLeq DEF K, v, w
  <2> QED BY <2>3 DEF K, v, w
<1>3. SumFunctionOnSet(StaleOf(a, "n"), S) =< SumFunctionOnSet(StaleOf(a, "bytes"), S)
  <2>1. \A s \in S : StaleOf(a, "n")[s] =< StaleOf(a, "bytes")[s]
    BY DEF StaleInv, StaleOf
  <2>2. IsFiniteSet(S) /\ Ints(StaleOf(a, "n"), S) /\ Ints(StaleOf(a, "bytes"), S)
    BY <1>1, StaleFacts
  <2> QED BY <2>1, <2>2, SumLeq
<1>4. \A f \in Fields : /\ SumFunctionOnSet(Weight(f), LiveOf(S, a)) \in Nat
                        /\ SumFunctionOnSet(StaleOf(a, f), S) \in Nat
  BY <1>1, WeightFacts, StaleFacts DEF FillInv
<1> QED BY <1>1, <1>2, <1>3, <1>4 DEF Holds

(* What an application has in the log is no more than the log. *)
LEMMA HoldsBounded ==
  ASSUME Inv, FillInv, NEW a \in Apps
  PROVE  \A S \in SUBSET (Segments \ srcs) :
           Holds(S, a, "bytes") =< Cardinality(S) * SegmentSize
<1> USE DEF Inv
<1> DEFINE H(S) == Holds(S, a, "bytes")
           All == Segments \ srcs
           P == {S \in SUBSET All : H(S) =< Cardinality(S) * SegmentSize}
<1>1. IsFiniteSet(All) /\ "bytes" \in Fields /\ SegmentSize \in Nat
  BY FreeFinite, FS_Subset, RequestsAssumption DEF Fields
<1>2. \A S \in SUBSET All : H(S) \in Nat
  BY <1>1, HoldsNat DEF FillInv
<1>3. {} \in P
  <2>1. LiveOf({}, a) = {}
    BY DEF LiveOf
  <2> QED BY <1>1, <2>1, SumEmpty, FS_EmptySet DEF Holds
<1>4. ASSUME NEW S \in SUBSET All, S # {}, \A x \in S : S \ {x} \in P PROVE S \in P
  <2>1. PICK s \in S : TRUE
    BY <1>4
  <2>2. H((S \ {s}) \union {s}) = H(S \ {s}) + H({s})
    BY <1>1, <2>1, HoldsUnion DEF FillInv
  <2>3. (S \ {s}) \union {s} = S /\ S \ {s} \in SUBSET All /\ {s} \in SUBSET All
    BY <2>1
  <2>4. H({s}) =< SegmentSize
    <3>1. H({s}) =< filled_bytes[s] /\ filled_bytes[s] =< SegmentSize /\ filled_bytes[s] \in Nat
      BY <1>1, <2>1, HoldsFilled DEF TypeOK
    <3> QED BY <1>1, <1>2, <2>3, <3>1
  <2>5. H(S \ {s}) =< Cardinality(S \ {s}) * SegmentSize
    BY <1>4, <2>1
  <2>6. Cardinality(S \ {s}) = Cardinality(S) - 1 /\ Cardinality(S) \in Nat
    BY <1>1, <2>1, RemoveOne, FS_Subset
  <2>7. H(S) = H(S \ {s}) + H({s}) /\ H(S \ {s}) \in Nat /\ H({s}) \in Nat
    BY <1>2, <2>2, <2>3
  <2> DEFINE n == Cardinality(S)
             m == Cardinality(S \ {s})
  <2> HIDE DEF H, n, m
  <2>8. (n - 1) * SegmentSize = n * SegmentSize - SegmentSize /\ n * SegmentSize \in Int
    BY <1>1, <2>6 DEF n
  <2>9. H(S \ {s}) =< n * SegmentSize - SegmentSize
    BY <2>5, <2>6, <2>8 DEF n, m
  <2>10. H(S) =< n * SegmentSize
    BY <1>1, <2>4, <2>7, <2>8, <2>9
  <2> QED BY <2>10 DEF n
<1>5. \A S \in SUBSET All : S \in P
  <2> HIDE DEF P, All
  <2> QED BY <1>1, <1>3, <1>4, SubsetInduction
<1> QED BY <1>5

(* So a bill does not wrap around. *)
NoWrap == \A a \in Apps, f \in Fields : Holds(Kept, a, f) \in 0 .. Wrap - 1

LEMMA BillsFit == LogFits /\ Inv /\ FillInv /\ StaleInv => NoWrap
<1> SUFFICES ASSUME LogFits, Inv, FillInv, StaleInv, NEW a \in Apps, NEW f \in Fields
             PROVE  Holds(Kept, a, f) \in 0 .. Wrap - 1
  BY DEF NoWrap
<1>1. Kept \in SUBSET (Segments \ srcs) /\ Kept \in SUBSET Segments
  BY DEF Kept, Inv, TypeOK
<1>2. Holds(Kept, a, "bytes") =< Cardinality(Kept) * SegmentSize
  BY <1>1, HoldsBounded
<1>3. /\ Cardinality(Kept) =< NumSegments /\ Cardinality(Kept) \in Nat
      /\ NumSegments \in Nat /\ SegmentSize \in Nat /\ Wrap \in Nat
  <2>1. Cardinality(Kept) \in Nat /\ Cardinality(Kept) =< NumSegments
    BY <1>1, FreeFinite, FS_Subset, FS_CardinalityType
  <2> QED BY <2>1, SegmentsAssumption, RequestsAssumption
<1>4. Cardinality(Kept) * SegmentSize =< NumSegments * SegmentSize
  <2> DEFINE c == Cardinality(Kept)
  <2> HIDE DEF c
  <2>1. c \in Nat /\ c =< NumSegments
    BY <1>3 DEF c
  <2>2. c * SegmentSize =< NumSegments * SegmentSize
    <3>1. NumSegments - c \in Nat
      BY <1>3, <2>1
    <3>2. (NumSegments - c) * SegmentSize >= 0
      BY <1>3, <3>1
    <3>3. (NumSegments - c) * SegmentSize = NumSegments * SegmentSize - c * SegmentSize
      BY <1>3, <2>1
    <3>4. NumSegments * SegmentSize \in Int /\ c * SegmentSize \in Int
      BY <1>3, <2>1
    <3> QED BY <3>2, <3>3, <3>4
  <2> QED BY <2>2 DEF c
<1>5. /\ \A g \in Fields : Holds(Kept, a, g) \in Nat
      /\ Holds(Kept, a, "n") =< Holds(Kept, a, "bytes")
  BY <1>1, HoldsNat, CountsAreLess DEF FillInv, Inv
<1>6. Cardinality(Kept) * SegmentSize \in Nat /\ NumSegments * SegmentSize \in Nat
  BY <1>3
<1>7. Holds(Kept, a, "bytes") < Wrap
  <2>1. Holds(Kept, a, "bytes") \in Nat
    BY <1>5 DEF Fields
  <2> QED BY <1>2, <1>3, <1>4, <1>6, <2>1 DEF LogFits
<1> QED BY <1>3, <1>5, <1>7 DEF Fields

(* A free segment holds nothing of anybody. *)
LEMMA FreeHoldsNothing ==
  ASSUME Inv, FillInv, StaleInv, NEW s \in Free, NEW a \in Apps, NEW f \in Fields
  PROVE  Holds({s}, a, f) = 0
<1> USE DEF Inv
<1>1. s \in Segments \ srcs /\ filled_bytes[s] = 0 /\ {s} \in SUBSET Segments
  BY DEF Free, SegmentInv, NoDangling, RoomInv
<1>2. Holds({s}, a, "bytes") =< 0
  BY <1>1, HoldsFilled
<1>3. Holds({s}, a, "n") =< Holds({s}, a, "bytes")
  BY <1>1, CountsAreLess
<1>4. \A g \in Fields : Holds({s}, a, g) \in Nat
  BY <1>1, HoldsNat DEF FillInv
<1> QED BY <1>2, <1>3, <1>4 DEF Fields

LEMMA NoRemainder == \A x \in 0 .. Wrap - 1 : x % Wrap = x
BY SegmentsAssumption

(* A store bills the application for the item it writes; an older version  *)
(* was its own, and stays on its bill as garbage.                          *)
LEMMA StoreHolds ==
  ASSUME Inv, FillInv, OwnerInv, srcs = {}, NEW r \in Requests, Store(r),
         NEW a \in Apps, NEW f \in Fields
  PROVE  Holds(Kept, a, f)' = Holds(Kept, a, f)
           + (IF a = r.app THEN IF f = "bytes" THEN r.size ELSE 1 ELSE 0)
<1> USE DEF Inv
<1> DEFINE v == IF f = "bytes" THEN r.size ELSE 1
           w == Weight(f)
           L == LiveOf(Kept, a)
           c == StaleOf(a, f)
<1>1. /\ Live' = Live \union {r.kid}
      /\ map'[r.kid] = [seg |-> head, size |-> r.size, app |-> r.app]
      /\ \A k \in Live \ {r.kid} : map'[k] = map[k]
  BY StoreFacts
<1>2. r.size \in Nat /\ r.app \in Apps /\ head \in Kept /\ v \in Nat
  BY RequestFacts DEF SegmentInv, NoDangling, Kept
<1>3. Kept' = Kept /\ Kept = inUse /\ Kept \in SUBSET Segments
  BY DEF Store, cleanVars, Kept, TypeOK
<1>4. r.kid \in Live => map[r.kid].app = r.app /\ map[r.kid].seg \in Kept /\ map[r.kid].size \in Nat
  BY <1>3, ItemFacts DEF OwnerInv, SegmentInv, NoDangling
<1>5. L' = {k \in Live' : map'[k].seg \in Kept /\ map'[k].app = a}
  BY <1>3 DEF LiveOf
<1>6. L \ {r.kid} = L' \ {r.kid} /\ (r.kid \in L' <=> a = r.app)
      /\ (r.kid \in L <=> a = r.app /\ r.kid \in Live)
  BY <1>1, <1>2, <1>4, <1>5 DEF LiveOf
<1>7. /\ w = [k \in Live |-> IF f = "bytes" THEN map[k].size ELSE 1]
      /\ w' = [k \in Live' |-> IF f = "bytes" THEN map'[k].size ELSE 1]
  BY DEF Weight
<1>8. /\ w'[r.kid] = v /\ \A k \in L \ {r.kid} : w'[k] = w[k]
      /\ L \in SUBSET Live /\ L' \in SUBSET Live'
  BY <1>1, <1>5, <1>7 DEF LiveOf
<1>9. IsFiniteSet(L) /\ Ints(w, L) /\ IsFiniteSet(L') /\ Ints(w', L')
  <2>1. IsFiniteSet(L) /\ Ints(w, L)
    BY <1>8, WeightFacts DEF FillInv
  <2>2. L' \in SUBSET (L \union {r.kid}) /\ IsFiniteSet(L \union {r.kid})
    BY <1>6, <2>1, FS_AddElement
  <2>3. IsFiniteSet(L')
    <3> HIDE DEF L
    <3> QED BY <2>2, FS_Subset
  <2>4. \A k \in L' : w'[k] \in Int
    BY <1>2, <1>6, <1>8, <2>1 DEF Ints
  <2> QED BY <2>1, <2>3, <2>4 DEF Ints
<1>10. SumFunctionOnSet(w', L') = SumFunctionOnSet(w, L)
         - (IF r.kid \in L THEN w[r.kid] ELSE 0) + (IF r.kid \in L' THEN v ELSE 0)
  <2> DEFINE M == L'
             u == w'
  <2>1. /\ L \ {r.kid} = M \ {r.kid} /\ IsFiniteSet(M) /\ Ints(u, M)
        /\ \A k \in L \ {r.kid} : u[k] = w[k]
    BY <1>6, <1>8, <1>9
  <2>2. u[r.kid] = v
    BY <1>8
  <2> HIDE DEF L, w, M, u, v
  <2>3. SumFunctionOnSet(u, M) = SumFunctionOnSet(w, L)
           - (IF r.kid \in L THEN w[r.kid] ELSE 0) + (IF r.kid \in M THEN u[r.kid] ELSE 0)
    BY <1>9, <2>1, SumReweigh
  <2> QED BY <2>2, <2>3 DEF M, u
<1>11. SumFunctionOnSet(c', Kept) = SumFunctionOnSet(c, Kept)
         + (IF r.kid \in L THEN w[r.kid] ELSE 0)
  <2>1. c' = [s \in Segments |-> stale'[s][a][f]] /\ c = [s \in Segments |-> stale[s][a][f]]
    BY DEF StaleOf
  <2>2. IsFiniteSet(Kept) /\ Ints(c, Kept) /\ SumFunctionOnSet(c, Kept) \in Nat
    BY <1>3, StaleFacts
  <2>3. CASE r.kid \in L
    <3> DEFINE s == map[r.kid].seg
               d == c'
    <3>1. s \in Kept /\ s \in Segments /\ w[r.kid] \in Nat /\ a = r.app /\ r.kid \in Live
      BY <1>3, <1>4, <1>6, <1>8, <2>3, WeightFacts DEF FillInv
    <3>2. stale' = [stale EXCEPT ![s][a] =
                      [n |-> @.n + 1, bytes |-> @.bytes + map[r.kid].size]]
      BY <1>4, <3>1 DEF Store
    <3>3. c'[s] = c[s] + w[r.kid] /\ \A t \in Segments \ {s} : c'[t] = c[t]
      <4>1. /\ stale'[s][a] = [n |-> stale[s][a].n + 1, bytes |-> stale[s][a].bytes + map[r.kid].size]
            /\ \A t \in Segments \ {s} : stale'[t] = stale[t]
        BY <3>1, <3>2 DEF TypeOK
      <4>2. w[r.kid] = IF f = "bytes" THEN map[r.kid].size ELSE 1
        BY <1>7, <3>1
      <4>3. stale'[s][a][f] = stale[s][a][f] + IF f = "bytes" THEN map[r.kid].size ELSE 1
        BY <4>1 DEF Fields
      <4> QED BY <2>1, <3>1, <4>1, <4>2, <4>3, SMTT(30)
    <3>4. /\ d[s] = c[s] + w[r.kid] /\ \A t \in Kept \ {s} : d[t] = c[t]
          /\ c[s] \in Int /\ d[s] \in Int
      BY <1>3, <2>2, <3>1, <3>3 DEF Ints
    <3> HIDE DEF c, d, s, w
    <3>5. SumFunctionOnSet(d, Kept) = SumFunctionOnSet(c, Kept) - c[s] + d[s]
      BY <2>2, <3>1, <3>4, SumChange
    <3>6. SumFunctionOnSet(d, Kept) = SumFunctionOnSet(c, Kept) + w[r.kid]
      BY <2>2, <3>1, <3>4, <3>5
    <3> QED BY <2>3, <3>6 DEF d
  <2>4. CASE r.kid \notin L
    <3>1. \A s \in Segments : stale'[s][a] = stale[s][a]
      <4>1. CASE r.kid \notin Live
        BY <4>1 DEF Store
      <4>2. CASE r.kid \in Live
        <5>1. map[r.kid].app # a
          BY <1>4, <1>6, <2>4, <4>2
        <5> QED BY <4>2, <5>1, ItemFacts DEF Store, TypeOK
      <4> QED BY <4>1, <4>2
    <3>2. c' = c
      BY <2>1, <3>1
    <3> QED BY <2>2, <2>4, <3>2
  <2> QED BY <2>3, <2>4
<1>12. /\ SumFunctionOnSet(w, L) \in Nat /\ SumFunctionOnSet(c, Kept) \in Nat
       /\ (r.kid \in L => w[r.kid] \in Nat)
  BY <1>3, <1>8, WeightFacts, StaleFacts DEF FillInv
<1>13. /\ Holds(Kept, a, f) = SumFunctionOnSet(w, L) + SumFunctionOnSet(c, Kept)
       /\ Holds(Kept, a, f)' = SumFunctionOnSet(w', L') + SumFunctionOnSet(c', Kept)
  BY <1>3 DEF Holds
<1> QED
  <2> DEFINE x == SumFunctionOnSet(w, L)
             y == SumFunctionOnSet(c, Kept)
             z == IF r.kid \in L THEN w[r.kid] ELSE 0
             t == IF r.kid \in L' THEN v ELSE 0
  <2>1. z \in Nat /\ t \in Nat /\ x \in Nat /\ y \in Nat
    BY <1>2, <1>12
  <2>2. Holds(Kept, a, f)' = (x - z + t) + (y + z) /\ Holds(Kept, a, f) = x + y
    BY <1>10, <1>11, <1>13
  <2>3. t = IF a = r.app THEN v ELSE 0
    BY <1>6
  <2> HIDE DEF x, y, z, t
  <2>4. Holds(Kept, a, f)' = Holds(Kept, a, f) + t
    BY <2>1, <2>2
  <2> QED BY <2>3, <2>4

LEMMA BillingMeansNext == TypeOK' /\ FillInv' => (BillingExact' <=> BillsMatch')
BY BillingMeans, PTL

LEMMA BillsFitNext == LogFits /\ Inv' /\ FillInv' /\ StaleInv' => NoWrap'
<1>1. Inv /\ FillInv /\ StaleInv /\ LogFits => NoWrap
  BY BillsFit
<1>2. LogFits => LogFits'
  BY DEF LogFits
<1> QED BY <1>1, <1>2, PTL

(* Bills that change by what is held change, modulo the size of a size_t,  *)
(* to what is held.                                                        *)
LEMMA BillsFollow ==
  ASSUME LogFits, Inv, Inv', FillInv, FillInv', StaleInv', BillingExact,
         \A a \in Apps, f \in Fields :
           \/ /\ Billed(a, f)' = Billed(a, f)
              /\ Holds(Kept, a, f)' = Holds(Kept, a, f)
           \/ \E v \in Int : /\ Billed(a, f)' = (Billed(a, f) + v) % Wrap
                             /\ Holds(Kept, a, f)' = Holds(Kept, a, f) + v
  PROVE  BillingExact'
<1>1. BillsMatch
  BY BillingMeans DEF Inv
<1>2. ASSUME NEW a \in Apps, NEW f \in Fields
      PROVE  Billed(a, f)' = Holds(Kept, a, f)'
  <2>1. Billed(a, f) = Holds(Kept, a, f)
    BY <1>1 DEF BillsMatch
  <2>2. Holds(Kept, a, f)' \in 0 .. Wrap - 1
    BY BillsFitNext DEF NoWrap
  <2> QED BY <2>1, <2>2, NoRemainder
<1>3. BillsMatch'
  BY <1>2 DEF BillsMatch
<1> QED BY <1>3, BillingMeansNext DEF Inv

LEMMA StoreBills ==
  ASSUME OneOwner, LogFits, Inv, Inv', FillInv, FillInv', BillInv, srcs = {},
         NEW r \in Requests, Store(r)
  PROVE  BillInv'
<1> USE DEF Inv, BillInv
<1>1. /\ Live' = Live \union {r.kid}
      /\ map'[r.kid] = [seg |-> head, size |-> r.size, app |-> r.app]
      /\ \A k \in Live \ {r.kid} : map'[k] = map[k]
  BY StoreFacts
<1>2. OwnerInv'
  BY <1>1 DEF OwnerInv, OneOwner
<1>3. StaleInv'
  <2>1. CASE r.kid \notin Live
    BY <2>1 DEF Store, StaleInv
  <2>2. CASE r.kid \in Live
    <3> DEFINE t == map[r.kid].seg
               b == map[r.kid].app
    <3>1. t \in Segments /\ b \in Apps /\ map[r.kid].size \in Nat \ {0}
      BY <2>2, ItemFacts, SizesNat
    <3>2. stale' = [stale EXCEPT ![t][b] = [n |-> @.n + 1, bytes |-> @.bytes + map[r.kid].size]]
      BY <2>2 DEF Store
    <3>3. /\ stale'[t][b].n = stale[t][b].n + 1
          /\ stale'[t][b].bytes = stale[t][b].bytes + map[r.kid].size
          /\ \A s \in Segments, a \in Apps : s # t \/ a # b => stale'[s][a] = stale[s][a]
      BY <3>1, <3>2 DEF TypeOK
    <3>4. stale[t][b].n \in Nat /\ stale[t][b].bytes \in Nat /\ stale[t][b].n =< stale[t][b].bytes
      <4>1. \A s \in Segments, c \in Apps : stale[s][c] \in [n : Nat, bytes : Nat]
        BY DEF TypeOK
      <4> QED BY <3>1, <4>1 DEF StaleInv
    <3> QED BY <3>1, <3>3, <3>4 DEF StaleInv
  <2> QED BY <2>1, <2>2
<1>4. ASSUME NEW a \in Apps, NEW f \in Fields
      PROVE  \/ /\ Billed(a, f)' = Billed(a, f)
                /\ Holds(Kept, a, f)' = Holds(Kept, a, f)
             \/ \E v \in Int : /\ Billed(a, f)' = (Billed(a, f) + v) % Wrap
                               /\ Holds(Kept, a, f)' = Holds(Kept, a, f) + v
  <2> DEFINE v == IF f = "bytes" THEN r.size ELSE 1
  <2>1. Holds(Kept, a, f)' = Holds(Kept, a, f) + (IF a = r.app THEN v ELSE 0)
    BY StoreHolds
  <2>2. Holds(Kept, a, f) \in Nat /\ v \in Int
    <3>1. Kept \in SUBSET Segments
      BY DEF Kept, TypeOK
    <3> QED BY <3>1, HoldsNat, RequestFacts DEF FillInv
  <2>3. Billed(a, f)' = IF a = r.app THEN (Billed(a, f) + v) % Wrap ELSE Billed(a, f)
    BY DEF Store, Billed
  <2> HIDE DEF v
  <2> QED BY <2>1, <2>2, <2>3
<1>5. BillingExact'
  BY <1>3, <1>4, BillsFollow
<1>6. DOMAIN bytes_in_use' = Apps /\ DOMAIN live_items' = Apps
  BY DEF Store
<1> QED BY <1>2, <1>3, <1>5, <1>6

(* A turn moves an item of the sources to where it counts. *)
LEMMA TurnHolds ==
  ASSUME Inv, FillInv, StaleInv, NEW a \in Apps, NEW k \in Live, NEW s \in Segments,
         Turn(a, k, s), NEW b \in Apps, NEW f \in Fields
  PROVE  Holds(Kept, b, f)' = Holds(Kept, b, f) + (IF b = a THEN Weight(f)[k] ELSE 0)
<1> USE DEF Inv
<1>1. /\ map[k].seg \in srcs /\ map[k].app = a /\ s \notin srcs
      /\ srcs' = srcs /\ stale' = stale /\ Live' = Live
      /\ map'[k].seg = s /\ map'[k].app = a /\ \A j \in Live \ {k} : map'[j] = map[j]
  BY TurnItems
<1>2. map'[k].size = map[k].size
  BY ItemFacts DEF Turn, Move, Items
<1> DEFINE S == Kept \union {s}
           w == Weight(f)
           c == StaleOf(b, f)
<1>3. Kept' = S /\ S \in SUBSET Segments /\ Kept \in SUBSET Segments
  BY <1>1 DEF Turn, Kept, TypeOK
<1>4. Weight(f)' = w /\ StaleOf(b, f)' = c
  BY <1>1, <1>2 DEF Weight, StaleOf
<1>5. Holds(S, b, f) = Holds(Kept, b, f)
  <2>1. CASE s \in inUse
    <3>1. S = Kept
      BY <1>1, <2>1 DEF Kept
    <3> HIDE DEF S
    <3> QED BY <3>1
  <2>2. CASE s \in Free
    <3>1. Kept \intersect {s} = {} /\ {s} \in SUBSET Segments
      BY <2>2 DEF Kept, Free
    <3>2. Holds(S, b, f) = Holds(Kept, b, f) + Holds({s}, b, f)
      BY <1>3, <3>1, HoldsUnion DEF FillInv
    <3>3. Holds({s}, b, f) = 0 /\ Holds(Kept, b, f) \in Nat
      BY <1>3, <2>2, FreeHoldsNothing, HoldsNat DEF FillInv
    <3> HIDE DEF S
    <3> QED BY <3>2, <3>3
  <2> QED BY <2>1, <2>2 DEF Turn
<1> DEFINE L == LiveOf(S, b)
<1>6. LiveOf(Kept, b)' = (IF b = a THEN L \union {k} ELSE L) /\ k \notin L /\ L \in SUBSET Live
  <2>1. LiveOf(Kept, b)' = {j \in Live : map'[j].seg \in S /\ map'[j].app = b}
    BY <1>1, <1>3 DEF LiveOf
  <2>2. k \notin L /\ L \in SUBSET Live
    BY <1>1 DEF LiveOf, Kept
  <2>3. s \in S
    OBVIOUS
  <2> HIDE DEF S
  <2> QED BY <1>1, <2>1, <2>2, <2>3 DEF LiveOf
<1>7. Holds(Kept, b, f)' = SumFunctionOnSet(w, LiveOf(Kept, b)') + SumFunctionOnSet(c, S)
  BY <1>3, <1>4 DEF Holds
<1>8. Holds(S, b, f) = SumFunctionOnSet(w, L) + SumFunctionOnSet(c, S)
  BY DEF Holds
<1>9. SumFunctionOnSet(w, L) \in Nat /\ SumFunctionOnSet(c, S) \in Nat /\ w[k] \in Nat
  BY <1>3, <1>6, WeightFacts, StaleFacts DEF FillInv
<1>10. SumFunctionOnSet(w, L \union {k}) = SumFunctionOnSet(w, L) + w[k]
  <2>1. L \union {k} \in SUBSET Live
    BY <1>6
  <2>2. IsFiniteSet(L) /\ Ints(w, L \union {k})
    BY <1>6, <2>1, WeightFacts DEF FillInv
  <2> HIDE DEF L, w
  <2> QED BY <1>6, <2>2, SumAdd
<1> HIDE DEF L, S, c, w
<1>11. CASE b = a
  <2>1. Holds(Kept, b, f)' = SumFunctionOnSet(w, L) + w[k] + SumFunctionOnSet(c, S)
    BY <1>6, <1>7, <1>10, <1>11
  <2>2. Holds(Kept, b, f)' = Holds(Kept, b, f) + w[k]
    BY <1>5, <1>8, <1>9, <2>1
  <2> QED BY <1>11, <2>2 DEF w
<1>12. CASE b # a
  <2>1. Holds(Kept, b, f)' = Holds(Kept, b, f)
    BY <1>5, <1>6, <1>7, <1>8, <1>12
  <2>2. Holds(Kept, b, f) \in Nat
    BY <1>5, <1>8, <1>9
  <2> QED BY <1>12, <2>1, <2>2
<1> QED BY <1>11, <1>12

LEMMA RelocateBills ==
  ASSUME LogFits, Inv, Inv', FillInv, FillInv', BillInv, Relocate
  PROVE  BillInv'
<1> USE DEF Inv, BillInv
<1>1. PICK a \in Apps, k \in Live, s \in Segments : Turn(a, k, s)
  BY RelocateIsTurn
<1>2. /\ map[k].app = a /\ stale' = stale /\ Live' = Live
      /\ map'[k].app = a /\ \A j \in Live \ {k} : map'[j] = map[j]
  BY <1>1, TurnItems
<1>3. OwnerInv' /\ StaleInv'
  BY <1>2 DEF OwnerInv, StaleInv
<1>4. ASSUME NEW b \in Apps, NEW f \in Fields
      PROVE  \/ /\ Billed(b, f)' = Billed(b, f)
                /\ Holds(Kept, b, f)' = Holds(Kept, b, f)
             \/ \E v \in Int : /\ Billed(b, f)' = (Billed(b, f) + v) % Wrap
                               /\ Holds(Kept, b, f)' = Holds(Kept, b, f) + v
  <2> DEFINE v == Weight(f)[k]
  <2>1. Holds(Kept, b, f)' = Holds(Kept, b, f) + (IF b = a THEN v ELSE 0)
    BY <1>1, TurnHolds
  <2>2. Holds(Kept, b, f) \in Nat /\ v \in Int
    <3>1. Kept \in SUBSET Segments
      BY DEF Kept, TypeOK
    <3> QED BY <3>1, HoldsNat, WeightFacts DEF FillInv
  <2>3. Billed(b, f)' = IF b = a THEN (Billed(b, f) + v) % Wrap ELSE Billed(b, f)
    BY <1>1, <1>2 DEF Turn, Move, Billed, Weight
  <2> HIDE DEF v
  <2> QED BY <2>1, <2>2, <2>3
<1>5. BillingExact'
  BY <1>3, <1>4, BillsFollow
<1>6. DOMAIN bytes_in_use' = Apps /\ DOMAIN live_items' = Apps
  BY <1>1 DEF Turn, Move
<1> QED BY <1>3, <1>5, <1>6

(* The start of a cleaning takes off the bills what the sources hold. *)
LEMMA StartCleanBills ==
  ASSUME LogFits, Inv, Inv', FillInv, FillInv', BillInv, StartClean
  PROVE  BillInv'
<1> USE DEF Inv, BillInv
<1>1. srcs = {} /\ srcs' \in SUBSET inUse /\ srcs' \in SUBSET Segments
  BY SourcesAreNonHead DEF StartClean, SegmentInv, NonHead, TypeOK
<1>2. UNCHANGED <<map, stale, inUse>>
  BY DEF StartClean, segVars, itemVars
<1>3. OwnerInv' /\ StaleInv'
  BY <1>2 DEF OwnerInv, StaleInv, Live
<1>4. ASSUME NEW a \in Apps, NEW f \in Fields
      PROVE  \E v \in Int : /\ Billed(a, f)' = (Billed(a, f) + v) % Wrap
                            /\ Holds(Kept, a, f)' = Holds(Kept, a, f) + v
  <2> DEFINE S == srcs'
             T == inUse \ S
  <2>1. /\ S \in SUBSET Segments /\ T \in SUBSET Segments /\ T \intersect S = {}
        /\ Kept = T \union S /\ Kept' = T
    BY <1>1, <1>2 DEF Kept, TypeOK
  <2>2. Holds(Kept, a, f)' = Holds(T, a, f)
    BY <1>2, <2>1 DEF Holds, Weight, StaleOf, LiveOf, Live
  <2>3. /\ Holds(T \union S, a, f) = Holds(T, a, f) + Holds(S, a, f)
        /\ Holds(T, a, f) \in Nat /\ Holds(S, a, f) \in Nat
    BY <2>1, HoldsUnion, HoldsNat DEF FillInv
  <2>4. Deduct(S, a)[f] = Holds(S, a, f)
    <3>1. Weight("bytes") = [k \in Live |-> map[k].size]
      BY DEF Weight
    <3>2. SumFunctionOnSet(Weight("n"), LiveOf(S, a)) = Cardinality(LiveOf(S, a))
      <4>1. LiveOf(S, a) \in SUBSET Live
        BY DEF LiveOf
      <4>2. IsFiniteSet(LiveOf(S, a)) /\ \A k \in LiveOf(S, a) : Weight("n")[k] = 1
        BY <4>1, FS_Subset DEF Weight, FillInv
      <4> QED BY <4>2, SumCounts
    <3>3. CASE f = "bytes"
      BY <3>1, <3>3 DEF Deduct, Holds, Bytes, StaleSum, StaleOf
    <3>4. CASE f = "n"
      BY <3>2, <3>4 DEF Deduct, Holds, StaleSum, StaleOf
    <3> QED BY <3>3, <3>4 DEF Fields
  <2>5. Billed(a, f)' = (Billed(a, f) - Holds(S, a, f)) % Wrap
    <3>1. Billed(a, f)' = (Billed(a, f) - Deduct(S, a)[f]) % Wrap
      <4>1. f = "bytes" => Deduct(S, a)[f] = Deduct(S, a).bytes
        OBVIOUS
      <4>2. f = "n" => Deduct(S, a)[f] = Deduct(S, a).n
        OBVIOUS
      <4> QED BY <4>1, <4>2 DEF StartClean, Billed, Fields
    <3> QED BY <2>4, <3>1
  <2>6. Billed(a, f) = Holds(Kept, a, f)
    BY BillingMeans DEF BillsMatch
  <2> DEFINE h == Holds(S, a, f)
  <2>7. Holds(Kept, a, f) = Holds(T, a, f) + h
    BY <2>1, <2>3
  <2> HIDE DEF S, T, h
  <2>8. /\ Billed(a, f)' = (Billed(a, f) + (-h)) % Wrap
        /\ Holds(Kept, a, f)' = Holds(Kept, a, f) + (-h) /\ -h \in Int
    <3>1. Billed(a, f) \in Int /\ h \in Nat /\ Holds(T, a, f) \in Nat
      BY <2>3, <2>6, <2>7 DEF h
    <3>2. Billed(a, f) - h = Billed(a, f) + (-h)
      BY <3>1
    <3> QED BY <2>2, <2>5, <2>7, <3>1, <3>2 DEF h
  <2> QED BY <2>8
<1>5. BillingExact'
  BY <1>3, <1>4, BillsFollow
<1>6. DOMAIN bytes_in_use' = Apps /\ DOMAIN live_items' = Apps
  BY DEF StartClean
<1> QED BY <1>3, <1>5, <1>6

(* The end of a cleaning frees segments that were not billed any more. *)
LEMMA EndCleanBills ==
  ASSUME LogFits, Inv, Inv', FillInv, FillInv', BillInv, EndClean
  PROVE  BillInv'
<1> USE DEF Inv, BillInv
<1>1. /\ Live' = Live \ {k \in Live : map[k].seg \in srcs}
      /\ \A k \in Live' : map'[k] = map[k]
      /\ srcs' = {} /\ inUse' = inUse \ srcs
  BY EndCleanItems
<1>2. OwnerInv'
  BY <1>1 DEF OwnerInv
<1>3. \A s \in Segments, a \in Apps :
        stale'[s][a] = IF s \in srcs THEN NoItems ELSE stale[s][a]
  BY DEF EndClean
<1>4. StaleInv'
  BY <1>3 DEF StaleInv, NoItems
<1>5. Kept' = Kept /\ Kept \in SUBSET Segments /\ Kept \intersect srcs = {}
  BY <1>1 DEF Kept, TypeOK
<1>6. ASSUME NEW a \in Apps, NEW f \in Fields
      PROVE  /\ Billed(a, f)' = Billed(a, f)
             /\ Holds(Kept, a, f)' = Holds(Kept, a, f)
  <2> DEFINE K == LiveOf(Kept, a)
             w == Weight(f)
             c == StaleOf(a, f)
             v == Weight(f)'
             d == StaleOf(a, f)'
  <2>1. LiveOf(Kept, a)' = K /\ K \in SUBSET Live /\ K \in SUBSET Live'
    BY <1>1, <1>5 DEF LiveOf
  <2>2. \A k \in K : v[k] = w[k]
    BY <1>1, <2>1 DEF Weight
  <2>3. \A s \in Kept : d[s] = c[s]
    BY <1>3, <1>5 DEF StaleOf
  <2>4. IsFiniteSet(K) /\ Ints(w, K) /\ IsFiniteSet(Kept) /\ Ints(c, Kept)
    BY <1>5, <2>1, WeightFacts, StaleFacts DEF FillInv
  <2>5. Holds(Kept, a, f)' = SumFunctionOnSet(v, K) + SumFunctionOnSet(d, Kept)
    BY <1>5, <2>1 DEF Holds
  <2>6. Holds(Kept, a, f) = SumFunctionOnSet(w, K) + SumFunctionOnSet(c, Kept)
    BY DEF Holds
  <2> HIDE DEF K, w, c, v, d
  <2>7. SumFunctionOnSet(v, K) = SumFunctionOnSet(w, K)
    BY <2>2, <2>4, SumSame
  <2>8. SumFunctionOnSet(d, Kept) = SumFunctionOnSet(c, Kept)
    BY <2>3, <2>4, SumSame
  <2> QED BY <2>5, <2>6, <2>7, <2>8 DEF EndClean, billVars, Billed
<1>7. BillingExact'
  BY <1>4, <1>6, BillsFollow
<1>8. DOMAIN bytes_in_use' = Apps /\ DOMAIN live_items' = Apps
  BY DEF EndClean, billVars
<1> QED BY <1>2, <1>4, <1>7, <1>8

(* The other steps change no bill and no segment that holds anything. *)
LEMMA OtherBills ==
  ASSUME OneOwner, LogFits, Inv, Inv', FillInv, FillInv', BillInv,
         \/ \E r \in Requests : Oversize(r) \/ HitInLog(r) \/ Rollover(r)
         \/ EndRelocation \/ CrashInClean \/ UNCHANGED vars
  PROVE  BillInv'
<1> USE DEF Inv, BillInv
<1>1. /\ UNCHANGED <<stale, srcs, bytes_in_use, live_items>>
      /\ UNCHANGED inUse \/ \E s \in Free : inUse' = inUse \union {s}
  BY DEF Oversize, HitInLog, Rollover, EndRelocation, CrashInClean, vars, segVars,
     billVars, cleanVars, FirstFree
<1>2. Live' = Live /\ \A k \in Live : map'[k] = map[k]
  <2>1. ASSUME NEW r \in Requests, HitInLog(r)
        PROVE  Live' = Live /\ \A k \in Live : map'[k] = map[k]
    <3>1. map' = [map EXCEPT ![r.kid].app = r.app] /\ r.kid \in Live
      BY <2>1 DEF HitInLog, IsHit
    <3>2. map[r.kid] \in Items /\ map[r.kid].app = r.app
      BY <3>1, ItemFacts DEF OwnerInv
    <3>3. [map[r.kid] EXCEPT !.app = r.app] = map[r.kid]
      BY <3>2 DEF Items
    <3> QED BY <3>1, <3>3 DEF Live
  <2>2. CASE \/ \E r \in Requests : Oversize(r) \/ Rollover(r)
             \/ EndRelocation \/ CrashInClean \/ UNCHANGED vars
    BY <2>2 DEF Oversize, Rollover, EndRelocation, CrashInClean, vars, itemVars, Live
  <2> QED BY <2>1, <2>2
<1>3. OwnerInv' /\ StaleInv'
  BY <1>1, <1>2 DEF OwnerInv, StaleInv
<1>4. ASSUME NEW a \in Apps, NEW f \in Fields
      PROVE  Billed(a, f)' = Billed(a, f) /\ Holds(Kept, a, f)' = Holds(Kept, a, f)
  <2>1. Weight(f)' = Weight(f) /\ StaleOf(a, f)' = StaleOf(a, f)
        /\ \A S : LiveOf(S, a)' = LiveOf(S, a)
    BY <1>1, <1>2 DEF Weight, StaleOf, LiveOf
  <2>2. Holds(Kept, a, f)' = Holds(Kept', a, f)
    <3>1. LiveOf(Kept, a)' = LiveOf(Kept', a)
      BY <1>2 DEF LiveOf
    <3> QED BY <2>1, <3>1 DEF Holds
  <2>3. Kept \in SUBSET Segments
    BY DEF Kept, TypeOK
  <2>4. Holds(Kept', a, f) = Holds(Kept, a, f)
    <3>1. CASE inUse' = inUse
      BY <1>1, <3>1 DEF Kept
    <3>2. ASSUME NEW s \in Free, inUse' = inUse \union {s}
          PROVE  Holds(Kept', a, f) = Holds(Kept, a, f)
      <4>1. /\ Kept' = Kept \union {s} /\ Kept \intersect {s} = {}
            /\ {s} \in SUBSET Segments
        BY <1>1, <3>2 DEF Kept, Free, SegmentInv, NoDangling
      <4>2. Holds(Kept \union {s}, a, f) = Holds(Kept, a, f) + Holds({s}, a, f)
        BY <2>3, <4>1, HoldsUnion DEF FillInv
      <4>3. Holds({s}, a, f) = 0 /\ Holds(Kept, a, f) \in Nat
        BY <2>3, FreeHoldsNothing, HoldsNat DEF FillInv
      <4>4. Holds(Kept', a, f) = Holds(Kept \union {s}, a, f)
        BY <4>1
      <4> QED BY <4>2, <4>3, <4>4
    <3> QED BY <1>1, <3>1, <3>2
  <2> QED BY <1>1, <2>2, <2>4 DEF Billed
<1>5. BillingExact'
  BY <1>3, <1>4, BillsFollow
<1> QED BY <1>1, <1>3, <1>5

LEMMA InitBills == Init => BillInv
<1> SUFFICES ASSUME Init PROVE BillInv
  OBVIOUS
<1>1. Live = {} /\ OwnerInv /\ StaleInv
  BY DEF Init, Live, OwnerInv, StaleInv, NoItems
<1>2. FillInv /\ TypeOK
  BY InitFill, InitInv DEF Inv
<1>3. ASSUME NEW a \in Apps, NEW f \in Fields PROVE Billed(a, f) = Holds(Kept, a, f)
  <2>1. LiveOf(Kept, a) = {} /\ Billed(a, f) = 0
    BY <1>1 DEF LiveOf, Init, Billed
  <2>2. Kept \in SUBSET Segments /\ \A s \in Segments : StaleOf(a, f)[s] = 0
    BY <1>2 DEF Kept, TypeOK, Init, StaleOf, NoItems, Fields
  <2>3. IsFiniteSet(Kept)
    BY <2>2, FreeFinite, FS_Subset
  <2>4. SumFunctionOnSet(StaleOf(a, f), Kept) = 0
    BY <2>2, <2>3, SumNat
  <2> QED BY <2>1, <2>4, SumEmpty DEF Holds
<1>4. BillingExact
  BY <1>2, <1>3, BillingMeans DEF BillsMatch
<1>5. DOMAIN bytes_in_use = Apps /\ DOMAIN live_items = Apps
  BY DEF Init
<1> QED BY <1>1, <1>4, <1>5 DEF BillInv

LEMMA NextBills ==
  ASSUME OneOwner, LogFits
  PROVE  Inv /\ Inv' /\ FillInv /\ FillInv' /\ BillInv /\ [Next]_vars => BillInv'
<1> SUFFICES ASSUME Inv, Inv', FillInv, FillInv', BillInv, [Next]_vars PROVE BillInv'
  OBVIOUS
<1>1. ASSUME NEW r \in Requests, StoreInHead(r) PROVE BillInv'
  BY <1>1, StoreBills DEF StoreInHead, Inv, SegmentInv
<1>2. CASE StoreAfterRollover
  BY <1>2, StoreBills DEF StoreAfterRollover, Inv, SegmentInv, RoomInv
<1>3. CASE StartClean
  BY <1>3, StartCleanBills
<1>4. CASE Relocate
  BY <1>4, RelocateBills
<1>5. CASE EndClean
  BY <1>5, EndCleanBills
<1>6. CASE \/ \E r \in Requests : Oversize(r) \/ HitInLog(r) \/ Rollover(r)
           \/ EndRelocation \/ CrashInClean \/ UNCHANGED vars
  BY <1>6, OtherBills
<1> QED BY <1>1, <1>2, <1>3, <1>4, <1>5, <1>6 DEF Next, Request, Proceed, Crashed

(* If a key is requested by one application, and a size_t counts the bytes *)
(* of the log, an application is billed at every moment for exactly what   *)
(* it has in the log: no bill underflows when a cleaning deducts.          *)
THEOREM BillsAreExact == OneOwner /\ LogFits => (Spec => []BillingExact)
<1> SUFFICES ASSUME OneOwner, LogFits PROVE Spec => []BillingExact
  OBVIOUS
<1>1. BillInv => BillingExact
  BY DEF BillInv
<1>2. Inv /\ Inv' /\ FillInv /\ FillInv' /\ BillInv /\ [Next]_vars => BillInv'
  BY NextBills
<1> QED BY <1>1, <1>2, InitBills, Invariance, FillInvariance, PTL DEF Spec
===============================================================================
