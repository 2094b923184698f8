------------------------------- MODULE LscMulti -------------------------------
(***************************************************************************)
(* The multi-tenant log-structured cache of src/src/lsc_multi.{h,cpp}.     *)
(*                                                                         *)
(* Objects of several applications are appended to the head segment of one *)
(* log.  When the head is full a free segment becomes the head and, when   *)
(* fewer than CleaningWidth segments are left free, the cleaner picks      *)
(* CleaningWidth segments, copies the objects of the neediest applications *)
(* into at most CleaningWidth - 1 fresh segments, and drops the others     *)
(* into the shadow queues of their applications.  A hit in a shadow queue  *)
(* lets the application steal memory credit from another one.              *)
(*                                                                         *)
(* One call of lsc_multi::proc is a run of this module from pc = "ready"   *)
(* back to pc = "ready".  The loops inside it, proc -> rollover -> clean,  *)
(* are unfolded into steps:                                                *)
(*    "clean"   head of the relocation loop of clean();                    *)
(*    "evict"   the loop was left, what is still queued is thrown away;    *)
(*    "append"  rollover() has returned, the request is to be stored;      *)
(*    "crashed" the process died on a null pointer (see CrashInClean).     *)
(*                                                                         *)
(* Request timestamps are abstracted to the order `recency`: the code only *)
(* compares them.  Versions of an object that `map` no longer points to    *)
(* are only counted, per segment and application (`stale`).                *)
(***************************************************************************)
EXTENDS Integers, FiniteSets, SequencesExt, FiniteSetsExt, Filter

CONSTANTS
  Apps,           \* application ids (stat.apps)
  Keys,           \* request::kid
  Requests,       \* the requests of the trace: kid, size and application
  NumSegments,    \* segments.size()
  SegmentSize,    \* stat.segment_size
  CleaningWidth,  \* stat.cleaning_width
  TargetMem,      \* application::target_mem, per application
  MinMem,         \* application::min_mem, per application
  StealSize,      \* application::steal_size, per application
  ShadowCap,      \* bytes of a shadow queue (CH_shq_size)
  Subpolicy,      \* subpolicy: "NORMAL", "GREEDY" or "STATIC"
  Wrap            \* one more than the largest size_t

ASSUME SegmentsAssumption ==
  /\ NumSegments \in Nat /\ CleaningWidth \in Nat \ {0}
  /\ NumSegments > 2 * CleaningWidth
  /\ Wrap \in Nat \ {0}

ASSUME RequestsAssumption ==
  /\ SegmentSize \in Nat /\ ShadowCap \in Nat
  /\ IsFiniteSet(Keys)
  /\ \A r \in Requests :
       r.kid \in Keys /\ r.app \in Apps /\ r.size \in Nat \ {0}

ASSUME AppsAssumption ==
  /\ Apps # {} /\ IsFiniteSet(Apps)
  /\ TargetMem \in [Apps -> Nat] /\ MinMem \in [Apps -> Nat]
  /\ StealSize \in [Apps -> Nat]
  /\ Subpolicy \in {"NORMAL", "GREEDY", "STATIC"}

VARIABLES
  pc,             \* where the running call of proc is
  req,            \* the request being stored, when pc # "ready"
  outcome,        \* the last completed call and what it returned
  inUse,          \* the segments that are not nullopt
  free_segments,  \* the counter the code keeps of the others
  head,           \* the segment requests are appended to
  filled_bytes,   \* segment::filled_bytes
  app_bytes,      \* segment::app_bytes
  map,            \* kid -> the live item: its segment, size and application
  stale,          \* superseded items of each segment, per application
  recency,        \* the keys of map by item time, newest first
  bytes_in_use,   \* application::bytes_in_use
  live_items,     \* application::live_items
  credit_bytes,   \* application::credit_bytes
  shadow_q,       \* application::shadow_q: kid -> size, 0 when absent
  cleaning_it,    \* is application::cleaning_it left apart from cleaning_q.end()
  srcs,           \* the segments being cleaned
  dst_segments    \* the destinations of this cleaning, the current one last

segVars   == <<inUse, free_segments, filled_bytes, app_bytes>>
itemVars  == <<map, recency>>
billVars  == <<bytes_in_use, live_items>>
cleanVars == <<cleaning_it, srcs, dst_segments>>
vars == <<pc, req, outcome, segVars, head, itemVars, stale, billVars,
          credit_bytes, shadow_q, cleanVars>>

Segments == 1 .. NumSegments
Sizes    == {r.size : r \in Requests}
Items    == [seg : Segments, size : Sizes, app : Apps]

-------------------------------------------------------------------------------
(* Segments.                                                               *)
Free      == Segments \ inUse
FirstFree == {s \in Free : \A t \in Free : s =< t}

(* What the cleaner may pick from: "Don't pick the head segment."; and the *)
(* mutation that forgets about the head.                                   *)
AnyInUse == inUse
NonHead  == inUse \ {head}

(* When rollover calls clean; and the mutation that is off by one. *)
MustCleanLate(free) == free < CleaningWidth - 1
MustClean(free)     == free < CleaningWidth

(* Room in a segment; and the mutation that forgets the object's size. *)
NotFull(s, bytes) == filled_bytes[s] < SegmentSize
Fits(s, bytes) == filled_bytes[s] + bytes =< SegmentSize

(* An item of application a is written into segment s; the mutation counts *)
(* it only for its application.                                            *)
WriteUnfilled(s, a, bytes) ==
  /\ app_bytes' = [app_bytes EXCEPT ![s][a] = @ + bytes]
  /\ filled_bytes' = [filled_bytes EXCEPT ![s] = app_bytes'[s][a]]
Write(s, a, bytes) ==
  /\ filled_bytes' = [filled_bytes EXCEPT ![s] = @ + bytes]
  /\ app_bytes' = [app_bytes EXCEPT ![s][a] = @ + bytes]

(* Items.                                                                  *)
Live   == DOMAIN map
Without(f, S) == [x \in DOMAIN f \ S |-> f[x]]
With(f, k, v) == [x \in DOMAIN f \union {k} |-> IF x = k THEN v ELSE f[x]]

(* k becomes the newest item; the mutation leaves its old place as well. *)
TouchTwice(k) == <<k>> \o recency
Touch(k) == <<k>> \o Erase(recency, {k})
Newer(j, k) == \E m, n \in DOMAIN recency : m < n /\ recency[m] = j /\ recency[n] = k

LiveOf(S, a) == {k \in Live : map[k].seg \in S /\ map[k].app = a}
Bytes(K)     == SumFunctionOnSet([k \in Live |-> map[k].size], K)
StaleSum(S, a, f) == SumFunctionOnSet([s \in Segments |-> stale[s][a][f]], S)

(* What is still in the cleaning queue of a: an item leaves it by being    *)
(* moved out of the sources, and they hold no item that map does not know. *)
Pending(a) == LiveOf(srcs, a)
Queued     == {a \in Apps : Pending(a) # {}}

(* The head of a sorted cleaning queue; the mutation sorts it backwards. *)
Oldest(K)  == {k \in K : \A j \in K \ {k} : Newer(j, k)}
Newest(K)  == {k \in K : \A j \in K \ {k} : Newer(k, j)}

-------------------------------------------------------------------------------
(* Memory limits: application::bytes_limit, need and try_steal_from.       *)
BytesLimit(a) == TargetMem[a] + credit_bytes[a]

(* need(a) > need(b), for the quotient of two doubles that is infinite     *)
(* when an application has no live item, and not a number when it has no   *)
(* limit either.                                                           *)
NeedsMore(a, b) == BytesLimit(a) * live_items[b] > BytesLimit(b) * live_items[a]

AtReservation(a) == BytesLimit(a) =< MinMem[a]

MostInNeed(A)  == {a \in A : \A b \in A : ~ NeedsMore(b, a)}
LeastInNeed(A) == {a \in A : \A b \in A : ~ NeedsMore(a, b)}

StealBytes(a) == IF Subpolicy = "NORMAL" THEN StealSize[a] ELSE 0

(* The test of try_steal_from; and the mutation that ignores min_mem. *)
MayTakeAll(a, other) == other # a /\ BytesLimit(other) >= StealBytes(a)
MayStealFrom(a, other) ==
  /\ other # a
  /\ BytesLimit(other) - StealBytes(a) >= MinMem[other]

(* Ten random victims are tried: the first that can give, or nobody.  The  *)
(* mutation forgets to charge the victim.                                  *)
StealForFree(a) ==
  \/ UNCHANGED credit_bytes
  \/ \E other \in Apps :
        /\ MayStealFrom(a, other)
        /\ credit_bytes' = [credit_bytes EXCEPT ![a] = @ + StealBytes(a)]
Steal(a) ==
  \/ UNCHANGED credit_bytes
  \/ \E other \in Apps :
        /\ MayStealFrom(a, other)
        /\ credit_bytes' = [credit_bytes EXCEPT ![other] = @ - StealBytes(a),
                                                ![a] = @ + StealBytes(a)]

-------------------------------------------------------------------------------
(* choose_cleaning_sources_random and _low_need.                           *)
SourcesRandom == kSubset(CleaningWidth, NonHead)

Heavier(a, s, t) ==
  \/ app_bytes[s][a] > app_bytes[t][a]
  \/ app_bytes[s][a] = app_bytes[t][a] /\ s > t

Heaviest(a, n) ==
  {s \in NonHead : Cardinality({t \in NonHead : Heavier(a, t, s)}) < n}

LowNeedApps == LeastInNeed({a \in Apps : cleaning_it[a]})

SourcesLowNeed ==
  {S \in SourcesRandom : \E a \in LowNeedApps : Heaviest(a, CleaningWidth \div 2) \subseteq S}

ChooseCleaningSources ==
  IF Subpolicy = "GREEDY" THEN SourcesRandom ELSE SourcesLowNeed

(* choose_survivor: the applications it may return; and the mutation that  *)
(* returns any application with a queued item.                             *)
ChooseAnyQueued == Queued
ChooseSurvivor ==
  LET reserved == {a \in Queued : AtReservation(a)}
  IN CASE Subpolicy = "GREEDY" ->
            {a \in Queued : Newest(Pending(a)) \subseteq
                              Newest(UNION {Pending(b) : b \in Apps})}
       [] Subpolicy = "NORMAL" /\ reserved # {} -> MostInNeed(reserved)
       [] OTHER -> MostInNeed(Queued)

-------------------------------------------------------------------------------
Outcome(r, result) == [kid |-> r.kid, size |-> r.size, result |-> result]

NoItems   == [n |-> 0, bytes |-> 0]
NoRequest == [kid |-> CHOOSE k \in Keys : TRUE, size |-> 0, app |-> CHOOSE a \in Apps : TRUE]

Init ==
  /\ pc = "ready"
  /\ req = NoRequest
  /\ outcome = Outcome(NoRequest, "none")
  /\ inUse = {1}
  /\ free_segments = NumSegments - 1
  /\ head = 1
  /\ filled_bytes = [s \in Segments |-> 0]
  /\ app_bytes = [s \in Segments |-> [a \in Apps |-> 0]]
  /\ map = [k \in {} |-> 0]
  /\ stale = [s \in Segments |-> [a \in Apps |-> NoItems]]
  /\ recency = <<>>
  /\ bytes_in_use = [a \in Apps |-> 0]
  /\ live_items = [a \in Apps |-> 0]
  /\ credit_bytes = [a \in Apps |-> 0]
  /\ shadow_q = [a \in Apps |-> [k \in Keys |-> 0]]
  /\ cleaning_it = [a \in Apps |-> TRUE]
  /\ srcs = {}
  /\ dst_segments = <<>>

(* proc: an object larger than a segment is turned away. *)
Oversize(r) ==
  /\ pc = "ready"
  /\ r.size > SegmentSize
  /\ outcome' = Outcome(r, "rejected")
  /\ UNCHANGED <<pc, req, segVars, head, itemVars, stale, billVars, credit_bytes,
                 shadow_q, cleanVars>>

(* The key is cached with this size: the item is replaced by the request,  *)
(* so that it now belongs to the application that asked for it.            *)
IsCached(r) == r.kid \in Live
IsHit(r) == r.kid \in Live /\ map[r.kid].size = r.size

HitInLog(r) ==
  /\ pc = "ready"
  /\ r.size =< SegmentSize
  /\ IsHit(r)
  /\ map' = [map EXCEPT ![r.kid].app = r.app]
  /\ recency' = Touch(r.kid)
  /\ outcome' = Outcome(r, "hit")
  /\ UNCHANGED <<pc, req, segVars, head, stale, billVars, credit_bytes, shadow_q,
                 cleanVars>>

(* The end of proc: the item is written at the head, its application is    *)
(* billed, an older version becomes garbage where it is, and the           *)
(* application may steal if the key is in its shadow queue.                *)
Store(r) ==
  /\ Write(head, r.app, r.size)
  /\ map' = With(map, r.kid, [seg |-> head, size |-> r.size, app |-> r.app])
  /\ stale' = IF r.kid \in Live
              THEN LET old == map[r.kid]
                   IN [stale EXCEPT ![old.seg][old.app] =
                         [n |-> @.n + 1, bytes |-> @.bytes + old.size]]
              ELSE stale
  /\ recency' = Touch(r.kid)
  /\ bytes_in_use' = [bytes_in_use EXCEPT ![r.app] = (@ + r.size) % Wrap]
  /\ live_items' = [live_items EXCEPT ![r.app] = (@ + 1) % Wrap]
  /\ IF shadow_q[r.app][r.kid] > 0 THEN Steal(r.app) ELSE UNCHANGED credit_bytes
  /\ outcome' = Outcome(r, "miss")
  /\ pc' = "ready"
  /\ UNCHANGED <<inUse, free_segments, head, shadow_q, cleanVars>>

StoreInHead(r) ==
  /\ pc = "ready"
  /\ ~ IsHit(r)
  /\ Fits(head, r.size)
  /\ Store(r)
  /\ UNCHANGED req

(* rollover: the first free segment becomes the head. *)
Rollover(r) ==
  /\ pc = "ready"
  /\ r.size =< SegmentSize
  /\ ~ IsHit(r)
  /\ ~ Fits(head, r.size)
  /\ head' \in FirstFree
  /\ inUse' = inUse \union {head'}
  /\ free_segments' = free_segments - 1
  /\ req' = r
  /\ pc' = IF MustClean(free_segments') THEN "choose" ELSE "append"
  /\ UNCHANGED <<outcome, filled_bytes, app_bytes, itemVars, stale, billVars,
                 credit_bytes, shadow_q, cleanVars>>

(* What clean takes off the bills of a for the sources S; the mutation     *)
(* forgets the superseded items, as if they were skipped before.           *)
DeductLive(S, a) ==
  [n |-> Cardinality(LiveOf(S, a)), bytes |-> Bytes(LiveOf(S, a))]
Deduct(S, a) ==
  [n     |-> Cardinality(LiveOf(S, a)) + StaleSum(S, a, "n"),
   bytes |-> Bytes(LiveOf(S, a)) + StaleSum(S, a, "bytes")]

(* Where the cleaning of S leaves the iterators: an emptied deque's end()  *)
(* is not the end() the iterator reached; the mutation resets them.        *)
ResetIts(S) == [a \in Apps |-> FALSE]
ItsAfter(S) == [a \in Apps |-> LiveOf(S, a) # {}]

(* clean, up to its loop: the sources are chosen, everything they hold is  *)
(* taken off the bills, and the live items are queued, newest first.       *)
StartClean ==
  /\ pc = "choose"
  /\ srcs' \in ChooseCleaningSources
  /\ bytes_in_use' = 
       [a \in Apps |-> (bytes_in_use[a] - Deduct(srcs', a).bytes) % Wrap]
  /\ live_items' = 
       [a \in Apps |-> (live_items[a] - Deduct(srcs', a).n) % Wrap]
  /\ cleaning_it' = ItsAfter(srcs')
  /\ pc' = "clean"
  /\ UNCHANGED <<req, outcome, segVars, head, itemVars, stale, credit_bytes, shadow_q,
                 dst_segments>>

(* The current destination, if there is one and k still fits into it. *)
RoomFor(k) == dst_segments # <<>> /\ Fits(Last(dst_segments), map[k].size)

(* Another destination may be taken; the mutation stops one too early. *)
OneDstLess == Len(dst_segments) < CleaningWidth - 2
DstLeft    == Len(dst_segments) < CleaningWidth - 1

Move(k, s) ==
  /\ Write(s, map[k].app, map[k].size)
  /\ map' = [map EXCEPT ![k].seg = s]
  /\ bytes_in_use' = [bytes_in_use EXCEPT ![map[k].app] = (@ + map[k].size) % Wrap]
  /\ live_items' = [live_items EXCEPT ![map[k].app] = (@ + 1) % Wrap]
  /\ UNCHANGED <<pc, req, outcome, head, recency, stale, credit_bytes, shadow_q,
                 cleaning_it, srcs>>

(* The item moves to the current destination, or to a new one. *)
RelocateToDst(k) ==
  /\ RoomFor(k)
  /\ Move(k, Last(dst_segments))
  /\ UNCHANGED <<inUse, free_segments, dst_segments>>

RelocateToNewDst(k) ==
  /\ ~ RoomFor(k)
  /\ DstLeft
  /\ \E s \in FirstFree :
       /\ Move(k, s)
       /\ inUse' = inUse \union {s}
       /\ dst_segments' = Append(dst_segments, s)
  /\ free_segments' = free_segments - 1

(* One turn of the loop, for the newest queued item of the application     *)
(* that was chosen.                                                        *)
Relocate ==
  /\ pc = "clean"
  /\ \E a \in ChooseSurvivor : \E k \in Newest(Pending(a)) :
       RelocateToDst(k) \/ RelocateToNewDst(k)

(* The loop ends: all queues are drained, or the destinations are full. *)
EndRelocation ==
  /\ pc = "clean"
  /\ \/ Queued = {} /\ dst_segments # <<>>
     \/ \E a \in ChooseSurvivor : \E k \in Newest(Pending(a)) :
          ~ RoomFor(k) /\ ~ DstLeft
  /\ pc' = "evict"
  /\ UNCHANGED <<req, outcome, segVars, head, itemVars, stale, billVars, credit_bytes,
                 shadow_q, cleanVars>>

(* The mutation: a loop that tests dst and tries again. *)
SpinInClean ==
  /\ pc = "clean"
  /\ Queued = {} /\ dst_segments = <<>>
  /\ UNCHANGED vars

(* No queue ever held an item: the statistics on the way out of the loop   *)
(* read dst->filled_bytes, and dst was never set.                          *)
CrashInClean ==
  /\ pc = "clean"
  /\ Queued = {} /\ dst_segments = <<>>
  /\ pc' = "crashed"
  /\ UNCHANGED <<req, outcome, segVars, head, itemVars, stale, billVars, credit_bytes,
                 shadow_q, cleanVars>>

(* lru::remove and lru::try_add_tail on a shadow queue; the mutation takes *)
(* the object's old size for granted.                                      *)
IntoShadowResized(q, k) ==
  IF q[k] > 0 \/ SumFunction(q) + map[k].size =< ShadowCap
  THEN [q EXCEPT ![k] = map[k].size]
  ELSE q

IntoShadow(q, k) ==
  LET rest == [q EXCEPT ![k] = 0]
  IN IF SumFunction(rest) + map[k].size =< ShadowCap
     THEN [rest EXCEPT ![k] = map[k].size]
     ELSE rest

(* The rest of clean: what is queued leaves the hash table for the shadow  *)
(* queue of its application, newest first, and the sources become free.    *)
EndClean ==
  LET gone == UNION {Pending(a) : a \in Apps}
  IN /\ pc = "evict"
     /\ shadow_q' = [a \in Apps |->
          FoldLeft(IntoShadow, shadow_q[a], Keep(recency, Pending(a)))]
     /\ map' = Without(map, gone)
     /\ recency' = Erase(recency, gone)
     /\ inUse' = inUse \ srcs
     /\ free_segments' = free_segments + Cardinality(srcs)
     /\ filled_bytes' = [s \in Segments |-> IF s \in srcs THEN 0 ELSE filled_bytes[s]]
     /\ app_bytes' = [s \in Segments |->
          IF s \in srcs THEN [a \in Apps |-> 0] ELSE app_bytes[s]]
     /\ stale' = [s \in Segments |->
          IF s \in srcs THEN [a \in Apps |-> NoItems] ELSE stale[s]]
     /\ srcs' = {}
     /\ dst_segments' = <<>>
     /\ pc' = "append"
     /\ UNCHANGED <<req, outcome, head, billVars, credit_bytes, cleaning_it>>

(* Back in proc after rollover. *)
StoreAfterRollover ==
  /\ pc = "append"
  /\ Store(req)
  /\ req' = NoRequest

Crashed == pc = "crashed" /\ UNCHANGED vars

Request(r) == Oversize(r) \/ HitInLog(r) \/ StoreInHead(r) \/ Rollover(r)
Proceed == \/ StartClean \/ Relocate \/ EndRelocation \/ CrashInClean
           \/ EndClean \/ StoreAfterRollover

Next == (\E r \in Requests : Request(r)) \/ Proceed \/ Crashed

(* proc runs to its end once called; nothing makes the trace go on. *)
Spec == Init /\ [][Next]_vars /\ WF_vars(Proceed)

-------------------------------------------------------------------------------
(* Type correctness.  No segment is filled beyond its size: neither        *)
(* `assert(dst->filled_bytes + item->req.size() <= stat.segment_size)` in  *)
(* clean nor the commented-out one on the head in proc can fail.           *)
TypeOK ==
  /\ pc \in {"ready", "choose", "clean", "evict", "append", "crashed"}
  /\ req \in Requests \union {NoRequest}
  /\ inUse \subseteq Segments /\ srcs \subseteq Segments
  /\ free_segments \in 0 .. NumSegments
  /\ head \in Segments
  /\ filled_bytes \in [Segments -> 0 .. SegmentSize]
  /\ app_bytes \in [Segments -> [Apps -> Nat]]
  /\ Live \subseteq Keys /\ \A k \in Live : map[k] \in Items
  /\ stale \in [Segments -> [Apps -> [n : Nat, bytes : Nat]]]
  /\ credit_bytes \in [Apps -> Int]
  /\ cleaning_it \in [Apps -> BOOLEAN]
  /\ dst_segments \in Seq(Segments)

(* The item times order every cached object, each once, and a shadow queue *)
(* holds no more than its bytes, whatever sizes its objects come back with.*)
QueuesOK ==
  /\ ToSet(recency) = Live /\ Len(recency) = Cardinality(Live)
  /\ \A a \in Apps : SumFunction(shadow_q[a]) =< ShadowCap

(* The hash table never points into a segment that was given back: clean   *)
(* moves or erases every live item of its sources before it frees them     *)
(* (the check `assert(item.seg != src)` of its debug build), and the       *)
(* cleaner works on sources and destinations that are apart.               *)
NoDangling ==
  /\ \A k \in Live : map[k].seg \in inUse
  /\ head \in inUse
  /\ srcs \subseteq inUse \ {head}
  /\ ToSet(dst_segments) \subseteq inUse \ (srcs \union {head})

(* The counter free_segments is right, and no search for a free segment    *)
(* comes back empty-handed: neither assert(rolled) in rollover nor         *)
(* assert(false) in choose_cleaning_destination can fire, because every    *)
(* cleaning gives back more segments than its destinations took.           *)
FreeSegments ==
  /\ free_segments = Cardinality(Free)
  /\ pc = "ready" => free_segments >= CleaningWidth
  /\ pc \in {"clean", "evict"} =>
       free_segments + Len(dst_segments) = CleaningWidth - 1

(* The fill level of a segment is what its live and its superseded items   *)
(* take together (the checks on `bytes` at the end of clean's debug build; *)
(* the sources keep copies of what was moved until they are freed).        *)
SegmentAccounting ==
  \A s \in Segments \ srcs :
    filled_bytes[s] = Bytes({k \in Live : map[k].seg = s})
                        + SumFunction([a \in Apps |-> stale[s][a].bytes])

(* Between requests and during a cleaning, an application is billed for    *)
(* exactly the items, superseded ones included, that it has in the log     *)
(* outside of the segments being cleaned (the commented-out check          *)
(* `discovered_in_use == bytes_in_use` of clean).                          *)
BillingExact ==
  \A a \in Apps : LET kept == inUse \ srcs
                  IN /\ bytes_in_use[a] = Bytes(LiveOf(kept, a)) + StaleSum(kept, a, "bytes")
                     /\ live_items[a] = Cardinality(LiveOf(kept, a)) + StaleSum(kept, a, "n")

(* choose_cleaning_sources_low_need dereferences the application it found: *)
(* there always is one, since the last cleaning that came to its end had   *)
(* queued an item, and the first one finds the iterators of add_app.       *)
LowNeedAppExists == pc \in {"ready", "choose"} => \E a \in Apps : cleaning_it[a]

(* Stealing never takes an application below its reservation (or below its *)
(* own memory: lsm-sim's option -m hands add_app a reservation in bytes    *)
(* where it takes a percentage, which can exceed it),                      *)
MinMemGuarantee ==
  \A a \in Apps : BytesLimit(a) >= MinMem[a] \/ BytesLimit(a) >= TargetMem[a]

(* and moves credit without making any: the limits always add up to the    *)
(* memory that was handed out.                                             *)
CreditConserved == SumFunction(credit_bytes) = 0

Moved(a) == LiveOf(ToSet(dst_segments), a)

(* The cleaner keeps the newest items of an application: one it moved is   *)
(* newer than any it has left behind.                                      *)
SurvivorsAreNewest ==
  \A a \in Apps : \A j \in Moved(a), k \in Pending(a) : Newer(j, k)

(* While an application at its reservation waits for the cleaner, no item  *)
(* of an application above its own has been given room.                    *)
ReservationPriority ==
  Subpolicy = "NORMAL" =>
    \A a \in Queued : AtReservation(a) =>
      \A b \in Apps : Moved(b) # {} => AtReservation(b)

(* Cleaning throws items away only when its destinations are used up: then *)
(* all of them are taken and, but for the largest object, full.            *)
EvictsOnlyWhenFull ==
  pc = "evict" /\ Queued # {} =>
    /\ Len(dst_segments) = CleaningWidth - 1
    /\ \A s \in ToSet(dst_segments) :
         \E n \in Sizes : n =< SegmentSize /\ ~ Fits(s, n)

(* Under the GREEDY policy the cleaner is a global LRU: whatever it moved, *)
(* of any application, is newer than whatever it leaves behind.            *)
GreedyIsGlobal ==
  Subpolicy = "GREEDY" =>
    \A a, b \in Apps : \A j \in Moved(a), k \in Pending(b) : Newer(j, k)

(* "items that remain in app-spec queues get pushed into shadow queue",    *)
(* whose eviction is LRU (src/NOTES): an object that is thrown away alone, *)
(* and is no larger than the shadow queue, is in it afterwards.            *)
EvictedGoesToShadow ==
  [][pc = "evict" =>
       \A a \in Apps : \A k \in Pending(a) :
         Pending(a) = {k} /\ map[k].size =< ShadowCap => shadow_q'[a][k] = map[k].size]_vars

(* The loop of clean is left through "All done with all its." or for lack  *)
(* of room, whatever the sources held.                                     *)
NoCrash == pc # "crashed"

(* A request that entered the log is stored: proc returns, or the process  *)
(* dies in clean.                                                          *)
RequestCompletes == pc # "ready" ~> pc \in {"ready", "crashed"}

(* The log is a cache as the replay loop expects one.                      *)
C == INSTANCE Cache WITH contents <- [k \in Live |-> map[k].size]
IsCache == C!CacheSpec
===============================================================================
