---------------------------------- MODULE Lsm ----------------------------------
(***************************************************************************)
(* The single-tenant log-structured cache of src/src/lsm.{h,cpp}, with the *)
(* cleaning policy it is built with, OLDEST_ITEM.                          *)
(*                                                                         *)
(* Requests are appended to the head segment.  A request that does not fit *)
(* takes a free segment for the head, and when fewer than cleaning_width   *)
(* are left free the cleaner merges the cleaning_width segments with the   *)
(* lowest low_timestamp: their live items are copied, newest first, into   *)
(* at most cleaning_width - 1 fresh segments, and the rest is thrown away. *)
(*                                                                         *)
(* One call of lsm::proc leads from pc = "ready" back to it: each item the *)
(* cleaner copies is a step.  An assertion that fails aborts the program.  *)
(*                                                                         *)
(* Times are only compared: timeline holds what has a time, newest first:  *)
(* the live items, and the segments at their low_timestamp.  Versions that *)
(* map has left behind count in filled_bytes, and the cleaner drops them.  *)
(***************************************************************************)
EXTENDS Integers, FiniteSetsExt, SequencesExt, Filter

CONSTANTS
  Keys,           \* request::kid
  Requests,       \* the requests of the trace: kid and size
  NumSegments,    \* segments.size()
  SegmentSize,    \* stat.segment_size
  CleaningWidths  \* the values that -w may have

(* The constructor asserts the first; it accepts a width of 1.             *)
ASSUME WidthAssumption ==
  /\ \A w \in CleaningWidths : w \in Nat \ {0} /\ NumSegments > 2 * w
  /\ NumSegments \in Nat /\ SegmentSize \in Nat
  /\ Requests # {} /\ \A r \in Requests : r.kid \in Keys /\ r.size \in Nat \ {0}

VARIABLES
  cleaning_width, \* stat.cleaning_width
  pc,             \* "ready", "choose", "clean", "evict", "append" or "aborted"
  req,            \* the request being stored, when pc # "ready"
  outcome,        \* the last completed request and what became of it
  inUse,          \* the segments that are not nullopt
  free_segments,  \* the counter the code keeps of the others
  head,           \* the segment requests are appended to
  filled_bytes,   \* segment::filled_bytes
  map,            \* kid -> the live item: its segment and size
  timeline,       \* keys and segments by time and low_timestamp, newest first
  srcs,           \* the segments being cleaned
  dst_segments    \* the destinations of this cleaning, the current one last

segVars   == <<inUse, free_segments, filled_bytes>>
itemVars  == <<map, timeline>>
cleanVars == <<srcs, dst_segments>>
vars == <<cleaning_width, pc, req, outcome, segVars, head, itemVars, cleanVars>>

Segments == 1 .. NumSegments
Sizes     == {r.size : r \in Requests}
NoRequest == CHOOSE r \in Requests : TRUE
Item(k)  == [kind |-> "item", id |-> k]
Low(s)   == [kind |-> "low", id |-> s]

Outcome(r, result) == [kid |-> r.kid, size |-> r.size, result |-> result]
Without(f, S)  == [x \in DOMAIN f \ S |-> f[x]]
With(f, k, v)  == [x \in DOMAIN f \union {k} |-> IF x = k THEN v ELSE f[x]]
Place(t, e)    == CHOOSE i \in DOMAIN t : t[i] = e

(* x has a later time than y; a segment that is not on the timeline has    *)
(* the low_timestamp 0.                                                    *)
Later(x, y) ==
  /\ x \in ToSet(timeline)
  /\ y \in ToSet(timeline) => Place(timeline, x) < Place(timeline, y)

Live      == DOMAIN map
LiveIn(S) == {k \in Live : map[k].seg \in S}
Bytes(K)  == SumFunctionOnSet([k \in Live |-> map[k].size], K)

Init ==
  /\ cleaning_width \in CleaningWidths
  /\ pc = "ready" /\ req = NoRequest
  /\ outcome = [result |-> "none"]
  /\ inUse = {1} /\ free_segments = NumSegments - 1 /\ head = 1
  /\ filled_bytes = [s \in Segments |-> 0]
  /\ map = [k \in {} |-> 0] /\ timeline = <<>>
  /\ srcs = {} /\ dst_segments = <<>>

(* A segment is constructed in the first free place. *)
FirstFree == {s \in Segments \ inUse : \A t \in Segments \ inUse : s =< t}
Construct(s) ==
  /\ inUse' = inUse \union {s}
  /\ free_segments' = free_segments - 1

(* Room in a segment; the first form is the mutation that forgets the size. *)
NotFull(s, size) == filled_bytes[s] < SegmentSize
Fits(s, size) == filled_bytes[s] + size =< SegmentSize

-------------------------------------------------------------------------------
(* proc: the item is replaced where it is and gets the time of the         *)
(* request.  The first form is the mutation that does not compare sizes.   *)
IsCached(r) == r.kid \in Live
IsHit(r) == r.kid \in Live /\ map[r.kid].size = r.size
Hit(r) ==
  /\ pc = "ready" /\ IsHit(r)
  /\ timeline' = <<Item(r.kid)>> \o Erase(timeline, {Item(r.kid)})
  /\ outcome' = Outcome(r, "hit")
  /\ UNCHANGED <<pc, req, segVars, head, map, cleanVars>>

(* The item is appended to the head, whether it fits into an empty segment *)
(* or not; an older version stays behind where it is.                      *)
Store(r) ==
  /\ map' = With(map, r.kid, [seg |-> head, size |-> r.size])
  /\ timeline' = <<Item(r.kid)>> \o Erase(timeline, {Item(r.kid)})
  /\ filled_bytes' = [filled_bytes EXCEPT ![head] = @ + r.size]
  /\ outcome' = Outcome(r, "miss")
  /\ pc' = "ready"
  /\ UNCHANGED <<inUse, free_segments, head, cleanVars>>

StoreInHead(r) ==
  /\ pc = "ready" /\ ~ IsHit(r) /\ Fits(head, r.size)
  /\ Store(r)
  /\ UNCHANGED req

StoreAfterRollover == pc = "append" /\ Store(req) /\ req' = NoRequest

(* rollover(r->time): the first free segment is the head from now on.  The *)
(* first form is the mutation that cleans one segment too late.            *)
MustCleanLate(free) == free < cleaning_width - 1
MustClean(free)     == free < cleaning_width

Rollover(r) ==
  /\ pc = "ready" /\ ~ IsHit(r) /\ ~ Fits(head, r.size)
  /\ head' \in FirstFree /\ Construct(head')
  /\ timeline' = <<Low(head')>> \o timeline
  /\ req' = r
  /\ pc' = IF MustClean(free_segments') THEN "choose" ELSE "append"
  /\ UNCHANGED <<outcome, filled_bytes, map, cleanVars>>

-------------------------------------------------------------------------------
(* choose_cleaning_sources_oldest_item: of segments with equal stamps the  *)
(* sort may leave any in front.                                            *)
NonHead  == inUse \ {head}
Sources  ==
  {S \in kSubset(cleaning_width, NonHead) :
     \A s \in S, t \in NonHead \ S : ~ Later(Low(s), Low(t))}

(* clean, up to its loop: the first destination is taken at once. *)
StartClean ==
  /\ pc = "choose"
  /\ srcs' \in Sources
  /\ \E s \in FirstFree : Construct(s) /\ dst_segments' = <<s>>
  /\ pc' = "clean"
  /\ UNCHANGED <<req, outcome, filled_bytes, head, itemVars>>

(* The item the merge of the sources comes to next: the newest one.  The   *)
(* first form is the mutation that compares the other way round.           *)
NextOldest == {k \in LiveIn(srcs) : \A j \in LiveIn(srcs) \ {k} : Later(Item(j), Item(k))}
NextItem   == {k \in LiveIn(srcs) : \A j \in LiveIn(srcs) \ {k} : Later(Item(k), Item(j))}

(* The item goes to the back of segment s, whose low_timestamp becomes its *)
(* time; s is 0 when the item fits nowhere.  The first form is the         *)
(* mutation that keeps the time of the first item.                         *)
RestampOnce(s, k) ==
  IF Low(s) \in ToSet(timeline) THEN timeline
  ELSE LET i == Place(timeline, Item(k))
       IN SubSeq(timeline, 1, i) \o <<Low(s)>> \o SubSeq(timeline, i + 1, Len(timeline))
Restamped(s, k) ==
  LET t == Erase(timeline, {Low(s)})
      i == Place(t, Item(k))
  IN SubSeq(t, 1, i) \o <<Low(s)>> \o SubSeq(t, i + 1, Len(t))

Relocate(k, s) ==
  /\ map' = [map EXCEPT ![k].seg = s]
  /\ filled_bytes' = [filled_bytes EXCEPT ![s] = @ + map[k].size]
  /\ timeline' = Restamped(s, k)
  /\ UNCHANGED <<pc, req, outcome, head, srcs>>

RelocateToDst(k) ==
  /\ pc = "clean" /\ k \in NextItem /\ Fits(Last(dst_segments), map[k].size)
  /\ Relocate(k, Last(dst_segments))
  /\ UNCHANGED <<inUse, free_segments, dst_segments>>

(* "Rollover to new dst", unless there are just cleaning_width - 1. *)
DstLeft == Len(dst_segments) # cleaning_width - 1
RelocateToNewDst(k) ==
  /\ pc = "clean" /\ k \in NextItem /\ ~ Fits(Last(dst_segments), map[k].size)
  /\ DstLeft /\ map[k].size =< SegmentSize
  /\ \E s \in FirstFree :
       /\ Construct(s) /\ Relocate(k, s)
       /\ dst_segments' = Append(dst_segments, s)

(* The loop is left when all is copied, or "if we are out of free space".  *)
(* The first form is the mutation without the latter.                      *)
StopWhenDone ==
  /\ pc = "clean" /\ NextItem = {}
  /\ pc' = "evict"
  /\ UNCHANGED <<req, outcome, segVars, head, itemVars, cleanVars>>
StopRelocation ==
  /\ pc = "clean"
  /\ \A k \in NextItem : ~ Fits(Last(dst_segments), map[k].size) /\ ~ DstLeft
  /\ pc' = "evict"
  /\ UNCHANGED <<req, outcome, segVars, head, itemVars, cleanVars>>

(* What the sources add to free_segments; the first form is the mutation   *)
(* that forgets to count them.                                             *)
FreedNone(S) == 0
Freed(S)     == Cardinality(S)

(* What is left in the sources is taken from the hash table, and the       *)
(* sources are free.                                                       *)
Evict ==
  /\ pc = "evict" /\ pc' = "append"
  /\ map' = Without(map, LiveIn(srcs))
  /\ timeline' = Erase(timeline, {Item(k) : k \in LiveIn(srcs)} \union {Low(s) : s \in srcs})
  /\ inUse' = inUse \ srcs
  /\ free_segments' = free_segments + Freed(srcs)
  /\ filled_bytes' = [s \in Segments |-> IF s \in srcs THEN 0 ELSE filled_bytes[s]]
  /\ srcs' = {} /\ dst_segments' = <<>>
  /\ UNCHANGED <<req, outcome, head>>

(* The assertions: "rolled", that a destination is left, that there are    *)
(* enough sources, and that the item fits into a fresh destination.        *)
Abort ==
  /\ \/ /\ pc = "ready" /\ FirstFree = {}
        /\ \E r \in Requests : ~ IsHit(r) /\ ~ Fits(head, r.size)
     \/ pc = "choose" /\ (FirstFree = {} \/ Sources = {})
     \/ /\ pc = "clean" /\ DstLeft
        /\ \E k \in NextItem : /\ ~ Fits(Last(dst_segments), map[k].size)
                               /\ FirstFree = {} \/ map[k].size > SegmentSize
  /\ pc' = "aborted"
  /\ UNCHANGED <<req, outcome, segVars, head, itemVars, cleanVars>>

Clean ==
  \/ StartClean \/ StopRelocation \/ Evict
  \/ \E k \in Live : RelocateToDst(k) \/ RelocateToNewDst(k)
Proceed == Clean \/ StoreAfterRollover \/ (pc # "ready" /\ Abort)

Next ==
  /\ \/ \E r \in Requests : Hit(r) \/ StoreInHead(r) \/ Rollover(r)
     \/ Proceed \/ Abort
  /\ UNCHANGED cleaning_width

(* proc runs to its end; nothing makes the trace go on. *)
Spec == Init /\ [][Next]_vars /\ WF_vars(Proceed /\ UNCHANGED cleaning_width)

-------------------------------------------------------------------------------
TypeOK ==
  /\ cleaning_width \in CleaningWidths
  /\ pc \in {"ready", "choose", "clean", "evict", "append", "aborted"}
  /\ req \in Requests /\ inUse \subseteq Segments /\ free_segments \in 0 .. NumSegments
  /\ head \in Segments /\ srcs \subseteq Segments /\ dst_segments \in Seq(Segments)
  /\ filled_bytes \in [Segments -> Nat]
  /\ Live \subseteq Keys
  /\ \A k \in Live : map[k] \in [seg : Segments, size : Sizes]

(* The segments are counted right, each live item is in a segment that is  *)
(* in use and on the timeline once, and no segment holds more than its     *)
(* capacity ("none of the segments should contain more data than their     *)
(* rated capacity", the code checks when it debugs) but for a single item  *)
(* that is larger by itself: with a cleaning under way, too.               *)
Consistent ==
  /\ free_segments = NumSegments - Cardinality(inUse)
  /\ head \in inUse
  /\ \A k \in Live : map[k].seg \in inUse
  /\ Len(timeline) = Cardinality(ToSet(timeline))
  /\ {e.id : e \in {x \in ToSet(timeline) : x.kind = "item"}} = Live
  /\ \A s \in Segments :
       /\ Bytes(LiveIn({s})) =< filled_bytes[s]
       /\ filled_bytes[s] > SegmentSize => filled_bytes[s] \in Sizes
       /\ filled_bytes[s] > 0 \/ Low(s) \in ToSet(timeline) => s \in inUse

(* A cleaning always gains a segment: between requests as many are free as *)
(* the next cleaning will need, and no assertion fails but that of an item *)
(* larger than a segment, for which there is no check, and, with a width   *)
(* of 1, that of the first cleaning, which has no destination.             *)
CleaningSuffices ==
  /\ pc \in {"ready", "append"} => free_segments >= cleaning_width
  /\ pc = "aborted" =>
       \/ \E k \in NextItem : map[k].size > SegmentSize
       \/ cleaning_width = 1 /\ srcs = {} /\ free_segments = 0

(* low_timestamp is what its name says: no live item of a segment is       *)
(* older, whichever items were promoted, superseded or copied since.       *)
LowTimestampIsLow == \A k \in Live : ~ Later(Low(map[k].seg), Item(k))

(* What a cleaning throws away is older than all that it has kept.         *)
SurvivorsAreNewest ==
  pc = "evict" =>
    \A k \in LiveIn(srcs), j \in LiveIn(ToSet(dst_segments)) : Later(Item(j), Item(k))

(* The log is a cache as the replay loop expects one: an item may be       *)
(* copied or thrown away in the middle of the request that supersedes it.  *)
C == INSTANCE Cache WITH contents <- [k \in Live |-> map[k].size]
IsCache == C!CacheSpec

(* Every cleaning comes to its end, or is aborted. *)
RequestCompletes == pc \in {"choose", "clean", "evict", "append"} ~> pc \in {"ready", "aborted"}
===============================================================================
