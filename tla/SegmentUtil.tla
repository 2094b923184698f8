----------------------------- MODULE SegmentUtil -----------------------------
(***************************************************************************)
(* src/src/segment_util.{h,cpp}: how well could a segment made of pages be *)
(* filled when an object may only start on one of the few pages its hashes *)
(* name?  Requests are collected until there are bytes enough; then every  *)
(* object, the largest first, is tried on its pages, and the process ends. *)
(* An object that is larger than what is left of its page goes on into the *)
(* next ones, which must have the room for it.                             *)
(*                                                                         *)
(* A hash of a key is some page: any, for nothing else depends on it.      *)
(***************************************************************************)
EXTENDS Integers, FiniteSetsExt

CONSTANTS
  Keys, Sizes,        \* request::kid and request::size()
  top_data_bound,     \* bytes of objects collected
  page_size, number_of_pages, num_hash_functions

PagesAssumption ==
  /\ Sizes \subseteq Nat \ {0} /\ top_data_bound \in Nat
  /\ {page_size, number_of_pages, num_hash_functions} \subseteq Nat \ {0}

VARIABLES
  pc,          \* "ready", "place" in the loop over objects, "exited" by exit(0)
  objects,     \* objects and allObjects: the size of every key seen
  dataSize,    \* the bytes they take
  todo,        \* the keys the loop has not come to
  pageSizes,   \* how far each page is filled
  bytesCached,
  extent,      \* of each inserted key, its first and last page (not in the code)
  outcome      \* the last request and what became of it

vars == <<pc, objects, dataSize, todo, pageSizes, bytesCached, extent, outcome>>

Pages    == 0 .. number_of_pages - 1
Requests == [kid : Keys, size : Sizes]

Init ==
  /\ pc = "ready" /\ objects = [k \in {} |-> 0] /\ dataSize = 0 /\ todo = {}
  /\ pageSizes = [p \in Pages |-> 0] /\ bytesCached = 0
  /\ extent = [k \in {} |-> 0]
  /\ outcome = [result |-> "none"]

(* proc returns 0 whatever is asked for: nothing is served. *)
Collect(r) ==
  /\ r.size + dataSize =< top_data_bound
  /\ IF r.kid \in DOMAIN objects
     THEN UNCHANGED <<objects, dataSize>>
     ELSE /\ objects' = [k \in DOMAIN objects \union {r.kid} |->
                           IF k = r.kid THEN r.size ELSE objects[k]]
          /\ dataSize' = dataSize + r.size
  /\ outcome' = [kid |-> r.kid, size |-> r.size, result |-> "rejected"]
  /\ UNCHANGED <<pc, todo>>

(* There is enough: the objects are sorted and the loop begins. *)
StartPlacing(r) ==
  /\ r.size + dataSize > top_data_bound
  /\ todo' = DOMAIN objects
  /\ pc' = "place"
  /\ UNCHANGED <<objects, dataSize, outcome>>

Proc(r) ==
  /\ pc = "ready"
  /\ Collect(r) \/ StartPlacing(r)
  /\ UNCHANGED <<pageSizes, bytesCached, extent>>

(* Where an object of size bytes that starts on page p would end: it fills *)
(* the rest of p, whole pages after it, and a tail of one more.            *)
Rest(p)           == page_size - pageSizes[p]
NumPages(size, p) == (size - Rest(p)) \div page_size
Tail(size, p)     == (size - Rest(p)) % page_size
After(size, p)    == p + NumPages(size, p) + 1
LastPage(size, p) ==
  CASE size =< Rest(p)    -> p
    [] Tail(size, p) = 0  -> After(size, p) - 1
    [] OTHER              -> After(size, p)

(* The tests of the loop over the hashes.  When nothing is left for a tail *)
(* the page after the last is looked at all the same; past the end of the  *)
(* vector anything may be read there (beyond), and nothing is added to it. *)
Accepts(size, p, beyond) ==
  /\ pageSizes[p] # page_size
  /\ size > Rest(p) =>
       /\ p + NumPages(size, p) < number_of_pages
       /\ Tail(size, p) > 0 => After(size, p) < number_of_pages
       /\ \A q \in p + 1 .. After(size, p) - 1 : pageSizes[q] = 0
       /\ IF After(size, p) \in Pages
          THEN pageSizes[After(size, p)] + Tail(size, p) =< page_size
          ELSE beyond

Added(size, p, q) ==
  CASE q = p                            -> Min({size, Rest(p)})
    [] q > p /\ q < After(size, p)      -> page_size
    [] q > p /\ q = After(size, p)      -> Tail(size, p)
    [] OTHER                            -> 0

(* One turn of the loop over the objects: one of the largest that are left *)
(* is inserted at the first of its pages that takes it, or nowhere.        *)
Place ==
  /\ pc = "place"
  /\ \E k \in todo, hash \in [1 .. num_hash_functions -> Pages], beyond \in BOOLEAN :
       LET size == objects[k]
           good == {j \in DOMAIN hash : Accepts(size, hash[j], beyond)}
           p    == hash[Min(good)]
       IN /\ \A j \in todo : objects[j] =< size
          /\ todo' = todo \ {k}
          /\ IF good = {}
             THEN UNCHANGED <<pageSizes, bytesCached, extent>>
             ELSE /\ pageSizes' = [q \in Pages |-> pageSizes[q] +
                                     (IF q < p THEN 0 ELSE Added(size, p, q))]
                  /\ bytesCached' = bytesCached + size
                  /\ extent' = [j \in DOMAIN extent \union {k} |->
                                  IF j = k THEN <<p, LastPage(size, p)>> ELSE extent[j]]
  /\ UNCHANGED <<pc, objects, dataSize, outcome>>

(* dump_stats, and exit(0). *)
Exit ==
  /\ pc = "place" /\ todo = {}
  /\ pc' = "exited"
  /\ UNCHANGED <<objects, dataSize, todo, pageSizes, bytesCached, extent, outcome>>

Proceed == Place \/ Exit
Next    == (\E r \in Requests : Proc(r)) \/ Proceed
Spec    == Init /\ [][Next]_vars /\ WF_vars(Proceed)

-------------------------------------------------------------------------------
TypeOK ==
  /\ pc \in {"ready", "place", "exited"}
  /\ DOMAIN objects \subseteq Keys /\ \A k \in DOMAIN objects : objects[k] \in Sizes
  /\ todo \subseteq DOMAIN objects /\ DOMAIN extent \subseteq DOMAIN objects \ todo

(* No page is filled beyond its size (`assert(page_size >=                 *)
(* pageSizes[pageId])`), every byte that is counted as cached lies in a    *)
(* page, and an object in several pages has memory without a gap: two      *)
(* objects share no page but one where the first ends and the second       *)
(* begins, although only fill levels are kept.                             *)
Consistent ==
  /\ \A p \in Pages : pageSizes[p] \in 0 .. page_size
  /\ bytesCached = MapThenSumSet(LAMBDA p : pageSizes[p], Pages)
  /\ bytesCached = MapThenSumSet(LAMBDA k : objects[k], DOMAIN extent)
  /\ dataSize = MapThenSumSet(LAMBDA k : objects[k], DOMAIN objects)
  /\ dataSize =< top_data_bound
  /\ \A j, k \in DOMAIN extent : j # k =>
       extent[j][2] =< extent[k][1] \/ extent[k][2] =< extent[j][1]
===============================================================================
