-------------------------------- MODULE Lruk --------------------------------
(***************************************************************************)
(* The K-queue LRU of src/src/lruk.{h,cpp}.  An object enters queue 0 and  *)
(* moves up one queue with each hit.  What has to leave a full queue moves *)
(* down one queue, where it may push out others in turn; what leaves queue *)
(* 0 leaves the cache.                                                     *)
(*                                                                         *)
(* One call of Lruk::proc leads from pc = "ready" back to it; each of the  *)
(* nested calls of Lruk::insert it ends with is a step.  An assertion that *)
(* fails aborts the program: pc = "aborted".                               *)
(***************************************************************************)
EXTENDS Integers, FiniteSetsExt, SequencesExt, Filter

CONSTANTS
  Keys,             \* request::kid
  Sizes,            \* request::size()
  K_LRU,            \* the number of queues
  KLRU_QUEUE_SIZE   \* the bytes each may hold

QueuesAssumption ==
  /\ K_LRU \in Nat \ {0} /\ KLRU_QUEUE_SIZE \in Nat
  /\ Sizes \subseteq Nat \ {0}

VARIABLES
  pc,          \* "ready", "insert" or "aborted"
  call,        \* the arguments of the next call of insert, when pc = "insert"
  kLru,        \* the queues, newest first
  kLruSizes,   \* the bytes counted for each
  allObjects,  \* kid -> its size and its queue
  hits,        \* kid -> its hits since it was cached (not in the code)
  outcome      \* the last request and what became of it

vars == <<pc, call, kLru, kLruSizes, allObjects, hits, outcome>>

Levels   == 0 .. K_LRU - 1
Requests == [kid : Keys, size : Sizes]
NoCall   == [objects |-> <<>>, sum |-> 0, k |-> 0, updateWrites |-> TRUE]

Outcome(r, result) == [kid |-> r.kid, size |-> r.size, result |-> result]
SizeOf(q) == SumFunctionOnSet([k \in DOMAIN allObjects |-> allObjects[k].size], ToSet(q))
Bind(f, k, v) == [x \in DOMAIN f \union {k} |-> IF x = k THEN v ELSE f[x]]
Unbind(f, K)  == [x \in DOMAIN f \ K |-> f[x]]

Init ==
  /\ pc = "ready" /\ call = NoCall /\ outcome = [result |-> "none"]
  /\ kLru = [k \in Levels |-> <<>>] /\ kLruSizes = [k \in Levels |-> 0]
  /\ allObjects = [k \in {} |-> 0] /\ hits = [k \in {} |-> 0]

(* The requested object comes out of its queue, whatever its size is now.  *)
(* The first form is the mutation that does not give back its bytes.       *)
TakeOutLeaky(kid) ==
  LET qN == allObjects[kid].queueNumber
  IN /\ kLru' = [kLru EXCEPT ![qN] = Erase(@, {kid})]
     /\ UNCHANGED kLruSizes
TakeOut(kid) ==
  LET qN == allObjects[kid].queueNumber
  IN /\ kLru' = [kLru EXCEPT ![qN] = Erase(@, {kid})]
     /\ kLruSizes' = [kLruSizes EXCEPT ![qN] = @ - allObjects[kid].size]

Insert(objects, sum, k, updateWrites) ==
  /\ pc' = "insert"
  /\ call' = [objects |-> objects, sum |-> sum, k |-> k, updateWrites |-> updateWrites]

(* A hit: "if ((qN + 1) != K_LRU) qN++", else the object stays in the last *)
(* queue.  The first form is the mutation that moves it up by two.         *)
PromotedTwice(qN) == Min({qN + 2, K_LRU - 1})
Promoted(qN)      == Min({qN + 1, K_LRU - 1})
IsHit(r) == r.kid \in DOMAIN allObjects /\ allObjects[r.kid].size = r.size

Hit(r) ==
  /\ IsHit(r)
  /\ TakeOut(r.kid)
  /\ LET qN == allObjects[r.kid].queueNumber
     IN Insert(<<r.kid>>, r.size, Promoted(qN), qN + 1 # K_LRU)
  /\ hits' = [hits EXCEPT ![r.kid] = Min({@ + 1, K_LRU - 1})]
  /\ outcome' = Outcome(r, "hit")
  /\ UNCHANGED allObjects

Miss(r) ==
  /\ ~ IsHit(r)
  /\ IF r.kid \in DOMAIN allObjects THEN TakeOut(r.kid)
                                    ELSE UNCHANGED <<kLru, kLruSizes>>
  /\ allObjects' = Bind(allObjects, r.kid, [size |-> r.size, queueNumber |-> 0])
  /\ Insert(<<r.kid>>, r.size, 0, TRUE)
  /\ hits' = Bind(hits, r.kid, 0)
  /\ outcome' = Outcome(r, "miss")

Proc(r) == pc = "ready" /\ (Hit(r) \/ Miss(r))

(* How many objects of queue k stay when sum bytes are to be added: those  *)
(* at its end are popped until there is room, or for ever when an empty    *)
(* queue has not enough.                                                   *)
Stays(k, sum) ==
  {n \in 0 .. Len(kLru[k]) :
     sum + kLruSizes[k] - SizeOf(SubSeq(kLru[k], n + 1, Len(kLru[k]))) =< KLRU_QUEUE_SIZE}

(* The queue the popped objects go to; the first form is a mutation.       *)
SameLevel(k)  == k
NextLevel(k) == k - 1

(* Queue k with objects added at its front, the last one first. *)
Pushed(objects, stay) == Reverse(objects) \o stay

(* One call of insert that finds room: the popped objects are passed on to *)
(* the next call, or thrown away below queue 0.                            *)
InsertCall ==
  /\ pc = "insert" /\ Stays(call.k, call.sum) # {}
  /\ LET k      == call.k
         n      == Max(Stays(k, call.sum))
         popped == SubSeq(kLru[k], n + 1, Len(kLru[k]))
         placed == [x \in DOMAIN allObjects |->
                      IF x \in ToSet(call.objects)
                      THEN [allObjects[x] EXCEPT !.queueNumber = k] ELSE allObjects[x]]
     IN /\ call.updateWrites \/ popped = <<>>
        /\ kLru' = [kLru EXCEPT ![k] = Pushed(call.objects, SubSeq(@, 1, n))]
        /\ kLruSizes' = [kLruSizes EXCEPT ![k] =
                           @ - SizeOf(popped) + SizeOf(call.objects)]
        /\ \/ /\ k > 0 /\ popped # <<>>
              /\ Insert(Reverse(popped), SizeOf(popped), NextLevel(k), TRUE)
              /\ allObjects' = placed /\ UNCHANGED hits
           \/ /\ k = 0 \/ popped = <<>>
              /\ pc' = "ready" /\ call' = NoCall
              /\ allObjects' = Unbind(placed, ToSet(popped))
              /\ hits' = Unbind(hits, ToSet(popped))
  /\ UNCHANGED outcome

(* assert(kLruSizes[k] > 0) after everything was popped, or                *)
(* assert(newObjects.size() == 0) for an object that stays in its queue.   *)
Abort ==
  /\ pc = "insert"
  /\ Stays(call.k, call.sum) # {} =>
       /\ ~ call.updateWrites
       /\ Max(Stays(call.k, call.sum)) < Len(kLru[call.k])
  /\ pc' = "aborted"
  /\ UNCHANGED <<call, kLru, kLruSizes, allObjects, hits, outcome>>

Proceed == InsertCall \/ Abort
Next == (\E r \in Requests : Proc(r)) \/ Proceed

(* The nested calls come to their end; nothing makes the trace go on. *)
Spec == Init /\ [][Next]_vars /\ WF_vars(Proceed)

-------------------------------------------------------------------------------
TypeOK ==
  /\ pc \in {"ready", "insert", "aborted"}
  /\ DOMAIN allObjects \subseteq Keys /\ DOMAIN hits = DOMAIN allObjects
  /\ \A k \in DOMAIN allObjects :
       allObjects[k] \in [size : Sizes, queueNumber : Levels]
  /\ kLru \in [Levels -> Seq(Keys)] /\ kLruSizes \in [Levels -> Nat]
  /\ call.objects \in Seq(Keys) /\ call.k \in Levels

QueueOf(q) == {k \in DOMAIN allObjects \ ToSet(call.objects) : allObjects[k].queueNumber = q}

(* Every object is in one place of one queue, the one its queueNumber      *)
(* says, or on its way from one to another; a queue counts what it holds   *)
(* and holds no more than KLRU_QUEUE_SIZE, all the way down a cascade.     *)
Consistent ==
  \A k \in Levels :
    /\ ToSet(kLru[k]) = QueueOf(k) /\ Len(kLru[k]) = Cardinality(QueueOf(k))
    /\ kLruSizes[k] = SizeOf(kLru[k]) /\ kLruSizes[k] =< KLRU_QUEUE_SIZE

(* The assertions of insert only fail for a request that is larger than a *)
(* queue: what a full queue passes down always finds room, and a hit in    *)
(* the last queue pushes nothing out.                                      *)
AbortsOnlyOversize ==
  pc = "aborted" => call.k = 0 /\ call.sum > KLRU_QUEUE_SIZE

(* An object is in queue q only if it was hit q times since it was cached: *)
(* being pushed around by others never moves it up.                        *)
PromotionIsEarned ==
  \A k \in DOMAIN allObjects : allObjects[k].queueNumber =< hits[k]

(* What the replay loop sees of the queues. *)
Contents == [k \in DOMAIN allObjects |-> allObjects[k].size]
===============================================================================
