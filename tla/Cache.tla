-------------------------------- MODULE Cache --------------------------------
(***************************************************************************)
(* What every eviction policy of the simulator promises to its caller, the *)
(* replay loop of lsm-sim.cpp.  A cache holds at most one size per key.  A *)
(* request hits exactly when its key is held with its size; any other      *)
(* request installs its own size; and whatever else leaves the cache was   *)
(* evicted, nothing enters it by itself.                                   *)
(***************************************************************************)
EXTENDS Naturals

CONSTANTS Keys,   \* key identifiers (request::kid)
          Sizes   \* object sizes (request::size())

VARIABLES contents,  \* the cached keys, each with the size it is cached with
          outcome    \* the last completed request and what became of it

cvars == <<contents, outcome>>

Outcome(k, s, r) == [kid |-> k, size |-> s, result |-> r]

(* f without the keys of S, and f with k bound to s. *)
Without(f, S) == [x \in DOMAIN f \ S |-> f[x]]
With(f, k, s) == [x \in DOMAIN f \union {k} |-> IF x = k THEN s ELSE f[x]]

CacheInit ==
  /\ contents = [k \in {} |-> 0]
  /\ outcome.result = "none"

(* The key is held with the size asked for: nothing changes. *)
Hit(k, s) ==
  /\ k \in DOMAIN contents
  /\ contents[k] = s
  /\ outcome' = Outcome(k, s, "hit")
  /\ UNCHANGED contents

(* The key is absent, or held with another size that the request replaces: *)
(* other keys may be evicted to make room.                                 *)
Install(k, s) ==
  /\ k \in DOMAIN contents => contents[k] # s
  /\ \E gone \in SUBSET (DOMAIN contents \ {k}) :
        contents' = With(Without(contents, gone), k, s)
  /\ outcome' = Outcome(k, s, "miss")

(* The object cannot be held; room may have been made for it in vain. *)
Refuse(k, s) ==
  /\ \E gone \in SUBSET DOMAIN contents : contents' = Without(contents, gone)
  /\ outcome' = Outcome(k, s, "rejected")

(* The policy gives up objects on its own, between lookup and insertion. *)
Evict ==
  /\ \E gone \in SUBSET DOMAIN contents : contents' = Without(contents, gone)
  /\ UNCHANGED outcome

CacheNext ==
  \/ \E k \in Keys, s \in Sizes : Hit(k, s) \/ Install(k, s) \/ Refuse(k, s)
  \/ Evict

CacheSpec == CacheInit /\ [][CacheNext]_cvars
===============================================================================
