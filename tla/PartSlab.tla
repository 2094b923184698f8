------------------------------- MODULE PartSlab -------------------------------
(***************************************************************************)
(* The shadow queue cut into partitions, src/src/partslab.{h,cpp}: a key   *)
(* goes to the partition its hash names, and a distance there stands for   *)
(* one that is so many times larger.                                       *)
(***************************************************************************)
EXTENDS ShadowQueue

CONSTANT partitions   \* stat.partitions

VARIABLES
  klassOf,    \* the hash of each key, modulo the partitions
  parts,      \* partition -> the queue of its shadowlru
  partBytes,  \* partition -> the bytes_cached of its shadowlru
  curve       \* what the last call of proc has added to size_curve

vars == <<klassOf, parts, partBytes, curve>>

Klasses == 0 .. partitions - 1

Init ==
  /\ klassOf \in [Keys -> Klasses]
  /\ parts = [p \in Klasses |-> <<>>] /\ partBytes = [p \in Klasses |-> 0]
  /\ curve = [entry |-> "none"]

(* proc: the first object of a partition is not counted. *)
Proc(r) ==
  LET p        == klassOf[r.kid]
      distance == SizeDistance(parts[p], r.kid)
  IN /\ parts' = [parts EXCEPT ![p] = <<r>> \o Drop(@, r.kid)]
     /\ partBytes' = [partBytes EXCEPT ![p] = @ - BytesOf(parts[p], r.kid) + r.size]
     /\ curve' = IF distance = PROC_MISS THEN curve
                 ELSE [entry |-> "hit", at |-> (distance * partitions) + p]
     /\ UNCHANGED klassOf

Next == \E r \in Requests : Proc(r)
Spec == Init /\ [][Next]_vars

-------------------------------------------------------------------------------
TypeOK == klassOf \in [Keys -> Klasses] /\ \A p \in Klasses : parts[p] \in Seq(Requests)

(* The partitions hold their own keys, each once, and count their bytes.   *)
Consistent ==
  \A p \in Klasses :
    /\ \A i \in DOMAIN parts[p] : klassOf[parts[p][i].kid] = p
    /\ Cardinality(KeysOf(parts[p])) = Len(parts[p])
    /\ partBytes[p] = SizeOf(parts[p])
===============================================================================
