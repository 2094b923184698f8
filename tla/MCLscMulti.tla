----------------------------- MODULE MCLscMulti -----------------------------
(* Instances of LscMulti for TLC: two applications, three keys. *)
EXTENDS LscMulti

CONSTANTS a1, a2, k1, k2, k3

TwoApps   == {a1, a2}
ThreeKeys == {k1, k2, k3}

(* A request for key k of size s by application a. *)
R(k, s, a) == [kid |-> k, size |-> s, app |-> a]

(* Each key is requested by one application: one object is resized and may *)
(* outgrow a segment, the others keep their size.                          *)
OwnKeys == {R(k1, 1, a1), R(k1, 2, a1), R(k1, 3, a1), R(k2, 1, a1), R(k3, 1, a2)}

(* One object, of changing size, is requested by both applications. *)
SharedKeys == {R(k1, 1, a1), R(k1, 2, a2), R(k1, 1, a2), R(k2, 1, a1), R(k3, 1, a2)}

(* Two units of memory each, of which one is reserved. *)
Target == [a \in TwoApps |-> 2]
Half   == [a \in TwoApps |-> 1]
=============================================================================
