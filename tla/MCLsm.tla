--------------------------------- MODULE MCLsm ---------------------------------
(* An instance of Lsm for TLC: four objects, of which one outgrows a       *)
(* segment and shrinks again.                                              *)
EXTENDS Lsm

CONSTANTS k1, k2, k3, k4

FourKeys  == {k1, k2, k3, k4}
R(k, s)   == [kid |-> k, size |-> s]
Trace     == {R(k1, 1), R(k1, 3), R(k2, 1), R(k3, 2), R(k4, 1)}
===============================================================================
