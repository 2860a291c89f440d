---------------------------- MODULE MCHostKeys ----------------------------
(* Instances of HostKeys for TLC. *)
EXTENDS HostKeys

CONSTANTS p1, p2, p3, k1, k2, k3, k4
===========================================================================
