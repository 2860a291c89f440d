---------------------------- MODULE MCAdmission ----------------------------
(* Instances of Admission for TLC: who connects from where.                *)
EXTENDS Admission, TLC

CONSTANTS a, b, x1, x2, x3, x4

(* A peer that insists, and another one. *)
MCIpOf == x1 :> a @@ x2 :> a @@ x3 :> a @@ x4 :> b
=============================================================================
