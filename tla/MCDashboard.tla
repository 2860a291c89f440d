---------------------------- MODULE MCDashboard ----------------------------
(* Instances of Dashboard for TLC. *)
EXTENDS Dashboard, TLC

CONSTANTS s1, s2, c1

(* One client with two windows. *)
MCTogether == s1 :> c1 @@ s2 :> c1
=============================================================================
