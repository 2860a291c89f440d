----------------------------- MODULE MCSessions -----------------------------
(* Instances of Sessions for TLC: which connection carries which session.  *)
EXTENDS Sessions, TLC

CONSTANTS s1, s2, c1, c2

(* Two clients with one session each. *)
MCApart == s1 :> c1 @@ s2 :> c2

(* One client multiplexing both sessions over a single connection. *)
MCTogether == s1 :> c1 @@ s2 :> c1
=============================================================================
