------------------------------ MODULE AcceptAny ------------------------------
(***************************************************************************)
(* What the policies of a deployment promise, whoever they are and in      *)
(* whatever order they are asked: a client is accepted if any of them      *)
(* accepts what it offers, and every attempt is reported as it came out.   *)
(***************************************************************************)
CONSTANT Claim    \* what a client may offer

VARIABLES
    phase,    \* "out", "in" or "gone"
    verdict,  \* the last attempt reported, and how
    good,     \* the claims that some policy accepts
    open      \* somebody need not offer anything

vars == << phase, verdict, good, open >>

Init == phase = "out" /\ verdict.ok = FALSE

Judged(c) == verdict' = [claim |-> c, ok |-> c \in good]

(* An attempt ends: the client is in exactly if the claim is good.          *)
Decide(c) ==
    /\ phase = "out"
    /\ Judged(c)
    /\ phase' = IF c \in good THEN "in" ELSE "out"

(* The client only asked whether the claim would do.                        *)
Probe(c) == phase = "out" /\ Judged(c) /\ phase' = "out"

WalkIn == open /\ phase = "out" /\ phase' = "in" /\ UNCHANGED verdict

Leave == phase # "gone" /\ phase' = "gone" /\ UNCHANGED verdict

Next ==
    /\ \/ \E c \in Claim : Decide(c) \/ Probe(c)
       \/ WalkIn
       \/ Leave
    /\ UNCHANGED << good, open >>

Spec == Init /\ [][Next]_vars
=============================================================================
