---------------------------- MODULE SessionSlots ----------------------------
(***************************************************************************)
(* What the server promises about its session slots, whatever callbacks,   *)
(* timers and coroutines it keeps the promise with: a session is given a   *)
(* slot only while there is one, keeps it until it has ended, gives it     *)
(* back once and for all, and gives it back without fail once its end has  *)
(* been asked for.                                                         *)
(***************************************************************************)
EXTENDS Naturals, FiniteSets

CONSTANTS
    Session,
    MaxSessions

VARIABLE slot     \* "idle" | "held" | "ending" | "freed"

Holders == {s \in Session : slot[s] \in {"held", "ending"}}

Init == slot = [s \in Session |-> "idle"]

Move(S, to) == slot' = [s \in Session |-> IF s \in S THEN to ELSE slot[s]]

Admit(s) ==
    /\ slot[s] = "idle"
    /\ Cardinality(Holders) < MaxSessions
    /\ Move({s}, "held")

(* The end of some sessions is asked for: one by one, or all at once when a *)
(* connection dies or the server drains.                                    *)
Ask(S) ==
    /\ \A s \in S : slot[s] = "held"
    /\ Move(S, "ending")

Free(S) ==
    /\ S \subseteq Holders
    /\ Move(S, "freed")

Next ==
    \/ \E s \in Session : Admit(s)
    \/ \E S \in SUBSET Session : Ask(S) \/ Free(S)

Safety == Init /\ [][Next]_slot

FreeOne(s) == slot[s] = "ending" /\ \E S \in SUBSET Session : s \in S /\ Free(S)

Spec == Safety /\ \A s \in Session : WF_slot(FreeOne(s))
=============================================================================
