----------------------------- MODULE RateLimiter -----------------------------
(***************************************************************************)
(* What connect_rate promises: a bucket of tokens per address, refilled    *)
(* with every tick up to its capacity, and never forgotten.  Levels are    *)
(* counted in grains, so that a tick may add less than a whole token.      *)
(***************************************************************************)
EXTENDS Naturals

CONSTANTS
    IP,         \* client addresses
    Capacity,   \* config.connect_burst, in grains
    Grain,      \* the grains of one token
    Rate        \* config.connect_rate, in grains per tick; 0 disables

VARIABLE level

AtMostFull(n) == IF n > Capacity THEN Capacity ELSE n

Init == level = [ip \in IP |-> Capacity]

(* A connection of ip is let through, for a token.                          *)
Grant(ip) ==
    /\ Rate > 0
    /\ level[ip] >= Grain
    /\ level' = [level EXCEPT ![ip] = @ - Grain]

Refill == level' = [ip \in IP |-> AtMostFull(level[ip] + Rate)]

Next == Refill \/ \E ip \in IP : Grant(ip)

Spec == Init /\ [][Next]_level
=============================================================================
