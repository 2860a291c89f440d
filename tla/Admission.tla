------------------------------ MODULE Admission ------------------------------
(***************************************************************************)
(* Admission of connections, before authentication: the callbacks of       *)
(* _WijjitSSHServer and the part of SessionRegistry they use - the count   *)
(* of connections per address, the token bucket per address, and the       *)
(* eviction of buckets that have refilled.                                 *)
(*                                                                         *)
(* Time is in ticks and a bucket's level in grains (see RateLimiter).  A   *)
(* bucket stores its level at the last refill that was folded in, and what *)
(* has been earned since: the code computes the latter from the clock.     *)
(***************************************************************************)
EXTENDS Naturals, FiniteSets, Functions

CONSTANTS
    Conn,           \* connection objects, each made at most once
    IP,             \* client addresses
    IpOf,           \* the address each connection comes from
    MaxPerIp,       \* config.max_per_ip
    Capacity,       \* config.connect_burst, in grains
    Grain,          \* the grains of one token
    Rate,           \* config.connect_rate, in grains per tick; 0 disables
    SweepThreshold  \* BUCKET_SWEEP_THRESHOLD

ASSUME AdmissionAssumption ==
    /\ IsFiniteSet(Conn)
    /\ IsFiniteSet(IP)
    /\ IpOf \in [Conn -> IP]
    /\ MaxPerIp \in Nat \ {0}
    /\ Grain \in Nat \ {0}
    /\ Capacity \in Nat
    /\ Capacity >= Grain
    /\ Rate \in Nat
    /\ SweepThreshold \in Nat \ {0}

VARIABLES
    phase,    \* "new" | "counted" | "refused" (before _counted) | "gone"
    parting,  \* refused connections whose _disconnect_now is scheduled
    dropped,  \* connections we have disconnected
    live,     \* WijjitSSH._live
    perIp,    \* SessionRegistry._connections_per_ip
    buckets,  \* SessionRegistry._buckets
    sweepAt   \* SessionRegistry._bucket_sweep_at

vars == << phase, parting, dropped, live, perIp, buckets, sweepAt >>

-----------------------------------------------------------------------------
AtMostFull(n) == IF n > Capacity THEN Capacity ELSE n

Bucket == [tokens : 0 .. Capacity, earned : 0 .. Capacity]

FullBucket == [tokens |-> Capacity, earned |-> 0]

(* TokenBucket.is_full: what it holds and what it has earned.               *)
IsFull(b) == b.tokens + b.earned >= Capacity

(* The level a consume() would find after folding the refill in.            *)
Refilled(b) == AtMostFull(b.tokens + b.earned)

(* connections_from().                                                      *)
Count(ip) == IF ip \in DOMAIN perIp THEN perIp[ip] ELSE 0

(* Mutant: > where check_connection has >=.                                 *)
FullOffByOne(ip) == Count(ip) > MaxPerIp

(* check_connection() finds the address at its limit.                       *)
Full(ip) == Count(ip) >= MaxPerIp

(* The bucket of ip, made on first use.                                     *)
BucketFor(ip) == IF ip \in DOMAIN buckets THEN buckets[ip] ELSE FullBucket

With(f, x, v) == [y \in DOMAIN f \union {x} |-> IF y = x THEN v ELSE f[y]]

Without(f, S) == Restrict(f, DOMAIN f \ S)

Counted(ip) == {c \in Conn : phase[c] = "counted" /\ IpOf[c] = ip}

Init ==
    /\ phase = [c \in Conn |-> "new"]
    /\ parting = {}
    /\ dropped = {}
    /\ live = {}
    /\ perIp = << >>
    /\ buckets = << >>
    /\ sweepAt = SweepThreshold

-----------------------------------------------------------------------------
(* connection_made(): refused for its address's count, which costs the      *)
(* bucket nothing; the goodbye is deferred by a tick of the loop.           *)
RefusedPerIp(c) ==
    /\ phase[c] = "new"
    /\ Full(IpOf[c])
    /\ phase' = [phase EXCEPT ![c] = "refused"]
    /\ parting' = parting \union {c}
    /\ UNCHANGED << dropped, live, perIp, buckets, sweepAt >>

(* connection_made(): the bucket is dry.                                    *)
RefusedByRate(c) ==
    LET ip == IpOf[c]
        found == Refilled(BucketFor(ip))
    IN  /\ phase[c] = "new"
        /\ ~Full(ip)
        /\ Rate > 0
        /\ found < Grain
        /\ buckets' = With(buckets, ip, [tokens |-> found, earned |-> 0])
        /\ phase' = [phase EXCEPT ![c] = "refused"]
        /\ parting' = parting \union {c}
        /\ UNCHANGED << dropped, live, perIp, sweepAt >>

(* connection_made(): let in, for a token if there is a rate, and counted.  *)
Accepted(c) ==
    LET ip == IpOf[c]
        found == Refilled(BucketFor(ip))
    IN  /\ phase[c] = "new"
        /\ ~Full(ip)
        /\ IF Rate > 0
           THEN /\ found >= Grain
                /\ buckets' = With(buckets, ip,
                                   [tokens |-> found - Grain, earned |-> 0])
           ELSE UNCHANGED buckets
        /\ perIp' = With(perIp, ip, Count(ip) + 1)
        /\ phase' = [phase EXCEPT ![c] = "counted"]
        /\ live' = live \union {c}
        /\ UNCHANGED << parting, dropped, sweepAt >>

(* Mutant: disconnect() fails, and nobody aborts the connection.            *)
DisconnectNowGivesUp(c) ==
    /\ c \in parting
    /\ parting' = parting \ {c}
    /\ UNCHANGED << phase, dropped, live, perIp, buckets, sweepAt >>

(* _disconnect_now(), on a connection that may be gone already.             *)
DisconnectNow(c) ==
    /\ c \in parting
    /\ parting' = parting \ {c}
    /\ dropped' = dropped \union {c}
    /\ UNCHANGED << phase, live, perIp, buckets, sweepAt >>

(* Mutant: the bucket goes with the last connection of its address.         *)
ForgetBucketAlways(ip) ==
    /\ buckets' = Without(buckets, {ip})
    /\ UNCHANGED sweepAt

(* Mutant: no sweep.                                                        *)
ForgetBucketUnswept(ip) ==
    /\ buckets' = IF ip \in DOMAIN buckets /\ IsFull(buckets[ip])
                  THEN Without(buckets, {ip}) ELSE buckets
    /\ UNCHANGED sweepAt

(* _forget_bucket(): a refilled bucket need not be remembered; and once     *)
(* there are many, all the refilled ones are swept out.                     *)
ForgetBucket(ip) ==
    LET Kept == {p \in DOMAIN buckets : ~IsFull(buckets[p])}
    IN  IF ip \in DOMAIN buckets /\ IsFull(buckets[ip])
        THEN /\ buckets' = Without(buckets, {ip})
             /\ UNCHANGED sweepAt
        ELSE IF Cardinality(DOMAIN buckets) < sweepAt
        THEN UNCHANGED << buckets, sweepAt >>
        ELSE /\ buckets' = Restrict(buckets, Kept)
             /\ sweepAt' = IF 2 * Cardinality(Kept) > SweepThreshold
                           THEN 2 * Cardinality(Kept) ELSE SweepThreshold

(* Mutant: a count of 0 is kept.                                            *)
ConnectionClosedKeepingZero(ip) ==
    /\ perIp' = With(perIp, ip, IF Count(ip) > 1 THEN Count(ip) - 1 ELSE 0)
    /\ IF Count(ip) > 1 THEN UNCHANGED << buckets, sweepAt >>
                        ELSE ForgetBucket(ip)

(* connection_closed(): the last one out takes the key, and looks at the    *)
(* bucket.                                                                  *)
ConnectionClosed(ip) ==
    IF Count(ip) > 1
    THEN /\ perIp' = With(perIp, ip, Count(ip) - 1)
         /\ UNCHANGED << buckets, sweepAt >>
    ELSE /\ perIp' = Without(perIp, {ip})
         /\ ForgetBucket(ip)

(* Mutant: a refused connection gives back what it never took.              *)
ConnectionLostUncounted(c) ==
    /\ phase[c] \in {"counted", "refused"}
    /\ phase' = [phase EXCEPT ![c] = "gone"]
    /\ live' = live \ {c}
    /\ ConnectionClosed(IpOf[c])
    /\ UNCHANGED << parting, dropped >>

(* Mutant: a lost connection stays in _live.                                *)
ConnectionLostStillLive(c) ==
    /\ phase[c] \in {"counted", "refused"}
    /\ phase' = [phase EXCEPT ![c] = "gone"]
    /\ IF phase[c] = "counted"
       THEN ConnectionClosed(IpOf[c])
       ELSE UNCHANGED << perIp, buckets, sweepAt >>
    /\ UNCHANGED << parting, dropped, live >>

(* connection_lost(), whoever ended it: only what was counted is released.  *)
ConnectionLost(c) ==
    /\ phase[c] \in {"counted", "refused"}
    /\ phase' = [phase EXCEPT ![c] = "gone"]
    /\ live' = live \ {c}
    /\ IF phase[c] = "counted"
       THEN ConnectionClosed(IpOf[c])
       ELSE UNCHANGED << perIp, buckets, sweepAt >>
    /\ UNCHANGED << parting, dropped >>

(* Time passes: every bucket earns its refill.                              *)
Tick ==
    /\ Rate > 0
    /\ buckets' = [ip \in DOMAIN buckets |->
                     [buckets[ip] EXCEPT !.earned = AtMostFull(@ + Rate)]]
    /\ UNCHANGED << phase, parting, dropped, live, perIp, sweepAt >>

Next ==
    \/ \E c \in Conn :
          \/ RefusedPerIp(c) \/ RefusedByRate(c) \/ Accepted(c)
          \/ DisconnectNow(c) \/ ConnectionLost(c)
    \/ Tick

(* A scheduled callback runs, and a connection we dropped is lost.          *)
Fairness ==
    \A c \in Conn : /\ WF_vars(DisconnectNow(c))
                    /\ WF_vars(c \in dropped /\ ConnectionLost(c))

Spec == Init /\ [][Next]_vars /\ Fairness

-----------------------------------------------------------------------------
TypeOK ==
    /\ phase \in [Conn -> {"new", "counted", "refused", "gone"}]
    /\ parting \subseteq Conn
    /\ dropped \subseteq Conn
    /\ live \subseteq Conn
    /\ DOMAIN perIp \subseteq IP
    /\ perIp \in [DOMAIN perIp -> Nat \ {0}]
    /\ DOMAIN buckets \subseteq IP
    /\ buckets \in [DOMAIN buckets -> Bucket]
    /\ sweepAt \in Nat \ {0}

(* The count of an address is that of its connections we let in and have    *)
(* not lost: a refused one never counts and never gives back what it did    *)
(* not take.  In particular no key is left behind by a peer that has gone.  *)
CountsExact == \A ip \in IP : Count(ip) = Cardinality(Counted(ip))

(* max_per_ip, of the connections themselves and not of the count.          *)
PerIpBounded == \A ip \in IP : Cardinality(Counted(ip)) <= MaxPerIp

(* The connections stop() will disconnect are those the limits count: what  *)
(* an address holds against max_per_ip is what _live holds of it.           *)
LiveIsCounted ==
    \A ip \in IP : Count(ip) = Cardinality({c \in live : IpOf[c] = ip})

(* The buckets kept for peers that have left are bounded by the sweep       *)
(* threshold, and that by twice the buckets still throttling at the last    *)
(* sweep: a flood from many addresses does not grow the table for ever.     *)
ForgottenPeersBounded ==
    Cardinality(DOMAIN buckets \ DOMAIN perIp) < sweepAt

(* A refused peer is gone in the end, whether or not it hangs up itself.    *)
RefusedIsDropped == \A c \in Conn : phase[c] = "refused" ~> phase[c] = "gone"

(* The table of buckets that come and go, refilled when looked at, is the   *)
(* limiter that forgets nobody.                                             *)
level == [ip \in IP |-> Refilled(BucketFor(ip))]

Limiter == INSTANCE RateLimiter

RateKept == Limiter!Spec
=============================================================================
