-------------------------- MODULE AdmissionProofs --------------------------
(***************************************************************************)
(* What Admission keeps for any number of connections and addresses and    *)
(* any limits: the counts per address are exact, max_per_ip bounds the     *)
(* connections, and the table of buckets is the limiter of RateLimiter.    *)
(***************************************************************************)
EXTENDS Admission, FiniteSetTheorems, TLAPS

(* What the bookkeeping steps do to the count of an address.                *)
LEMMA CountOfWith ==
    ASSUME NEW ip \in IP, NEW p \in IP, NEW n \in Nat,
           perIp' = With(perIp, ip, n)
    PROVE  Count(p)' = IF p = ip THEN n ELSE Count(p)
  BY DEF Count, With

LEMMA CountOfWithout ==
    ASSUME NEW ip \in IP, NEW p \in IP, perIp' = Without(perIp, {ip})
    PROVE  Count(p)' = IF p = ip THEN 0 ELSE Count(p)
  BY DEF Count, Without, Restrict

(* The count of an address that has one is positive.                        *)
LEMMA CountNat == ASSUME TypeOK, NEW ip \in IP
                  PROVE  /\ Count(ip) \in Nat
                         /\ ip \in DOMAIN perIp <=> Count(ip) > 0
  BY DEF TypeOK, Count

(* A bucket made or taken from the table is a bucket.                       *)
LEMMA BucketForType == ASSUME TypeOK, NEW ip \in IP
                       PROVE  BucketFor(ip) \in Bucket
  BY AdmissionAssumption DEF TypeOK, BucketFor, FullBucket, Bucket, AdmissionAssumption

LEMMA RefilledType == ASSUME NEW b \in Bucket PROVE Refilled(b) \in 0 .. Capacity
  BY AdmissionAssumption DEF AdmissionAssumption, Refilled, AtMostFull, Bucket

(* _forget_bucket() takes buckets away and never adds or changes one.       *)
LEMMA ForgetOnlyRemoves ==
    ASSUME TypeOK, NEW ip \in IP, ForgetBucket(ip)
    PROVE  /\ DOMAIN buckets' \subseteq DOMAIN buckets
           /\ \A p \in DOMAIN buckets' : buckets'[p] = buckets[p]
           /\ \A p \in DOMAIN buckets \ DOMAIN buckets' : IsFull(buckets[p])
           /\ buckets' \in [DOMAIN buckets' -> Bucket]
           /\ sweepAt' \in Nat \ {0}
<1>1. CASE ip \in DOMAIN buckets /\ IsFull(buckets[ip])
  BY <1>1 DEF TypeOK, ForgetBucket, Without, Restrict
<1>2. CASE /\ ~(ip \in DOMAIN buckets /\ IsFull(buckets[ip]))
           /\ Cardinality(DOMAIN buckets) < sweepAt
  BY <1>2 DEF TypeOK, ForgetBucket
<1>3. CASE /\ ~(ip \in DOMAIN buckets /\ IsFull(buckets[ip]))
           /\ ~(Cardinality(DOMAIN buckets) < sweepAt)
  <2> DEFINE Kept == {p \in DOMAIN buckets : ~IsFull(buckets[p])}
  <2>1. /\ buckets' = Restrict(buckets, Kept)
        /\ sweepAt' = IF 2 * Cardinality(Kept) > SweepThreshold
                      THEN 2 * Cardinality(Kept) ELSE SweepThreshold
    BY <1>3 DEF ForgetBucket
  <2>2. IsFiniteSet(Kept)
    BY FS_Subset, AdmissionAssumption DEF TypeOK, AdmissionAssumption
  <2>3. Cardinality(Kept) \in Nat
    BY <2>2, FS_CardinalityType
  <2>4. sweepAt' \in Nat \ {0}
    BY <2>1, <2>3, AdmissionAssumption DEF AdmissionAssumption
  <2> QED
    BY <2>1, <2>4 DEF TypeOK, Restrict
<1> QED
  BY <1>1, <1>2, <1>3

-----------------------------------------------------------------------------
LEMMA TypeInit == Init => TypeOK
  BY AdmissionAssumption DEF Init, TypeOK, AdmissionAssumption

LEMMA TypeNext == TypeOK /\ [Next]_vars => TypeOK'
<1> SUFFICES ASSUME TypeOK, [Next]_vars PROVE TypeOK'
  OBVIOUS
<1> USE AdmissionAssumption DEF AdmissionAssumption
<1>1. ASSUME NEW c \in Conn, RefusedPerIp(c) PROVE TypeOK'
  BY <1>1 DEF RefusedPerIp, TypeOK
<1>2. ASSUME NEW c \in Conn, RefusedByRate(c) PROVE TypeOK'
  <2> DEFINE found == Refilled(BucketFor(IpOf[c]))
  <2>1. found \in 0 .. Capacity
    BY BucketForType, RefilledType
  <2>2. [tokens |-> found, earned |-> 0] \in Bucket
    BY <2>1 DEF Bucket
  <2>3. /\ DOMAIN buckets' \subseteq IP
        /\ buckets' \in [DOMAIN buckets' -> Bucket]
    BY <1>2, <2>2 DEF RefusedByRate, With, TypeOK
  <2> QED
    BY <1>2, <2>3 DEF RefusedByRate, TypeOK
<1>3. ASSUME NEW c \in Conn, Accepted(c) PROVE TypeOK'
  <2> DEFINE found == Refilled(BucketFor(IpOf[c]))
  <2>1. found \in 0 .. Capacity
    BY BucketForType, RefilledType
  <2>2. /\ DOMAIN buckets' \subseteq IP
        /\ buckets' \in [DOMAIN buckets' -> Bucket]
    <3>1. CASE Rate > 0
      <4>1. found >= Grain
        BY <1>3, <3>1 DEF Accepted
      <4>2. [tokens |-> found - Grain, earned |-> 0] \in Bucket
        BY <2>1, <4>1 DEF Bucket
      <4> QED
        BY <1>3, <3>1, <4>2 DEF Accepted, With, TypeOK
    <3>2. CASE ~(Rate > 0)
      BY <1>3, <3>2 DEF Accepted, TypeOK
    <3> QED
      BY <3>1, <3>2
  <2>3. Count(IpOf[c]) + 1 \in Nat \ {0}
    BY CountNat
  <2>4. /\ DOMAIN perIp' \subseteq IP
        /\ perIp' \in [DOMAIN perIp' -> Nat \ {0}]
    BY <1>3, <2>3 DEF Accepted, With, TypeOK
  <2> QED
    BY <1>3, <2>2, <2>4 DEF Accepted, TypeOK
<1>4. ASSUME NEW c \in Conn, DisconnectNow(c) PROVE TypeOK'
  BY <1>4 DEF DisconnectNow, TypeOK
<1>5. ASSUME NEW c \in Conn, ConnectionLost(c) PROVE TypeOK'
  <2>1. /\ DOMAIN perIp' \subseteq IP
        /\ perIp' \in [DOMAIN perIp' -> Nat \ {0}]
        /\ DOMAIN buckets' \subseteq IP
        /\ buckets' \in [DOMAIN buckets' -> Bucket]
        /\ sweepAt' \in Nat \ {0}
    <3>1. CASE phase[c] = "counted" /\ Count(IpOf[c]) > 1
      <4>1. Count(IpOf[c]) - 1 \in Nat \ {0}
        BY <3>1, CountNat
      <4>2. /\ perIp' = With(perIp, IpOf[c], Count(IpOf[c]) - 1)
            /\ UNCHANGED << buckets, sweepAt >>
        BY <1>5, <3>1 DEF ConnectionLost, ConnectionClosed
      <4>3. /\ DOMAIN perIp' \subseteq IP
            /\ perIp' \in [DOMAIN perIp' -> Nat \ {0}]
        BY <4>1, <4>2 DEF With, TypeOK
      <4> QED
        BY <4>2, <4>3 DEF TypeOK
    <3>2. CASE phase[c] = "counted" /\ ~(Count(IpOf[c]) > 1)
      <4>1. ForgetBucket(IpOf[c]) /\ perIp' = Without(perIp, {IpOf[c]})
        BY <1>5, <3>2 DEF ConnectionLost, ConnectionClosed
      <4> QED
        BY <4>1, ForgetOnlyRemoves DEF Without, Restrict, TypeOK
    <3>3. CASE phase[c] # "counted"
      BY <1>5, <3>3 DEF ConnectionLost, TypeOK
    <3> QED
      BY <3>1, <3>2, <3>3
  <2> QED
    BY <1>5, <2>1 DEF ConnectionLost, TypeOK
<1>6. ASSUME Tick PROVE TypeOK'
  <2>1. \A ip \in DOMAIN buckets :
           [buckets[ip] EXCEPT !.earned = AtMostFull(@ + Rate)] \in Bucket
    BY DEF TypeOK, Bucket, AtMostFull
  <2> QED
    BY <1>6, <2>1 DEF Tick, TypeOK
<1>7. CASE UNCHANGED vars
  BY <1>7 DEF vars, TypeOK
<1> QED
  BY <1>1, <1>2, <1>3, <1>4, <1>5, <1>6, <1>7 DEF Next

(* The counts, the table of buckets and the state of every connection keep  *)
(* to the values the callbacks give them.                                   *)
THEOREM TypeCorrect == Spec => []TypeOK
  BY TypeInit, TypeNext, PTL DEF Spec

-----------------------------------------------------------------------------
(* The set behind a count, as connections come and go.                      *)
LEMMA CountedFinite == ASSUME NEW ip \in IP
                       PROVE  /\ IsFiniteSet(Counted(ip))
                              /\ Cardinality(Counted(ip)) \in Nat
  BY FS_Subset, FS_CardinalityType, AdmissionAssumption
     DEF Counted, AdmissionAssumption

LEMMA CountsInit == Init => CountsExact
<1> SUFFICES ASSUME Init, NEW ip \in IP
             PROVE  Count(ip) = Cardinality(Counted(ip))
  BY DEF CountsExact
<1>1. Counted(ip) = {}
  BY DEF Init, Counted
<1> QED
  BY <1>1, FS_EmptySet DEF Init, Count

LEMMA CountsNext == TypeOK /\ CountsExact /\ [Next]_vars => CountsExact'
<1> SUFFICES ASSUME TypeOK, CountsExact, [Next]_vars, NEW ip \in IP
             PROVE  Count(ip)' = Cardinality(Counted(ip))'
  BY DEF CountsExact
<1> USE AdmissionAssumption DEF AdmissionAssumption
<1>0. Count(ip) = Cardinality(Counted(ip))
  BY DEF CountsExact
<1>1. ASSUME UNCHANGED perIp, Counted(ip)' = Counted(ip)
      PROVE  Count(ip)' = Cardinality(Counted(ip))'
  BY <1>0, <1>1 DEF Count
<1>2. ASSUME NEW c \in Conn, RefusedPerIp(c) \/ RefusedByRate(c)
      PROVE  Count(ip)' = Cardinality(Counted(ip))'
  BY <1>1, <1>2 DEF RefusedPerIp, RefusedByRate, Counted, TypeOK
<1>3. ASSUME NEW c \in Conn, Accepted(c)
      PROVE  Count(ip)' = Cardinality(Counted(ip))'
  <2>1. /\ perIp' = With(perIp, IpOf[c], Count(IpOf[c]) + 1)
        /\ phase[c] = "new"
        /\ phase' = [phase EXCEPT ![c] = "counted"]
    BY <1>3 DEF Accepted
  <2>2. Count(ip)' = IF ip = IpOf[c] THEN Count(ip) + 1 ELSE Count(ip)
    BY <2>1, CountOfWith, CountNat
  <2>3. CASE ip = IpOf[c]
    <3>1. Counted(ip)' = Counted(ip) \union {c} /\ c \notin Counted(ip)
      BY <2>1, <2>3 DEF Counted, TypeOK
    <3>2. Cardinality(Counted(ip) \union {c}) = Cardinality(Counted(ip)) + 1
      BY <3>1, CountedFinite, FS_AddElement
    <3> QED
      BY <1>0, <2>2, <2>3, <3>1, <3>2
  <2>4. CASE ip # IpOf[c]
    <3>1. Counted(ip)' = Counted(ip)
      BY <2>1, <2>4 DEF Counted, TypeOK
    <3> QED
      BY <1>0, <2>2, <2>4, <3>1
  <2> QED
    BY <2>3, <2>4
<1>4. ASSUME NEW c \in Conn, DisconnectNow(c)
      PROVE  Count(ip)' = Cardinality(Counted(ip))'
  BY <1>1, <1>4 DEF DisconnectNow, Counted
<1>5. ASSUME NEW c \in Conn, ConnectionLost(c)
      PROVE  Count(ip)' = Cardinality(Counted(ip))'
  <2>0. phase' = [phase EXCEPT ![c] = "gone"]
    BY <1>5 DEF ConnectionLost
  <2>1. CASE phase[c] # "counted"
    BY <1>1, <1>5, <2>1 DEF ConnectionLost, Counted, TypeOK
  <2>2. CASE phase[c] = "counted" /\ ip # IpOf[c]
    <3>1. Counted(ip)' = Counted(ip)
      BY <2>0, <2>2 DEF Counted, TypeOK
    <3>2. CASE Count(IpOf[c]) > 1
      <4>1. perIp' = With(perIp, IpOf[c], Count(IpOf[c]) - 1)
        BY <1>5, <2>2, <3>2 DEF ConnectionLost, ConnectionClosed
      <4> QED
        BY <1>0, <2>2, <3>1, <3>2, <4>1, CountOfWith, CountNat
    <3>3. CASE ~(Count(IpOf[c]) > 1)
      <4>1. perIp' = Without(perIp, {IpOf[c]})
        BY <1>5, <2>2, <3>3 DEF ConnectionLost, ConnectionClosed
      <4> QED
        BY <1>0, <2>2, <3>1, <4>1, CountOfWithout
    <3> QED
      BY <3>2, <3>3
  <2>3. CASE phase[c] = "counted" /\ ip = IpOf[c]
    <3>1. Counted(ip)' = Counted(ip) \ {c} /\ c \in Counted(ip)
      BY <2>0, <2>3 DEF Counted, TypeOK
    <3>2. Cardinality(Counted(ip) \ {c}) = Cardinality(Counted(ip)) - 1
      BY <3>1, CountedFinite, FS_RemoveElement
    <3>3. Count(ip)' = Count(ip) - 1
      <4>1. CASE Count(ip) > 1
        <5>1. perIp' = With(perIp, ip, Count(ip) - 1)
          BY <1>5, <2>3, <4>1 DEF ConnectionLost, ConnectionClosed
        <5>2. Count(ip) - 1 \in Nat
          BY <4>1, CountNat
        <5> QED
          BY <5>1, <5>2, CountOfWith
      <4>2. CASE ~(Count(ip) > 1)
        <5>1. Count(ip)' = 0
          <6>1. perIp' = Without(perIp, {ip})
            BY <1>5, <2>3, <4>2 DEF ConnectionLost, ConnectionClosed
          <6> QED
            BY <6>1, CountOfWithout
        <5>2. Count(ip) # 0
          BY <1>0, <3>1, CountedFinite, FS_EmptySet
        <5> QED
          BY <4>2, <5>1, <5>2, CountNat
      <4> QED
        BY <4>1, <4>2
    <3> QED
      BY <1>0, <3>1, <3>2, <3>3
  <2> QED
    BY <2>1, <2>2, <2>3
<1>6. ASSUME Tick PROVE Count(ip)' = Cardinality(Counted(ip))'
  BY <1>1, <1>6 DEF Tick, Counted
<1>7. CASE UNCHANGED vars
  BY <1>1, <1>7 DEF vars, Counted
<1> QED
  BY <1>2, <1>3, <1>4, <1>5, <1>6, <1>7 DEF Next

(* The count of every address is exactly that of its connections we let in  *)
(* and have not lost.                                                       *)
THEOREM CountsAreExact == Spec => []CountsExact
  BY TypeInit, TypeNext, CountsInit, CountsNext, PTL DEF Spec

-----------------------------------------------------------------------------
LEMMA PerIpNext ==
    TypeOK /\ CountsExact /\ PerIpBounded /\ [Next]_vars => PerIpBounded'
<1> SUFFICES ASSUME TypeOK, CountsExact, PerIpBounded, [Next]_vars, NEW ip \in IP
             PROVE  Cardinality(Counted(ip))' <= MaxPerIp
  BY DEF PerIpBounded
<1> USE AdmissionAssumption DEF AdmissionAssumption
<1>0. /\ Cardinality(Counted(ip)) \in Nat
      /\ Cardinality(Counted(ip)) <= MaxPerIp
      /\ IsFiniteSet(Counted(ip))
  BY CountedFinite DEF PerIpBounded
<1>1. ASSUME NEW c \in Conn, Accepted(c), IpOf[c] = ip
      PROVE  Cardinality(Counted(ip))' <= MaxPerIp
  <2>1. Counted(ip)' = Counted(ip) \union {c} /\ c \notin Counted(ip)
    BY <1>1 DEF Accepted, Counted, TypeOK
  <2>2. Cardinality(Counted(ip)) < MaxPerIp
    <3>1. Count(ip) < MaxPerIp
      BY <1>1, CountNat DEF Accepted, Full
    <3> QED
      BY <3>1 DEF CountsExact
  <2>3. Cardinality(Counted(ip) \union {c}) = Cardinality(Counted(ip)) + 1
    BY <1>0, <2>1, FS_AddElement
  <2> QED
    BY <1>0, <2>1, <2>2, <2>3
<1>2. CASE ~ \E c \in Conn : Accepted(c) /\ IpOf[c] = ip
  <2>1. Counted(ip)' \subseteq Counted(ip)
    BY <1>2 DEF Next, vars, RefusedPerIp, RefusedByRate, Accepted,
       DisconnectNow, ConnectionLost, Tick, Counted, TypeOK
  <2>2. /\ Cardinality(Counted(ip)') <= Cardinality(Counted(ip))
        /\ Cardinality(Counted(ip)') \in Nat
    BY <1>0, <2>1, FS_Subset, FS_CardinalityType
  <2> QED
    BY <1>0, <2>2
<1> QED
  BY <1>1, <1>2

LEMMA PerIpInit == Init => PerIpBounded
<1> SUFFICES ASSUME Init, NEW ip \in IP
             PROVE  Cardinality(Counted(ip)) <= MaxPerIp
  BY DEF PerIpBounded
<1>1. Counted(ip) = {}
  BY DEF Init, Counted
<1> QED
  BY <1>1, FS_EmptySet, AdmissionAssumption DEF AdmissionAssumption

(* max_per_ip holds of the connections themselves.                          *)
THEOREM PerIpIsBounded == Spec => []PerIpBounded
  BY TypeInit, TypeNext, CountsInit, CountsNext, PerIpInit, PerIpNext, PTL DEF Spec

-----------------------------------------------------------------------------
(* _live and _counted are set and reset together.                           *)
LiveInv == live = {c \in Conn : phase[c] = "counted"}

LEMMA LiveNext == TypeOK /\ LiveInv /\ [Next]_vars => LiveInv'
  BY DEF Next, vars, RefusedPerIp, RefusedByRate, Accepted, DisconnectNow,
     ConnectionLost, Tick, LiveInv, TypeOK

LEMMA LiveEnough == CountsExact /\ LiveInv => LiveIsCounted
<1> SUFFICES ASSUME CountsExact, LiveInv, NEW ip \in IP
             PROVE  Count(ip) = Cardinality({c \in live : IpOf[c] = ip})
  BY DEF LiveIsCounted
<1>1. {c \in live : IpOf[c] = ip} = Counted(ip)
  BY DEF LiveInv, Counted
<1> QED
  BY <1>1 DEF CountsExact

(* stop() disconnects exactly the connections that count.                   *)
THEOREM LiveAreCounted == Spec => []LiveIsCounted
<1>1. Init => LiveInv
  BY DEF Init, LiveInv
<1> QED
  BY <1>1, TypeInit, TypeNext, CountsInit, CountsNext, LiveNext, LiveEnough, PTL
     DEF Spec

-----------------------------------------------------------------------------
(* Buckets kept for addresses with no connection.                           *)
Forgotten == DOMAIN buckets \ DOMAIN perIp

LEMMA ForgottenFinite == ASSUME TypeOK
                         PROVE  /\ IsFiniteSet(DOMAIN buckets)
                                /\ IsFiniteSet(Forgotten)
                                /\ Cardinality(DOMAIN buckets) \in Nat
                                /\ Cardinality(Forgotten) \in Nat
                                /\ Cardinality(Forgotten) <= Cardinality(DOMAIN buckets)
<1>1. IsFiniteSet(DOMAIN buckets)
  BY FS_Subset, AdmissionAssumption DEF TypeOK, AdmissionAssumption
<1> QED
  BY <1>1, FS_Subset, FS_CardinalityType DEF Forgotten

(* A step under which no bucket loses its connections.                      *)
LEMMA ForgottenShrinks ==
    ASSUME TypeOK, ForgottenPeersBounded, UNCHANGED sweepAt,
           Forgotten' \subseteq Forgotten
    PROVE  ForgottenPeersBounded'
<1>1. /\ Cardinality(Forgotten') \in Nat
      /\ Cardinality(Forgotten') <= Cardinality(Forgotten)
  BY ForgottenFinite, FS_Subset, FS_CardinalityType
<1> QED
  BY <1>1, ForgottenFinite DEF ForgottenPeersBounded, Forgotten, TypeOK

LEMMA ForgottenNext ==
    TypeOK /\ ForgottenPeersBounded /\ [Next]_vars => ForgottenPeersBounded'
<1> SUFFICES ASSUME TypeOK, ForgottenPeersBounded, [Next]_vars
             PROVE  ForgottenPeersBounded'
  OBVIOUS
<1> USE AdmissionAssumption DEF AdmissionAssumption
<1>0. TypeOK'
  BY TypeNext
<1>1. ASSUME NEW c \in Conn, RefusedPerIp(c) \/ DisconnectNow(c)
      PROVE  ForgottenPeersBounded'
  BY <1>1 DEF RefusedPerIp, DisconnectNow, ForgottenPeersBounded
<1>2. ASSUME NEW c \in Conn, RefusedByRate(c) PROVE ForgottenPeersBounded'
  (* A fresh bucket is never dry, so the refused address has one already.   *)
  <2>1. IpOf[c] \in DOMAIN buckets
    BY <1>2 DEF RefusedByRate, BucketFor, FullBucket, Refilled, AtMostFull
  <2>2. Forgotten' = Forgotten /\ UNCHANGED sweepAt
    BY <1>2, <2>1 DEF RefusedByRate, With, Forgotten, TypeOK
  <2> QED
    BY <2>2, ForgottenShrinks
<1>3. ASSUME NEW c \in Conn, Accepted(c) PROVE ForgottenPeersBounded'
  <2>1. /\ DOMAIN perIp' = DOMAIN perIp \union {IpOf[c]}
        /\ DOMAIN buckets' \subseteq DOMAIN buckets \union {IpOf[c]}
        /\ UNCHANGED sweepAt
    BY <1>3 DEF Accepted, With
  <2>2. Forgotten' \subseteq Forgotten
    BY <2>1 DEF Forgotten
  <2> QED
    BY <2>1, <2>2, ForgottenShrinks
<1>4. ASSUME NEW c \in Conn, ConnectionLost(c) PROVE ForgottenPeersBounded'
  <2> DEFINE ip == IpOf[c]
  <2>0. ip \in IP
    OBVIOUS
  <2>1. CASE phase[c] # "counted"
    BY <1>4, <2>1 DEF ConnectionLost, ForgottenPeersBounded
  <2>2. CASE phase[c] = "counted" /\ Count(ip) > 1
    <3>1. /\ perIp' = With(perIp, ip, Count(ip) - 1)
          /\ UNCHANGED << buckets, sweepAt >>
      BY <1>4, <2>2 DEF ConnectionLost, ConnectionClosed
    <3>2. Forgotten' \subseteq Forgotten
      BY <3>1 DEF With, Forgotten
    <3> QED
      BY <3>1, <3>2, ForgottenShrinks
  <2>3. CASE phase[c] = "counted" /\ ~(Count(ip) > 1)
    <3>1. perIp' = Without(perIp, {ip}) /\ ForgetBucket(ip)
      BY <1>4, <2>3 DEF ConnectionLost, ConnectionClosed
    <3>2. CASE ip \in DOMAIN buckets /\ IsFull(buckets[ip])
      <4>1. buckets' = Without(buckets, {ip}) /\ UNCHANGED sweepAt
        BY <3>1, <3>2 DEF ForgetBucket
      <4>2. Forgotten' \subseteq Forgotten
        BY <3>1, <4>1 DEF Without, Restrict, Forgotten
      <4> QED
        BY <4>1, <4>2, ForgottenShrinks
    <3>3. CASE /\ ~(ip \in DOMAIN buckets /\ IsFull(buckets[ip]))
               /\ Cardinality(DOMAIN buckets) < sweepAt
      <4>1. UNCHANGED << buckets, sweepAt >>
        BY <3>1, <3>3 DEF ForgetBucket
      <4>2. /\ Cardinality(Forgotten') \in Nat
            /\ Cardinality(Forgotten') <= Cardinality(DOMAIN buckets)
        <5>1. Forgotten' \subseteq DOMAIN buckets
          BY <4>1 DEF Forgotten
        <5> QED
          BY <5>1, ForgottenFinite, FS_Subset, FS_CardinalityType
      <4> QED
        BY <3>3, <4>1, <4>2, ForgottenFinite
           DEF ForgottenPeersBounded, Forgotten, TypeOK
    <3>4. CASE /\ ~(ip \in DOMAIN buckets /\ IsFull(buckets[ip]))
               /\ ~(Cardinality(DOMAIN buckets) < sweepAt)
      <4> DEFINE Kept == {p \in DOMAIN buckets : ~IsFull(buckets[p])}
      <4>1. /\ buckets' = Restrict(buckets, Kept)
            /\ sweepAt' = IF 2 * Cardinality(Kept) > SweepThreshold
                          THEN 2 * Cardinality(Kept) ELSE SweepThreshold
        BY <3>1, <3>4 DEF ForgetBucket
      <4>2. IsFiniteSet(Kept) /\ Cardinality(Kept) \in Nat
        BY ForgottenFinite, FS_Subset, FS_CardinalityType
      <4>3. DOMAIN buckets' = Kept
        BY <4>1 DEF Restrict
      <4>4. /\ Cardinality(Forgotten') \in Nat
            /\ Cardinality(Forgotten') <= Cardinality(Kept)
        <5>1. Forgotten' \subseteq Kept
          BY <4>3 DEF Forgotten
        <5> QED
          BY <5>1, <4>2, FS_Subset, FS_CardinalityType
      <4>5. Cardinality(Kept) < sweepAt'
        BY <4>1, <4>2
      <4> QED
        BY <4>2, <4>4, <4>5, <1>0 DEF ForgottenPeersBounded, Forgotten, TypeOK
    <3> QED
      BY <3>2, <3>3, <3>4
  <2> QED
    BY <2>1, <2>2, <2>3
<1>5. ASSUME Tick PROVE ForgottenPeersBounded'
  <2>1. Forgotten' = Forgotten /\ UNCHANGED sweepAt
    BY <1>5 DEF Tick, Forgotten
  <2> QED
    BY <2>1, ForgottenShrinks
<1>6. CASE UNCHANGED vars
  BY <1>6 DEF vars, ForgottenPeersBounded
<1> QED
  BY <1>1, <1>2, <1>3, <1>4, <1>5, <1>6 DEF Next

LEMMA ForgottenInit == Init => ForgottenPeersBounded
<1> SUFFICES ASSUME Init PROVE ForgottenPeersBounded
  OBVIOUS
<1>1. DOMAIN buckets \ DOMAIN perIp = {}
  BY DEF Init
<1> QED
  BY <1>1, FS_EmptySet, AdmissionAssumption
     DEF Init, ForgottenPeersBounded, AdmissionAssumption

(* The buckets of peers that have left stay below the sweep threshold.      *)
THEOREM ForgottenAreBounded == Spec => []ForgottenPeersBounded
  BY TypeInit, TypeNext, ForgottenInit, ForgottenNext, PTL DEF Spec

-----------------------------------------------------------------------------
(* Refinement: a bucket that is made late, forgotten when full and refilled *)
(* when looked at has the level of one that is never forgotten.             *)

LEMMA LevelUnchanged ==
    ASSUME \A ip \in IP : Refilled(BucketFor(ip))' = Refilled(BucketFor(ip))
    PROVE  level' = level
  BY DEF level

LEMMA LevelOfForgotten ==
    ASSUME TypeOK, NEW ip \in IP, ForgetBucket(ip), NEW p \in IP
    PROVE  Refilled(BucketFor(p))' = Refilled(BucketFor(p))
<1> USE AdmissionAssumption DEF AdmissionAssumption
<1>1. CASE p \in DOMAIN buckets'
  BY <1>1, ForgetOnlyRemoves DEF BucketFor, Refilled, AtMostFull
<1>2. CASE p \in DOMAIN buckets \ DOMAIN buckets'
  <2>1. IsFull(buckets[p]) /\ buckets[p] \in Bucket
    BY <1>2, ForgetOnlyRemoves DEF TypeOK
  <2> QED
    BY <1>2, <2>1
       DEF BucketFor, Refilled, AtMostFull, IsFull, FullBucket, Bucket
<1>3. CASE p \notin DOMAIN buckets
  BY <1>3, ForgetOnlyRemoves DEF BucketFor, Refilled, AtMostFull
<1> QED
  BY <1>1, <1>2, <1>3

(* Refilling what has been refilled is refilling once.                      *)
LEMMA RefilledAgain ==
    ASSUME NEW t \in 0 .. Capacity, NEW e \in 0 .. Capacity
    PROVE  /\ Refilled([tokens |-> t, earned |-> 0]) = t
           /\ Refilled([tokens |-> t, earned |-> AtMostFull(e + Rate)])
                 = AtMostFull(Refilled([tokens |-> t, earned |-> e]) + Rate)
  BY AdmissionAssumption DEF AdmissionAssumption, Refilled, AtMostFull

LEMMA LevelOfStored ==
    ASSUME TypeOK, NEW ip \in IP, NEW t \in 0 .. Capacity,
           buckets' = With(buckets, ip, [tokens |-> t, earned |-> 0]),
           NEW p \in IP
    PROVE  Refilled(BucketFor(p))' = IF p = ip THEN t ELSE Refilled(BucketFor(p))
<1>1. BucketFor(p)' = IF p = ip THEN [tokens |-> t, earned |-> 0] ELSE BucketFor(p)
  BY DEF BucketFor, With
<1> QED
  BY <1>1, RefilledAgain, AdmissionAssumption
     DEF Refilled, AtMostFull, AdmissionAssumption

(* Letting a connection in takes a token, a tick refills, and nothing else   *)
(* moves a level.                                                           *)
LEMMA LevelStep ==
    ASSUME TypeOK, [Next]_vars
    PROVE  \/ \E c \in Conn :
                 Accepted(c) /\ ((level' = level /\ ~(Rate > 0)) \/ Limiter!Grant(IpOf[c]))
           \/ Tick /\ Limiter!Refill
           \/ level' = level /\ \A c \in Conn : ~(phase[c] = "new" /\ phase'[c] = "counted")
<1> USE AdmissionAssumption DEF AdmissionAssumption
<1>1. ASSUME UNCHANGED buckets PROVE level' = level
  BY <1>1 DEF level, BucketFor, Refilled, AtMostFull
<1> DEFINE Quiet == \A c \in Conn : ~(phase[c] = "new" /\ phase'[c] = "counted")
<1>2. ASSUME NEW c \in Conn, RefusedPerIp(c) \/ DisconnectNow(c)
      PROVE  level' = level /\ Quiet
  BY <1>1, <1>2 DEF RefusedPerIp, DisconnectNow, TypeOK
<1>3. ASSUME NEW c \in Conn, RefusedByRate(c) PROVE level' = level /\ Quiet
  <2> DEFINE found == Refilled(BucketFor(IpOf[c]))
  <2>1. found \in 0 .. Capacity
    BY BucketForType, RefilledType
  <2>2. buckets' = With(buckets, IpOf[c], [tokens |-> found, earned |-> 0])
    BY <1>3 DEF RefusedByRate
  <2>3. ASSUME NEW p \in IP
        PROVE  Refilled(BucketFor(p))' = Refilled(BucketFor(p))
    BY <2>1, <2>2, LevelOfStored
  <2>4. Quiet
    BY <1>3 DEF RefusedByRate, TypeOK
  <2> QED
    BY <2>3, <2>4, LevelUnchanged
<1>4. ASSUME NEW c \in Conn, Accepted(c)
      PROVE  (level' = level /\ ~(Rate > 0)) \/ Limiter!Grant(IpOf[c])
  <2>1. CASE ~(Rate > 0)
    BY <1>1, <1>4, <2>1 DEF Accepted
  <2>2. CASE Rate > 0
    <3> DEFINE ip == IpOf[c]
               found == Refilled(BucketFor(ip))
    <3>1. found \in 0 .. Capacity /\ ip \in IP
      BY BucketForType, RefilledType
    <3>2. /\ found >= Grain
          /\ buckets' = With(buckets, ip, [tokens |-> found - Grain, earned |-> 0])
      BY <1>4, <2>2 DEF Accepted
    <3>3. found - Grain \in 0 .. Capacity
      BY <3>1, <3>2
    <3>4. ASSUME NEW p \in IP
          PROVE  Refilled(BucketFor(p))' =
                   IF p = ip THEN found - Grain ELSE Refilled(BucketFor(p))
      BY <3>1, <3>2, <3>3, LevelOfStored
    <3>5. level' = [level EXCEPT ![ip] = @ - Grain]
      BY <3>1, <3>4 DEF level
    <3>6. level[ip] = found
      BY <3>1 DEF level
    <3> QED
      BY <2>2, <3>2, <3>5, <3>6 DEF Limiter!Grant
  <2> QED
    BY <2>1, <2>2
<1>5. ASSUME NEW c \in Conn, ConnectionLost(c) PROVE level' = level /\ Quiet
  <2>0. Quiet
    BY <1>5 DEF ConnectionLost, TypeOK
  <2>1. CASE UNCHANGED buckets
    BY <1>1, <2>0, <2>1
  <2>2. CASE ForgetBucket(IpOf[c])
    BY <2>0, <2>2, LevelOfForgotten, LevelUnchanged
  <2> QED
    BY <1>5, <2>1, <2>2 DEF ConnectionLost, ConnectionClosed
<1>6. ASSUME Tick PROVE Limiter!Refill
  <2>1. ASSUME NEW p \in IP
        PROVE  Refilled(BucketFor(p))' = AtMostFull(Refilled(BucketFor(p)) + Rate)
    <3>1. CASE p \in DOMAIN buckets
      <4>1. /\ BucketFor(p)' = [buckets[p] EXCEPT !.earned = AtMostFull(@ + Rate)]
            /\ BucketFor(p) = buckets[p]
            /\ buckets[p] \in Bucket
        BY <1>6, <3>1 DEF Tick, BucketFor, TypeOK
      <4> QED
        BY <4>1 DEF Refilled, AtMostFull, Bucket
    <3>2. CASE p \notin DOMAIN buckets
      BY <1>6, <3>2 DEF Tick, BucketFor, FullBucket, Refilled, AtMostFull
    <3> QED
      BY <3>1, <3>2
  <2> QED
    BY <2>1 DEF level, Limiter!Refill, Limiter!AtMostFull, AtMostFull
<1>7. CASE UNCHANGED vars
  BY <1>1, <1>7 DEF vars
<1>8. CASE UNCHANGED phase /\ level' = level
  BY <1>8
<1> QED
  BY <1>2, <1>3, <1>4, <1>5, <1>6, <1>7, <1>8 DEF Next, vars

LEMMA LimiterStep == TypeOK /\ [Next]_vars => [Limiter!Next]_level
  BY LevelStep, AdmissionAssumption DEF Limiter!Next, AdmissionAssumption

LEMMA LimiterInit == Init => Limiter!Init
  BY AdmissionAssumption
     DEF Init, Limiter!Init, level, BucketFor, FullBucket, Refilled, AtMostFull,
         AdmissionAssumption

(* Evicting buckets never gives an address a token it has not earned: the   *)
(* table implements the limiter that forgets nobody.                        *)
THEOREM RateIsKept == Spec => RateKept
  BY TypeInit, TypeNext, LimiterInit, LimiterStep, PTL
     DEF Spec, RateKept, Limiter!Spec

-----------------------------------------------------------------------------
(* What the rate means to one address.  An observer counts, in grains, what  *)
(* its connections were let in for and what time has earned, and starts to  *)
(* count over whenever it likes.                                            *)
LetIn(ip) == \E c \in Conn : IpOf[c] = ip /\ phase[c] = "new" /\ phase'[c] = "counted"

Counts(ip, spent, earned) ==
    \/ spent' = 0 /\ earned' = 0
    \/ /\ spent' = IF LetIn(ip) THEN spent + Grain ELSE spent
       /\ earned' = IF Tick THEN earned + Rate ELSE earned

Observes(ip, spent, earned) ==
    /\ spent = 0 /\ earned = 0
    /\ [][Counts(ip, spent, earned)]_<< vars, spent, earned >>

(* A bucket holds what has not been spent of its capacity and of its        *)
(* earnings, or less: what overflows is lost.                               *)
Covered(ip, spent, earned) ==
    /\ spent \in Nat
    /\ earned \in Nat
    /\ spent + level[ip] <= Capacity + earned

LEMMA LevelType == TypeOK => level \in [IP -> 0 .. Capacity]
  BY BucketForType, RefilledType DEF level

LEMMA LevelMoves ==
    ASSUME TypeOK, Rate > 0, [Next]_vars, NEW ip \in IP
    PROVE  /\ level'[ip] \in 0 .. Capacity
           /\ LetIn(ip) => level'[ip] = level[ip] - Grain
           /\ ~LetIn(ip) => level'[ip] <= IF Tick THEN level[ip] + Rate ELSE level[ip]
<1> USE AdmissionAssumption DEF AdmissionAssumption
<1>0. level \in [IP -> 0 .. Capacity] /\ \A c \in Conn : IpOf[c] \in IP
  BY LevelType
<1> HIDE DEF level
<1>1. ASSUME NEW c \in Conn, Accepted(c), Limiter!Grant(IpOf[c])
      PROVE  /\ level'[ip] \in 0 .. Capacity
             /\ LetIn(ip) => level'[ip] = level[ip] - Grain
             /\ ~LetIn(ip) => level'[ip] <= IF Tick THEN level[ip] + Rate ELSE level[ip]
  <2>1. /\ phase[c] = "new" /\ phase' = [phase EXCEPT ![c] = "counted"]
        /\ level[IpOf[c]] >= Grain
        /\ level' = [level EXCEPT ![IpOf[c]] = level[IpOf[c]] - Grain]
    BY <1>1 DEF Accepted, Limiter!Grant
  <2>2. LetIn(ip) <=> IpOf[c] = ip
    BY <2>1 DEF LetIn, TypeOK
  <2> QED
    BY <1>0, <2>1, <2>2
<1>2. ASSUME Tick, Limiter!Refill
      PROVE  ~LetIn(ip) /\ level'[ip] \in 0 .. Capacity /\ level'[ip] <= level[ip] + Rate
  <2>1. ~LetIn(ip)
    BY <1>2 DEF Tick, LetIn
  <2> QED
    BY <1>0, <1>2, <2>1 DEF Limiter!Refill, Limiter!AtMostFull
<1>3. ASSUME level' = level, \A c \in Conn : ~(phase[c] = "new" /\ phase'[c] = "counted")
      PROVE  ~LetIn(ip) /\ level'[ip] \in 0 .. Capacity
             /\ level'[ip] <= level[ip] /\ level'[ip] <= level[ip] + Rate
  BY <1>0, <1>3 DEF LetIn
<1> QED
  BY <1>1, <1>2, <1>3, LevelStep

(* In whatever stretch of time an address is let in no more often than a     *)
(* full bucket and the refill of that stretch pay for, though its bucket    *)
(* be forgotten and made anew in between.                                   *)
THEOREM RateIsBounded ==
    ASSUME Rate > 0, NEW ip \in IP, NEW VARIABLE spent, NEW VARIABLE earned
    PROVE  Spec /\ Observes(ip, spent, earned) => [](spent <= Capacity + earned)
<1> DEFINE Step == Counts(ip, spent, earned)
           Paid == Covered(ip, spent, earned)
<1> USE AdmissionAssumption DEF AdmissionAssumption
<1>1. Init /\ spent = 0 /\ earned = 0 => Paid
  <2> SUFFICES ASSUME Init, spent = 0, earned = 0 PROVE Paid
    OBVIOUS
  <2>1. level \in [IP -> 0 .. Capacity]
    BY TypeInit, LevelType
  <2> HIDE DEF level
  <2> QED
    BY <2>1 DEF Covered
<1>2. TypeOK /\ Paid /\ [Next]_vars /\ [Step]_<< vars, spent, earned >> => Paid'
  <2> SUFFICES ASSUME TypeOK, Paid, [Next]_vars, [Step]_<< vars, spent, earned >>
               PROVE  Paid'
    OBVIOUS
  <2>1. level[ip] \in 0 .. Capacity
    BY LevelType
  <2>2. /\ level'[ip] \in 0 .. Capacity
        /\ LetIn(ip) => level'[ip] = level[ip] - Grain
        /\ ~LetIn(ip) => level'[ip] <= IF Tick THEN level[ip] + Rate ELSE level[ip]
    BY LevelMoves
  <2>3. CASE spent' = 0 /\ earned' = 0
    <3> HIDE DEF level
    <3> QED
      BY <2>2, <2>3 DEF Covered
  <2>4. CASE /\ spent' = IF LetIn(ip) THEN spent + Grain ELSE spent
             /\ earned' = IF Tick THEN earned + Rate ELSE earned
    <3> HIDE DEF level
    <3> QED
      BY <2>1, <2>2, <2>4 DEF Covered
  <2>5. CASE UNCHANGED << vars, spent, earned >>
    <3>1. level' = level /\ spent' = spent /\ earned' = earned
      BY <2>5 DEF vars, level, BucketFor, Refilled, AtMostFull
    <3> HIDE DEF level
    <3> QED
      BY <3>1 DEF Covered
  <2> QED
    BY <2>3, <2>4, <2>5 DEF Counts
<1>3. TypeOK /\ Paid => spent <= Capacity + earned
  <2> SUFFICES ASSUME TypeOK, Paid PROVE spent <= Capacity + earned
    OBVIOUS
  <2>1. level[ip] \in 0 .. Capacity
    BY LevelType
  <2> HIDE DEF level
  <2> QED
    BY <2>1 DEF Covered
<1> HIDE DEF Paid, Step
<1> QED
  BY <1>1, <1>2, <1>3, TypeCorrect, PTL DEF Spec, Observes, Step, Counts
=============================================================================
