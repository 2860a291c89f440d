SPECIFICATION Spec
CONSTANTS
    a = a
    b = b
    x1 = x1
    x2 = x2
    x3 = x3
    x4 = x4
    Conn = {x1, x2, x3, x4}
    IP = {a, b}
    IpOf <- MCIpOf
    MaxPerIp = 2
    Capacity = 4
    Grain = 2
    Rate = 1
    SweepThreshold = 1
INVARIANTS
    TypeOK
    CountsExact
    PerIpBounded
    LiveIsCounted
    ForgottenPeersBounded
PROPERTIES
    RefusedIsDropped
    RateKept
