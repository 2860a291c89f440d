SPECIFICATION Spec
CONSTANTS
    p1 = p1
    p2 = p2
    p3 = p3
    k1 = k1
    k2 = k2
    k3 = k3
    k4 = k4
    NoKey = NoKey
    Truncated = Truncated
    Absent = Absent
    Proc = {p1, p2, p3}
    Key = {k1, k2, k3, k4}
    Faults = {"crash", "full_disk"}
INVARIANTS
    TypeOK
    OneIdentity
    ServedIsOnDisk
