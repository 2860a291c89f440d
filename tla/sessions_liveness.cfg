SPECIFICATION Spec
CONSTANTS
    s1 = s1
    s2 = s2
    c1 = c1
    c2 = c2
    Session = {s1, s2}
    Conn = {c1}
    ConnOf <- MCTogether
    MaxSessions = 2
    ShutdownGrace = 1
    StopGraces = {0, 1}
    Timeouts = {}
    LateStart = FALSE
PROPERTIES
    SlotsKept
    PeerGoneFreesSlot
    StopTerminates
    StopEndsApps
