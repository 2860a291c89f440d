SPECIFICATION DashboardSpec
CONSTANTS
    s1 = s1
    s2 = s2
    c1 = c1
    Session = {s1, s2}
    Conn = {c1}
    ConnOf <- MCTogether
    MaxSessions = 2
    ShutdownGrace = 0
    StopGraces = {0, 1}
    Timeouts = {}
    LateStart = FALSE
INVARIANTS
    DashboardTypeOK
    ViewersAreLive
PROPERTIES
    SamplingEnds
    ViewersGetReadings
