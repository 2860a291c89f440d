SPECIFICATION Spec
CONSTANTS
    s1 = s1
    s2 = s2
    c1 = c1
    c2 = c2
    Session = {s1, s2}
    Conn = {c1, c2}
    ConnOf <- MCApart
    MaxSessions = 1
    ShutdownGrace = 1
    StopGraces = {1}
    Timeouts = {"idle_timeout"}
    LateStart = FALSE
PROPERTY
    SilentSessionIsReaped
