SPECIFICATION Spec
CONSTANTS
    h1 = h1
    h2 = h2
    g1 = g1
    g2 = g2
    Main = Main
    NoOne = NoOne
    Host = {h1, h2}
    Sig = {g1, g2}
    Modes <- MCAllModes
    MaxLive = 2
INVARIANTS
    TypeOK
    RunDrains
PROPERTIES
    StopIsComplete
    StopReturns
    StopReleasesMain
