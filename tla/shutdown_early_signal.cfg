SPECIFICATION Spec
CONSTANTS
    h1 = h1
    h2 = h2
    g1 = g1
    g2 = g2
    Main = Main
    NoOne = NoOne
    Host = {}
    Sig = {g1, g2}
    Modes <- MCRun
    MaxLive = 1
PROPERTY SignalEndsRun
