SPECIFICATION Spec
CONSTANTS
    h1 = h1
    h2 = h2
    g1 = g1
    g2 = g2
    Main = Main
    NoOne = NoOne
    Host = {h1, h2}
    Sig = {}
    Modes <- MCCancelled
    MaxLive = 1
PROPERTY StopAlwaysCompletes
