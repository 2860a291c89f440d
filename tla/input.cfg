SPECIFICATION FairSpec
CONSTANTS
    MaxSequence = 5
    MaxPaste = 3
    Strokes <- Keyboard
    Garbage <- Noise
    MaxStrokes = 2
INVARIANTS
    TypeOK
    AppSeesTypedKeys
    BufferBounded
    TimerExact
    TerminalRestored
PROPERTY
    AllKeysArrive
