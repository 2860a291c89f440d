SPECIFICATION Spec
CONSTANTS
    MaxSequence = 5
    MaxPaste = 3
    Strokes <- BrokenRune
    Garbage <- Silence
    MaxStrokes = 3
INVARIANT TruncatedRuneKeepsItsPlace
