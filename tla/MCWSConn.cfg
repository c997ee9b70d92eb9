SPECIFICATION WSSpec
CONSTANTS
    w1 = w1
    w2 = w2
    NoOne = NoOne
    Writers = {w1, w2}
    MaxFrames = 1
    MaxFailedReads = 3
INVARIANT WritesTruthful
PROPERTY ConnectionEnds
CHECK_DEADLOCK FALSE
