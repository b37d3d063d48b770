SPECIFICATION Spec
CONSTANTS
    Keys = {k1, k2}
    Handlers = {h1, h2}
    Capacity = 1
    MaxScore = 2
    MaxFails = 1
    NoKey = NoKey
SYMMETRY Symmetry
CONSTRAINT Bound
INVARIANTS TypeOK BoardIsSaved MarkedIsRegistered BoardIsTopN
