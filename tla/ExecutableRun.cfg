SPECIFICATION Spec
CONSTANTS
    Program <- MCProgram
    Weights = {w1, w2}
    MaxRuns = 3
    MaxFaults = 2
    None = None
INVARIANTS
    VerdictTruthful
    RegionTableSound
PROPERTIES
    ImplementsStream
CHECK_DEADLOCK FALSE
