SPECIFICATION Spec
CONSTANTS
    Inputs <- MCInputs
    CHUNK = 3
    RELMAX = 15
    LOOK = 1
    WALKBACK = 2
INVARIANTS
    SpansFollowScalar
    BufferNeverOverrun
    ScalarIsRegex
