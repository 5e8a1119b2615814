SPECIFICATION Spec
CONSTANTS
    Process = {p1, p2}
    SessionId = {"x"}
    Letter = {"a", "b"}
    Text <- MCText
    Digest <- MCDigest
    NameRank <- MCNameRank
    Persistent = TRUE
    Budget = 2
    AutoMin = 2
    MaxAuto = 1
    MaxSessions = 2
    SealAt = 2
    MaxCalls = 3
    MaxFaults = 2
    None = None
INVARIANTS
    ServedExact
    EntriesAccounted
    BudgetRestored
    KnownIsRecoverable
SYMMETRY MCSymmetry
CHECK_DEADLOCK FALSE
