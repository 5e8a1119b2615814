SPECIFICATION Spec
SYMMETRY Sym
CONSTANTS
    Client = {c1, c2}
    Name = {"m", "n"}
    Char = {"x"}
    Durable = TRUE
    SaveMayFail = TRUE
    EngineMayFail = TRUE
    MaxSessions = 2
    MaxText = 1
    MaxRevision = 1
    MaxHandle = 3
    MaxStarts = 2
CHECK_DEADLOCK FALSE
INVARIANTS
    AckedSurvives
    MemoryMatchesFile
    SingleWriter
    WriterCurrent
