SPECIFICATION FairSpec
CONSTANTS
    Key <- MCKey
    Char <- MCChar
    Token <- MCToken
    Junk <- MCJunk
    Client = {c1, c2}
    Witness = {"sync"}
    Enc <- MCEnc
    Cuts <- MCCuts
    Guard <- MCGuard
    BlockChars = 2
    SoftCap = 3
    HardCap = 4
    NodeTailCap = 4
    MaxSessions = 1
    ProbeMayFail = FALSE
    MaxChars = 6
    Corpus <- ClientCorpus
    MaxPut = 3
    MaxDelta = 2
    MaxHandle = 2
    MaxGeneration = 2
    MaxCorrupt = 0
INVARIANTS
    MirrorExact
    RecordHashCurrent
PROPERTIES
    OperationReturns
