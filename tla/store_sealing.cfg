SPECIFICATION Spec
CONSTANTS
    Key <- MCKey
    Char <- MCChar
    Token <- MCToken
    Junk <- MCJunk
    Client = {c1}
    Witness = {"sync", "none"}
    Enc <- MCEnc
    Cuts <- MCCuts
    Guard <- MCGuard
    BlockChars = 5
    SoftCap = 3
    HardCap = 4
    NodeTailCap = 8
    MaxSessions = 1
    ProbeMayFail = TRUE
    MaxChars = 10
    Corpus <- StoreCorpus
    MaxPut = 6
    MaxDelta = 4
    MaxHandle = 2
    MaxGeneration = 2
    MaxCorrupt = 1
INVARIANTS
    IdsExact
    NodeCutsSurvive
    NoInternalError
PROPERTIES
    SealedPrefixStable
