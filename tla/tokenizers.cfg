SPECIFICATION Spec
CONSTANTS
    Files <- MCFiles
    Texts <- MCTexts
    AddedSets <- MCAddedSets
    Specials <- MCSpecials
    MaxSetterCalls = 2
    MaxEncodes = 2
    SHORT = 3
    INLINE = 2
    FIRST_LIMIT = 5
    MIN_SLOTS = 4
    PRETOKEN_CHUNK = 3
    Bytes = {0, 1, 2}
    BYTE_VALUES = 4
    SPACE = 2
    Hash <- MCHash
    Nfc <- MCNfc
    Pretokenize <- MCPretokenize
INVARIANTS
    CacheExact
    EncodedExact
CHECK_DEADLOCK FALSE
