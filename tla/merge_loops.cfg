SPECIFICATION Spec
CONSTANTS
    Symbol <- MCSymbol
    Tables <- MCTables
    Inputs <- MCInputs
    NONE = 255
    NoRank = 65535
    ID_LIMIT = 8
    SHORT_MERGE_MAX = 5
    SMALL_MERGE_MAX = 5
    NARROW = 3
    DENSE = 2
    SLOTS = 8
    MAX_DISPLACEMENT = 2
    Hash <- MCHash
PROPERTY ImplementsPairMerge
CHECK_DEADLOCK FALSE
