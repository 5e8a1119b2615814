CONSTANTS
    Callers = {"c1", "c2"}
    Work <- MCWork
    ChunkTable <- MCChunkTable
    CharsPerWorker = 3
    BytesPerWorker = 2
    Threads = 2
    TokenBytes = 2
    LongPretoken = 12
    MinText = 4
    QuickScan = 2
    AnchorScan = 2
    FloorLow = 1
    FloorHigh = 2
    Stride = 2
    WindowChars = 5
    Margin = 1
    EffectiveLMax = 3
    MaxRetries = 1
    MinMatch = 2
SPECIFICATION Spec
INVARIANTS
    EncodeIsReference
    AppendIsReference
    LazySpansExact
    CutSynchronizes
