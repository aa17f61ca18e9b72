SPECIFICATION StationSpec
CONSTANTS
    d1 = d1 a = a
    Request = {d1}
    Other = {}
    KindOf <- MCKindOf
    FileOf <- MCFileOf
    GoodPin = {}
    Chunks = 2
    MaxChunks = 2
    MaxCalls = 1
    None = None
INVARIANTS RecordingIsWhole
CHECK_DEADLOCK FALSE
