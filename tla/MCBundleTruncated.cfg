SPECIFICATION Spec
CONSTANTS
    StringLimit = 30
    Utf8Limit = 30
    ArrayLimit = 30
    UndefArrayLimit = 30
    MapLimit = 30
    UndefMapLimit = 30
    BufferSize = 110
    MaxCalls = 2
    MaxChanges = 1
    MaxBlocks = 2
    MaxHops = 1
    Parts = {"bundle"}
    Payloads <- LongPayloads
    Texts <- PlainTexts
    ObjectsOnly = FALSE
    MaxChunk = 3
    Halfword = 4
    MaxMethod = 4
    MaxLine = 16
    MaxHeaders = 8
    MaxTransfer = 2
    MaxUri = 6
    BufferLimit = 60
    ServedUris <- Served
    Chunk1000 = 3
    MaxRead = 2
    UriIsValid <- WebUri
INVARIANTS NoBeginningIsWhole
CHECK_DEADLOCK FALSE
