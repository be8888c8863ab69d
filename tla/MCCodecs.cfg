SPECIFICATION Spec
CONSTANTS
    StringLimit = 30
    Utf8Limit = 30
    ArrayLimit = 30
    UndefArrayLimit = 30
    MapLimit = 30
    UndefMapLimit = 30
    BufferSize = 80
    MaxCalls = 2
    MaxChanges = 2
    MaxBlocks = 3
    MaxHops = 2
    Parts = {"item", "bundle", "secure", "text", "address", "web"}
    Payloads <- ShortPayloads
    Texts <- PlainTexts
    ObjectsOnly = FALSE
    MaxChunk = 3
    Halfword = 4
    MaxMethod = 4
    MaxLine = 16
    MaxHeaders = 8
    MaxTransfer = 2
    MaxUri = 6
    BufferLimit = 60
    ServedUris <- Served
    Chunk1000 = 3
    MaxRead = 2
    UriIsValid <- WebUri
INVARIANTS Faithful  OwnBundleAccepted StreamIsRead
CHECK_DEADLOCK FALSE
