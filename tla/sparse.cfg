SPECIFICATION Spec
CONSTANTS
    FileHdr = 28
    ChunkHdr = 12
    FillBytes = 4
    BlockSize = 64
    RawPart = 256
    Limit = 448
    Zero = 0
    Keep = Keep
    Old = Old
    Images <- AllImages
    Paths = {"blob", "buffer"}
    MaxChunks = 3
    MaxRaw = 9
CHECK_DEADLOCK FALSE
INVARIANTS
    WritesImage
    PiecesWithinLimit
    RefusesOnlyDamaged
