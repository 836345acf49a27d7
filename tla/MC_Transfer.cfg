\* Four chunks of three bytes are the limit; every size up to one above it.
CONSTANTS
    ChunkSize = 3
    MaxFileSize = 12
    Width = 14
    Overhead = 2
    PacketSize = 4
    Capacity = 7
    FileSizes <- AllSizes
SPECIFICATION FairSpec
CHECK_DEADLOCK FALSE
INVARIANTS TypeOK CutAlike CopyIsOriginal
PROPERTIES TransferEnds
