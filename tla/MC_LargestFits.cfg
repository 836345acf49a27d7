\* A file of exactly the limit.
CONSTANTS
    ChunkSize = 3
    MaxFileSize = 12
    Width = 14
    Overhead = 2
    PacketSize = 4
    Capacity = 7
    FileSizes <- TheLimit
SPECIFICATION FairSpec
CHECK_DEADLOCK FALSE
PROPERTIES LargestFits
