\* src/utils/Config.h and src/messages/Authentication.h, but for the chunks
CONSTANTS
    CodeLen = 1
    NumLen = 4
    NameLen = 35
    PacketSize = 71
    IvLen = 12
    AadLen = 4
    TagLen = 16
    KeyLen = 1024
    SigLen = 128
    CertLen = 1500
    ChunkSize = 1000
    Names <- TypedNames
    FileSizes = {0, 1, 1000, 2500}
    ListLens = {0, 1, 80}
SPECIFICATION Spec
INVARIANTS TypeOK ReadAsWritten WithinBuffers NothingLeft SomeoneSends
