\* No faults: known users, a directory, nobody else.
CONSTANTS
    MaxCounter = 3
    EphPool = 2
    MaxChunks = 2
    Names = {f1, f2}
    ErrorName = error
    UserKinds = {"registered", "mismatched", "unreadable"}
    HasDirectory = TRUE
    OtherSessions = FALSE
    ClientMayExit = FALSE
    ServerMayExit = FALSE
SPECIFICATION Spec
CHECK_DEADLOCK FALSE
INVARIANTS TypeOK NothingRejected InStep NoMutualWait
PROPERTIES UploadComplete DownloadComplete DeleteOnlyConfirmed ActsAtomically
