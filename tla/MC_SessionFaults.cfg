\* Either process may be killed, other sessions change the storage, any user logs in.  The one
\* file is named error, so that a list may go unanswered.
CONSTANTS
    MaxCounter = 3
    EphPool = 2
    MaxChunks = 2
    Names = {error}
    ErrorName = error
    UserKinds = {"registered", "mismatched", "unreadable", "unknown"}
    HasDirectory = TRUE
    OtherSessions = TRUE
    ClientMayExit = TRUE
    ServerMayExit = TRUE
SPECIFICATION FairSpec
CHECK_DEADLOCK FALSE
INVARIANTS NothingRejected InStep DialogueInv UploadPrefix
PROPERTIES ThreadEnds
