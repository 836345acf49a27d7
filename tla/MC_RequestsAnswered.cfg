\* Users without a key, a file named error, and a session that removes files meanwhile.
CONSTANTS
    MaxCounter = 3
    EphPool = 2
    MaxChunks = 1
    Names = {error}
    ErrorName = error
    UserKinds = {"registered", "unknown"}
    HasDirectory = TRUE
    OtherSessions = TRUE
    ClientMayExit = FALSE
    ServerMayExit = FALSE
SPECIFICATION FairSpec
CHECK_DEADLOCK FALSE
PROPERTIES RequestsAnswered
