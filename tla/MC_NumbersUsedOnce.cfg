\* One user at a time, no faults: a list after the login will do.
CONSTANTS
    MaxCounter = 3
    EphPool = 2
    MaxChunks = 1
    Names = {f1}
    ErrorName = error
    UserKinds = {"registered"}
    HasDirectory = TRUE
    OtherSessions = FALSE
    ClientMayExit = FALSE
    ServerMayExit = FALSE
SPECIFICATION RememberedSpec
CHECK_DEADLOCK FALSE
PROPERTIES NumbersUsedOnce
