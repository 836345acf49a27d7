\* What the user sees when the server may crash at any step, and the numbers of the messages.
CONSTANTS
    MaxCounter = 3
    EphPool = 2
    MaxChunks = 3
    Names = {f1}
    ErrorName = error
    UserKinds = {"registered", "mismatched", "unreadable"}
    HasDirectory = TRUE
    OtherSessions = FALSE
    ClientMayExit = FALSE
    ServerMayExit = TRUE
SPECIFICATION FairNumberedSpec
CHECK_DEADLOCK FALSE
PROPERTIES ActsAndEnds OperationsFinish NumberedInTurn
