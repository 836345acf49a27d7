\* Three sessions of one user, a request each, and a server that may be started again.
CONSTANTS
    Sessions = {s1, s2, s3}
    Names = {f1, f2}
    MaxChunks = 2
    OldSizes = {0, 1}
    MaxOps = 1
    MayRestart = TRUE
SYMMETRY Symmetry
SPECIFICATION Spec
CHECK_DEADLOCK FALSE
INVARIANTS TypeOK AloneIsWhole
PROPERTIES AtomicIfSteady NothingLost
