\* Two sessions, a request each.
CONSTANTS
    Sessions = {s1, s2}
    Names = {f1, f2}
    MaxChunks = 2
    OldSizes = {0, 1}
    MaxOps = 1
    MayRestart = FALSE
SYMMETRY Symmetry
SPECIFICATION Spec
CHECK_DEADLOCK FALSE
PROPERTY AnswersTrue
