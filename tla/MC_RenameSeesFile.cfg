\* The same; every user has a directory of its own.
CONSTANTS
    f1 = f1
    f2 = f2
    Clients = {c1, c2}
    Names = {f1, f2}
    Dirs <- TwoDirs
    Table = 3
    Earlier = {0, 1}
    MaxRequests = 2
    MaxOps = 1
SPECIFICATION Spec
CHECK_DEADLOCK FALSE
PROPERTIES RenameSeesFile
