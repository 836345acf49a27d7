\* Two connections and the last two or three descriptors.
CONSTANTS
    f1 = f1
    f2 = f2
    Clients = {c1, c2}
    Names = {f1, f2}
    Dirs <- TwoDirs
    Table = 3
    Earlier = {0, 1}
    MaxRequests = 2
    MaxOps = 1
SPECIFICATION FairSpec
CHECK_DEADLOCK FALSE
INVARIANTS TypeOK NothingKept InstanceComplete LoginsAgree
PROPERTIES LossOnlyWhenFull Served
