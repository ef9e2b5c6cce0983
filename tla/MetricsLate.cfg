SPECIFICATION Spec
CONSTANTS
    p1 = p1
    p2 = p2
    t1 = t1
    t2 = t2
    Programs <- OneProgram
    Threads <- OneThread
    Labels <- Shared
    LabelOf <- AllShared
    MaxDepth = 1
    MaxSubscriptions = 1
INVARIANTS
    UnmountedGone
