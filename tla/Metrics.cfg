SPECIFICATION Spec
CONSTANTS
    p1 = p1
    p2 = p2
    t1 = t1
    t2 = t2
    Programs <- TwoPrograms
    Threads <- OneThread
    Labels <- Shared
    LabelOf <- AllShared
    MaxDepth = 2
    MaxSubscriptions = 1
INVARIANTS
    TypeOK
    SeriesIsSum
    SubscriptionsExact
    ForegroundSettled
