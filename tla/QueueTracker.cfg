SPECIFICATION FairSpec
CONSTANTS
    d1 = d1
    d2 = d2
    Dispatchers <- TwoDispatchers
    Configs <- AllPolicies
    MaxDispatches = 5
    MaxInternal = 1
INVARIANTS
    TypeOK
    InboxIsNewestSuffix
    DepthIsExact
    CapacityRespected
    NoLostWakeup
    NothingVanishes
    DispatchOrder
    Windows
PROPERTIES
    DisplacesOldest
    AcceptedIsSettled
    ImplementsMailbox
CHECK_DEADLOCK FALSE
