SPECIFICATION FairSpec
CONSTANTS
    d1 = d1
    d2 = d2
    k1 = k1
    Dispatchers <- OneDispatcher
    Configs <- UnboundedOnly
    Budgets <- OneByOne
    Commands <- Quiet
    Keys <- NoKeys
    MaxDispatches = 3
    MaxInternal = 0
    MaxKeyed = 0
    MaxEffects = 0
PROPERTIES
    YieldsWhenExhausted
CHECK_DEADLOCK FALSE
