SPECIFICATION Spec
CONSTANTS
    d1 = d1
    d2 = d2
    k1 = k1
    Dispatchers <- OneDispatcher
    Configs <- DropOldestOne
    Budgets <- OneByOne
    Commands <- BacklogCommands
    Keys <- NoKeys
    MaxDispatches = 5
    MaxInternal = 4
    MaxKeyed = 0
    MaxEffects = 0
INVARIANTS
    MemoryBound
CHECK_DEADLOCK FALSE
