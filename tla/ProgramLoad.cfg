SPECIFICATION LoadSpec
CONSTANTS
    d1 = d1
    d2 = d2
    k1 = k1
    Dispatchers <- TwoDispatchers
    Configs <- LoadPolicies
    Budgets <- SmallBudgets
    Commands <- KeyedCommands
    Keys <- OneKey
    MaxDispatches = 8
    MaxInternal = 3
    MaxKeyed = 3
    MaxEffects = 1
INVARIANTS
    FloodsAreBounded
    TrackedWhileMounted
CHECK_DEADLOCK FALSE
