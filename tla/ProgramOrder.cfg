SPECIFICATION Spec
CONSTANTS
    d1 = d1
    d2 = d2
    k1 = k1
    Dispatchers <- OneDispatcher
    Configs <- UnboundedOnly
    Budgets <- SmallBudgets
    Commands <- EffectCommands
    Keys <- NoKeys
    MaxDispatches = 2
    MaxInternal = 1
    MaxKeyed = 0
    MaxEffects = 1
INVARIANTS
    StrictFifo
CHECK_DEADLOCK FALSE
