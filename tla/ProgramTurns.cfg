SPECIFICATION FairTurnSpec
CONSTANTS
    d1 = d1
    d2 = d2
    k1 = k1
    Dispatchers <- OneDispatcher
    Configs <- DrainPolicies
    Budgets <- SmallBudgets
    Commands <- DrainCommands
    Keys <- NoKeys
    MaxDispatches = 3
    MaxInternal = 3
    MaxKeyed = 0
    MaxEffects = 1
INVARIANTS
    TypeOK
    NothingStranded
    SubscriptionsFollowModel
    InternalsAreDelivered
    DrainsUseTheirBudget
    AnswersNeverOvertake
    InitComesFirst
PROPERTIES
    ImplementsQueue
    EveryMessageSettled
CHECK_DEADLOCK FALSE
