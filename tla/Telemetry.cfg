SPECIFICATION Spec
CONSTANTS
    Threads <- MCThreads
    Policies <- MCPolicies
    Keys <- MCKeys
    Sources <- MCSources
    Threshold = 1
    MaxDepth = 2
    MaxKeyed = 2
    MaxEffects = 1
INVARIANTS
    TypeOK
    ObserversKnow
    CountersBalance
