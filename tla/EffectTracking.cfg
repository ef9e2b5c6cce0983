SPECIFICATION EffectSpec
CONSTANTS
    k1 = k1
    k2 = k2
    Keys <- TwoKeys
    MaxKeyed = 4
    MaxEffects = 2
INVARIANTS
    LatestWins
PROPERTIES
    NoGenerationReturns
CHECK_DEADLOCK FALSE
