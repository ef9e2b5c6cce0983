SPECIFICATION Spec
CONSTANTS
    k1 = k1
    k2 = k2
    k3 = k3
    Keys <- ThreeKeys
    MaxBuilds = 6
INVARIANTS
    TypeOK
    NoDoubleSubscription
    RegistryFollowsModel
PROPERTIES
    RetainedSourcesSurvive
CHECK_DEADLOCK FALSE
