CONSTANTS
    Keys = {k1}
    Packets = {p1, p2, p3}
    None = None
    MaxQueue = 2
    MaxHeld = 2
    MaxFlows = 2
    MaxCleanups = 1
    MaxBatch = 1
    MaxLate = 1
    MaxFaults = 0
    MaxReloads = 0
SPECIFICATION Spec
SYMMETRY PacketSymmetry
CHECK_DEADLOCK FALSE
INVARIANTS
    TypeOK
    CopyReachesOwnFlow
    LimitsHold
    StagedTokenIsTracked
PROPERTIES
    AcceptInOrder
    ActivateWithNothingHeld
    FreshTokenSurvives
