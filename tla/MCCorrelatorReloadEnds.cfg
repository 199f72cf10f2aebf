CONSTANTS
    Keys = {k1}
    Packets = {p1, p2}
    None = None
    MaxQueue = 1
    MaxHeld = 2
    MaxFlows = 1
    MaxCleanups = 4
    MaxBatch = 1
    MaxLate = 0
    MaxFaults = 0
    MaxReloads = 1
SPECIFICATION Spec
CHECK_DEADLOCK FALSE
PROPERTIES
    ReloadReturns
