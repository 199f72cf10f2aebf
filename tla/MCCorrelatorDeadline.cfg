CONSTANTS
    Keys = {k1}
    Packets = {p1, p2}
    None = None
    MaxQueue = 2
    MaxHeld = 2
    MaxFlows = 2
    MaxCleanups = 4
    MaxBatch = 1
    MaxLate = 2
    MaxFaults = 0
    MaxReloads = 0
SPECIFICATION Spec
CHECK_DEADLOCK FALSE
PROPERTIES
    ActorDelayFailsClosed
