CONSTANTS
    Keys = {k1, k2}
    Packets = {p1, p2}
    None = None
    MaxQueue = 2
    MaxHeld = 2
    MaxFlows = 2
    MaxCleanups = 4
    MaxBatch = 2
    MaxLate = 1
    MaxFaults = 1
    MaxReloads = 1
SPECIFICATION Spec
CONSTRAINT ReloadAlone
SYMMETRY PacketAndKeySymmetry
CHECK_DEADLOCK FALSE
INVARIANTS
    ArmedIsOwned
    DrainedHoldsNothing
    OneOwnerPerGuard
    DirectExcludesProxy
    CellAgreesWithRecord
PROPERTIES
    AcceptOnlyDirect
    NoSpuriousFatal
