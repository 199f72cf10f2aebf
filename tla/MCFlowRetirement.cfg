CONSTANTS
    Keys = {k1}
    Cpus = {c1, c2}
    None = None
    ConnTimeout = 1
    MaxInc = 2
    MaxToken = 1
    MaxNow = 2
SPECIFICATION Spec
CONSTRAINT ClockOrCompany
SYMMETRY CpuSymmetry
CHECK_DEADLOCK FALSE
INVARIANTS
    TypeOK
    ClaimHasProducer
    QuiescedHoldsNoToken
    FencesAreVisible
PROPERTIES
    ActivityCounts
    ImplementsLifetime
