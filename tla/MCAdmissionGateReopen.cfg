CONSTANTS
    Handlers = {h1, h2}
    MaxEpoch = 4
SPECIFICATION Spec
INVARIANTS
    ReopenFindsNobody
