SPECIFICATION Spec
CONSTANTS
  Keys = {k1}
  Queries = {q1, q2, q3, q4}
  Modes = {"strict", "compat"}
  None = None
  MaxFlights = 2
  MaxWaiters = 1
  MaxCommands = 0
  MaxPending = 0
  MaxInvalidations = 0
  MaxRestarts = 0
  MaxFaults = 0
SYMMETRY Symmetric
INVARIANT TypeOK
INVARIANT FlightHasOneLeader
INVARIANT StrictAdmission
PROPERTY RefreshReplacesWhatItSaw
CHECK_DEADLOCK FALSE
