SPECIFICATION FairSpec
CONSTANTS
  Keys = {k1}
  Queries = {q1, q2}
  Modes = {"strict"}
  None = None
  MaxFlights = 1
  MaxWaiters = 1
  MaxCommands = 2
  MaxPending = 1
  MaxInvalidations = 1
  MaxRestarts = 1
  MaxFaults = 1
PROPERTY QueryEnds
PROPERTY PublicationReopens
PROPERTY PendingDrains
CHECK_DEADLOCK FALSE
