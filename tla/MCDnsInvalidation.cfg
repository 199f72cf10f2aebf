SPECIFICATION Spec
CONSTANTS
  Keys = {k1, k2}
  Queries = {q1, q2}
  Modes = {"strict"}
  None = None
  MaxFlights = 2
  MaxWaiters = 1
  MaxCommands = 2
  MaxPending = 1
  MaxInvalidations = 2
  MaxRestarts = 1
  MaxFaults = 1
SYMMETRY Symmetric
INVARIANT NoResurrection
INVARIANT ActorInStep
INVARIANT SlotHasAnswer
CHECK_DEADLOCK FALSE
