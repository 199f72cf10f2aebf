CONSTANTS
    Handlers = {h1, h2}
    MaxEpoch = 4
SPECIFICATION Spec
INVARIANTS
    InFlightCountsTickets
    ClosedIsQuiescent
    ReopenPanicsOnlyInOutage
    TicketEpochCurrent
    NoStalePublication
PROPERTIES
    CloseTerminates
