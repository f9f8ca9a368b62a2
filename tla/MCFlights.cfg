\* Three callers of one key in either protocol: failures, refused and evicted
\* indexes, two callers (one searcher) dropped at any await, again and again.
SPECIFICATION FlightsSpec
CONSTANTS
    Callers = {c1, c2, c3}
    None = None
    Cancellations = TRUE
    PatientCallers = {c3}
    Searchers = {c1, c2, c3}
    MayFail = TRUE
    MayDrop = TRUE
    PatientSearchers = {c2, c3}
    NoFlight = NoFlight
INVARIANTS
    FlightInv
    SearchInv
PROPERTIES
    NoInitOnceCached
    CallsReturn
    SearchesEnd
CHECK_DEADLOCK FALSE
