\* Enumeration and polling with failures, timeouts and stray events.
SPECIFICATION FairSpec
CONSTANTS
    Scenarios <- MCScenarios
    RingTrbs <- MCRingTrbs
    EvtTrbs = 3
    MaxSlots = 2
    MaxReports = 5
    Pollers = {"compositor", "dock"}
CONSTRAINT Apart
INVARIANTS ReplyIsMine ReportsOnce
PROPERTIES ScanEnds ReportsHandled
CHECK_DEADLOCK FALSE
