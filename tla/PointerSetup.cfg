\* Choice of the pointer device, then the tablet's queue or the touchpad's transfers.
SPECIFICATION FairSpec
CONSTANTS
    Machines <- MCMachines
    QueueWant = 4
    Word16 = 8
    Pollers = {"compositor", "dock"}
    Masters <- MCMasters
    ScreenMax <- MCScreenMax
    TxDepth = 2
    RxDepth = 2
    Slaves = 2
    Regs = 2
    DescLen = 2
    CommandLen = 2
    PointerLen = 2
CONSTRAINT Apart
INVARIANTS EventsInOrder PointerFollows ReadsExact
PROPERTIES SetupSettles
CHECK_DEADLOCK FALSE
