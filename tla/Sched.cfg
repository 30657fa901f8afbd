CONSTANTS
    idle = idle
    worker = worker
    compositor = compositor
    demo = demo
    None = None
    Idle = idle
    Kernel = {worker, compositor}
    User = {demo}
    Order <- MCOrder
    Exiting = {worker}
SPECIFICATION FairSpec
INVARIANTS ResumesSavedContext RunQueueIsRing SavedContextsApart EntryStackIsOwn
PROPERTIES ReaderServed EveryoneRuns
CONSTRAINT Untorn
