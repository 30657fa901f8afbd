CONSTANTS
    AP = {a1, a2}
    VirtualBox = FALSE
    BootFrames = 2
    SettleFirst = TRUE
    Heights = {0, 3, 8}
    MinRows = 2
    MaxBands = 3
    W32 = 3
SPECIFICATION FairSpec
INVARIANTS ReturnsAfterAllDone BandsCoverBox
PROPERTIES PaintsFrames FrameFinishes
