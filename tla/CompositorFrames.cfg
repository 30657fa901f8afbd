CONSTANTS
    low = low
    high = high
    arrow = arrow
    MaxRects = 16
    Client = {low, high}
    Cursor = {arrow}
    Width = 3
    Span = 2
    Places <- MCPlaces
    Looks = {hidden, solid}
    NoLook = hidden
    Colours = {grey, blue}
    UserMax = 2
    ZMin = 0
    MaxSlots = 3
    Workloads <- MCWorkloads
    Interleaved = FALSE
    ReAdd = FALSE
    PartialAfterFull = FALSE
    Jobs <- MCJobs
SPECIFICATION MCSpec
INVARIANTS ScreenShowsScene CursorOnTop BlitExact
