CONSTANTS
    Maps <- MCMaps
    BitsPerByte = 4
    PageSize = 2
    MaxFrames = 20
    Runs = {0, 1, 2, 3}
    Fan = 2
    Boots <- MCBoots
    Cached <- MCCached
    HeapBase = 4
    HeapTop = 8
    MaxCalls = 11
    Hhdm = 16
    RsdpSize = 2
    HeaderSize = 2
    EntrySize <- MCEntrySize
    UserPages <- MCUserPages
    Devices <- MCDevices
    Unmaps <- MCUnmaps
    Defaults <- MCDefaults
SPECIFICATION MemorySpec
INVARIANTS FramesExact ContigFindsFirst TlbFresh HeapPagesOwn ReadsMapped
PROPERTIES MapsPages
CHECK_DEADLOCK FALSE
