\* The mount of small archives, the configuration that follows, then two threads with two
\* descriptors each, the painting thread, or the serial line.
SPECIFICATION BootSpec
CONSTANTS
    Archives <- MCArchives
    Block = 2
    NodeLimits = {2, 9}
    Threads = {"t1", "t2"}
    FdMax = 5
    Paths <- MCPaths
    Counts = {0, 1, 2, 63}
    Word = 64
    Number <- MCNumber
    ConfCap = 40
    LabelCap = 3
    Colour <- MCColour
    Dark <- MCDark
    Light <- MCLight
    Plain <- MCPlain
    Family <- MCFamily
    SizeKeys <- MCSizeKeys
    ThemeCap = 80
    FamilyCap = 4
    ScanSpan = 12
    PerFloor = 3
    VsyncFloor = 6
    ConfPath <- MCConfPath
    TomlPath <- MCTomlPath
    JsonPath <- MCJsonPath
    BaseKey <- MCBase
    DefaultBase = 9
    Scanout <- MCScanout
    Calibrations <- MCCalibrations
    SerialCap = 6
    Workloads <- MCWorkloads
INVARIANTS TreeMatchesArchive DescriptorsInOrder PolicyWhole ThemeWhole FramesPaced
PROPERTY FramesGoOn
CHECK_DEADLOCK FALSE
