\* The window manager, input routing and the dock, under six clients.
SPECIFICATION Spec
CONSTANTS
    D = D
    T1 = T1
    T2 = T2
    A1 = A1
    NoS = NoS
    Dock <- D
    NoSurf <- NoS
    Terms <- MCTerms
    Apps <- MCApps
    Screens <- MCScreens
    AppSize <- MCAppSize
    Places <- MCPlaces
    MaxWindows = 4
    Desktops = 2
    MaxSurfaces = 3
    UserMax = 3
    DockZ = 1
    TermZ = 2
    Grace = 2
    MaxPresses = 4
    Workloads <- MCWorkloads
INVARIANTS RestoreRemembers FocusIsLive OneTerminalPerPress
