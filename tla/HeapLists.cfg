CONSTANTS
    Base = 8
    Header = 4
    Align = 2
    PageSize = 8
    FirstPages = 2
    GrowPages = 1
    MaxEnd = 40
    Sizes = {0, 1, 3, 11}
    FreesTwice = TRUE
SPECIFICATION Spec
INVARIANT HeapSound
PROPERTIES GrantsApart
CHECK_DEADLOCK FALSE
