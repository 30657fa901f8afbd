CONSTANTS
    MaxRects = 2
    Width = 2
    Height = 2
    Sides = {0, 1, 2}
SPECIFICATION Spec
INVARIANTS NothingLost
