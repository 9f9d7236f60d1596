\* Odd and even heights, a viewport taller than the page, and multipliers whose
\* tenths round; positions from above to below the page.
SPECIFICATION Spec
CONSTANTS
    Position = {0, 1, 2, 3, 4, 6, 9}
    Height = {3, 4, 7}
    Multiplier = {10, 15, 20, 33}
    TileHeight = 2
    MaxTravel = 6
INVARIANTS
    TypeOK
    KeepContainsCover
PROPERTIES
    TurnKeepsReach
    TurnNeedsTravel
