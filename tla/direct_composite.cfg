\* Two places, two sizes beside 1x1, and the rectangle without a size.
SPECIFICATION FairSpec
CONSTANTS
    Place = {p0, p1}
    Origin = p0
    Size = {unit, s1, s2}
    EmptySize = empty
    UnitSize = unit
    None = None
INVARIANTS
    TypeOK
    NothingLeft
    BasesOutlive
    PushedRectInForce
PROPERTIES
    FrameFillsBuffer
    PositionReachesScreen
