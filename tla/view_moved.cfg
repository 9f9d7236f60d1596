\* The item leaves its window, or changes it, before the first window draws.
SPECIFICATION Spec
CONSTANTS
    Window = {w1, w2}
    NoWindow = NoWindow
    ValidSize = {s1}
    BadSize = BadSize
    Agent = {Stock}
    StockAgent = Stock
    NoRequest = NoRequest
    Scale = {x1}
    UnitScale = x1
    MaxConnections = 1
    MaxCreateCalls = 2
CHECK_DEADLOCK FALSE
SYMMETRY WindowSymmetry
PROPERTY CreatedWhenReady
