\* Two windows, so that the item can be elsewhere when its slot runs.
SPECIFICATION FairSpec
CONSTANTS
    Window = {w1, w2}
    NoWindow = NoWindow
    ValidSize = {s1}
    BadSize = BadSize
    Agent = {Stock, a1}
    StockAgent = Stock
    NoRequest = NoRequest
    Scale = {x1, x2}
    UnitScale = x1
    MaxConnections = 1
    MaxCreateCalls = 2
\* The process may have ended, or the view be gone.
CHECK_DEADLOCK FALSE
INVARIANTS
    TypeOK
    SettingsInForce
    VisibilityInForce
    NoHandlerOnDeadView
PROPERTIES
    OneWebView
    FirstRequestCarriesAgent
    ViewComesUp
