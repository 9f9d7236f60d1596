\* An application that does not act from inside its loadingChanged() handler.
SPECIFICATION FairSpec
CONSTANTS
    Url = {u1, u2}
    Html = Html
    None = None
    MaxLoads = 3
    Reentrant = FALSE
INVARIANTS
    TypeOK
    ErrorFlagScoped
    ReportsMatchOutcome
PROPERTIES
    LoadsSettle
