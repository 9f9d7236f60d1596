\* A page moves on by itself and the application sets the earlier url again.
SPECIFICATION Spec
CONSTANTS
    Url = {u1, u2}
    Html = Html
    None = None
    MaxLoads = 2
    Reentrant = FALSE
SYMMETRY UrlSymmetry
INVARIANT SetUrlTakesEffect
