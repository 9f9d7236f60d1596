\* The handler of a failed load asks for another page.
SPECIFICATION Spec
CONSTANTS
    Url = {u1, u2}
    Html = Html
    None = None
    MaxLoads = 2
    Reentrant = TRUE
SYMMETRY UrlSymmetry
INVARIANT NoSuccessAfterFailure
