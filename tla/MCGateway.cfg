SPECIFICATION Spec
CONSTANTS
    None = None
    Calls = {c1, c2}
    c1 = c1
    c2 = c2
    Services = {"Trading"}
    Codes = {"OK", "InvalidArgument", "Unavailable", "Internal"}
    Requests <- MCRequests
    Auths <- AllAuths
    KeySets <- MCKeySets
    MaxConnAge = TRUE
INVARIANT TypeOK
PROPERTIES RestPromise NoCallLost StopsWhenTold CallsEnd
