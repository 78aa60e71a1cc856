SPECIFICATION Spec
CONSTANTS
    None = None
    Calls = {c1}
    c1 = c1
    Services = {"Trading"}
    Codes = {"OK", "InvalidArgument", "Unavailable", "Internal"}
    Requests <- MCRequests
    Auths <- AllAuths
    KeySets <- MCKeySets
    MaxConnAge = FALSE
INVARIANT GracefulShutdown
