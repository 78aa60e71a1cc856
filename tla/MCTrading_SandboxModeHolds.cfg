CONSTANTS
    c1 = c1
    c2 = c2
    s1 = s1
    s2 = s2
    Calls <- MCCalls
    Symbols <- MCSymbols
    Requests <- MCRequests
    Prices = {1}
    Ids = {1, 2}
    SandboxMode = TRUE
    None = None
SPECIFICATION Spec
INVARIANT SandboxModeHolds
