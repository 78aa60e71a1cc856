CONSTANTS
    c1 = c1
    c2 = c2
    s1 = s1
    s2 = s2
    Calls <- MCCalls
    Symbols <- MCSymbols
    Requests <- MCRequests
    Prices = {1}
    Ids = {1, 2}
    SandboxMode = FALSE
    None = None
SPECIFICATION Spec
INVARIANTS TypeOK EffectsAreAskedFor OkIsTrue FinalStaysTrue
PROPERTY TradingKeepsPromise
SYMMETRY Symmetry
