CONSTANTS
    q1 = q1
    q2 = q2
    None = None
    Symbols <- MCSymbols
    Queries <- MCQueries
    Facts <- MCFacts
    DefaultLimit = 2
    MaxLimit = 3
    DefaultDepth = 1
    MaxDepth = 2
    AskedLimits <- MCAskedLimits
    Books <- MCBooks
    Prices = {0, 1}
SPECIFICATION RequestsSpec
INVARIANTS RequestsTypeOK SearchIsRight
