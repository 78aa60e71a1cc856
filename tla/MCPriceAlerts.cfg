CONSTANTS
    s1 = s1
    s2 = s2
    Symbols <- MCSymbols
    Alerts <- MCAlerts
    Prices = {1, 2}
    MaxAlerts = 3
    NoPrice = NoPrice
    NoSymbol = NoSymbol
SPECIFICATION Spec
INVARIANTS TypeOK AlertsKeepTheirPlace OnePriceExplains
PROPERTY CallEnds
