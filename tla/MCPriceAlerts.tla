----------------------------- MODULE MCPriceAlerts -----------------------------
(* A small instance of PriceAlerts for TLC.                                *)
EXTENDS PriceAlerts

CONSTANTS s1, s2

MCSymbols == {s1, s2}

A(symbol, operator, target, status) ==
    [symbol |-> symbol, operator |-> operator, target |-> target, status |-> status]

\* Alerts of one symbol that pull both ways, one of another, and a bad one.
MCAlerts ==
    {A(s1, "GREATER_THAN", 2, "PENDING"), A(s1, "LESS_THAN", 1, "TRIGGERED"),
     A(s2, "LESS_THAN", 2, "UNSPECIFIED"),
     A(NoSymbol, "LESS_THAN", 1, "PENDING")}

=============================================================================
