------------------------------- MODULE MCTrading -------------------------------
(* A small instance of Trading for TLC.                                    *)
EXTENDS Trading, TLC

CONSTANTS c1, c2, s1, s2

MCCalls == {c1, c2}
MCSymbols == {s1, s2}

Of(op, lacks, sym, side, price, id, sandbox) ==
    [op |-> op, lacks |-> lacks, sym |-> sym, side |-> side, price |-> price,
     id |-> id, sandbox |-> sandbox]

\* Whole requests, some of them without the optional symbol, and some
\* that lack what they must have.
MCRequests ==
    {Of("CreateMarketOrder", {}, s1, d, 1, 1, FALSE) : d \in {"buy", "sell", "other"}}
    \cup {Of("CreateLimitOrder", {}, s1, d, 1, 1, FALSE) : d \in {"sell", "other"}}
    \cup {Of("GetOrder", {"symbol"}, None, "buy", 1, i, FALSE) : i \in {1, 2}}
    \cup {Of("CancelOrder", {}, s1, "buy", 1, i, FALSE) : i \in {1, 2}}
    \cup {Of("CancelAllOrders", {}, s1, "buy", 1, 1, FALSE)}
    \cup {Of(op, {"symbol"}, None, "buy", 1, 1, FALSE) :
            op \in {"CancelAllOrders", "ListOpenOrders", "ListClosedOrders",
                    "GetBalance", "TestCredentials"}}
    \cup {Of("CreateLimitOrder", {"price"}, s1, "buy", 1, 1, FALSE),
          Of("CancelOrder", {"id"}, s1, "buy", 1, 1, FALSE),
          Of("CreateMarketOrder", {"symbol"}, None, "sell", 1, 1, FALSE),
          Of("GetBalance", {"key"}, s1, "buy", 1, 1, FALSE)}

Symmetry == Permutations(MCCalls)

=============================================================================
