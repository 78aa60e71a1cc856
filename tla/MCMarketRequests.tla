--------------------------- MODULE MCMarketRequests ---------------------------
(* A small instance of MarketRequests for TLC.                             *)
EXTENDS MarketRequests, TLC

CONSTANTS q1, q2

MCSymbols == 1..4
MCQueries == {q1, q2}
MCAskedLimits == {-1, 0, 1, 2, 4}

\* The first query meets every rank, the best of them last in the alphabet; the
\* second a tie among three symbols, and one that does not match.
MCFacts ==
    [s \in MCSymbols |->
        (q1 :> CASE s = 1 -> {"quoteContains"}
                 [] s = 2 -> {"contains", "baseContains"}
                 [] s = 3 -> {"baseContains"}
                 [] s = 4 -> {"hasPrefix", "contains"})
     @@ (q2 :> IF s = 2 THEN {} ELSE {"contains"})]

\* Books of up to three levels, each of one number or two.
MCBooks ==
    UNION {{[i \in 1..n |-> [place |-> i, numbers |-> k[i]]] : k \in [1..n -> {1, 2}]} :
             n \in 0..3}

=============================================================================
