------------------------------ MODULE PriceAlerts ------------------------------
(***************************************************************************)
(* CheckPriceAlerts (internal/service/monitoring.go): one call judges a    *)
(* list of alerts, fetching each symbol's ticker at most once while the    *)
(* market moves; an alert whose ticker cannot be fetched is returned as    *)
(* the caller sent it.                                                     *)
(***************************************************************************)
EXTENDS Naturals, Sequences

CONSTANTS Symbols,
          Prices,    \* the prices of the market, and of alerts
          Alerts,    \* the alerts a request may hold
          MaxAlerts, \* bound: how many it holds at most
          NoPrice,   \* not in the cache
          NoSymbol   \* an alert without a symbol

Operators == {"GREATER_THAN", "LESS_THAN", "UNSPECIFIED", "other"}
Statuses == {"UNSPECIFIED", "PENDING", "TRIGGERED"}

\* An alert; its identity is its place in the request.
PriceAlert == [symbol : Symbols \cup {NoSymbol}, target : Prices \cup {0},
               operator : Operators, status : Statuses]

ASSUME AlertsAssumption ==
    /\ Prices \subseteq Nat \ {0} /\ MaxAlerts \in Nat
    /\ Alerts \subseteq PriceAlert
    /\ NoPrice \notin Nat /\ NoSymbol \notin Symbols

VARIABLES market,      \* the close of each symbol's ticker; 0 if it has none
          seen,        \* what it has been since the call began
          alerts,      \* the request
          priceCache,  \* the prices this call has fetched
          i,           \* the alert whose turn it is
          updated,     \* updatedAlerts
          failed,      \* the alerts whose ticker could not be fetched
          pc           \* "idle", "client", "loop", "answered" or "refused"

vars == <<market, seen, alerts, priceCache, i, updated, failed, pc>>

Batches == UNION {[1..n -> Alerts] : n \in 0..MaxAlerts}

Init ==
    /\ market \in [Symbols -> Prices]
    /\ seen = [s \in Symbols |-> {}]
    /\ alerts = <<>> /\ i = 1 /\ updated = <<>> /\ failed = {}
    /\ priceCache = [s \in Symbols |-> NoPrice]
    /\ pc = "idle"

Valid(a) == a.symbol # NoSymbol /\ a.target > 0 /\ a.operator # "UNSPECIFIED"

Running == pc \in {"client", "loop"}

\* A mutant: only the first alert is checked.
CheckPriceAlerts_first ==
    /\ ~Running
    /\ \E b \in Batches :
          /\ alerts' = b
          /\ pc' = IF b # <<>> /\ Valid(b[1]) THEN "client" ELSE "refused"
    /\ seen' = [s \in Symbols |-> {market[s]}]
    /\ priceCache' = [s \in Symbols |-> NoPrice]
    /\ i' = 1 /\ updated' = <<>> /\ failed' = {}
    /\ UNCHANGED market

\* A call comes in; one alert that is not valid refuses them all.
CheckPriceAlerts ==
    /\ ~Running
    /\ \E b \in Batches :
          /\ alerts' = b
          /\ pc' = IF b # <<>> /\ \A k \in 1..Len(b) : Valid(b[k])
                   THEN "client" ELSE "refused"
    /\ seen' = [s \in Symbols |-> {market[s]}]
    /\ priceCache' = [s \in Symbols |-> NoPrice]
    /\ i' = 1 /\ updated' = <<>> /\ failed' = {}
    /\ UNCHANGED market

\* The pool's client; there may be none.
NewClient ==
    /\ pc = "client"
    /\ pc' \in {"loop", "refused"}
    /\ UNCHANGED <<market, seen, alerts, priceCache, i, updated, failed>>

\* The next turn of the loop, and its alert.
Turn == pc = "loop" /\ i <= Len(alerts)
alert == alerts[i]

Meets(a, price) ==
    \/ a.operator = "GREATER_THAN" /\ price >= a.target
    \/ a.operator = "LESS_THAN" /\ price <= a.target

\* The alert with the status the price gives it, whatever it was before.
Judged(a, price) ==
    [a EXCEPT !.status = IF Meets(a, price) THEN "TRIGGERED" ELSE "PENDING"]

\* The cache has the symbol's price.
Reuse ==
    /\ Turn
    /\ priceCache[alert.symbol] # NoPrice
    /\ i' = i + 1
    /\ updated' = Append(updated, Judged(alert, priceCache[alert.symbol]))
    /\ UNCHANGED <<market, seen, alerts, priceCache, failed, pc>>

\* A mutant: the price is not put into the cache.
FetchTicker_notCached ==
    /\ Turn
    /\ priceCache[alert.symbol] = NoPrice
    /\ i' = i + 1
    /\ updated' = Append(updated, Judged(alert, market[alert.symbol]))
    /\ UNCHANGED <<market, seen, alerts, priceCache, failed, pc>>

\* It has not, and the ticker is fetched.
FetchTicker ==
    /\ Turn
    /\ priceCache[alert.symbol] = NoPrice
    /\ priceCache' = [priceCache EXCEPT ![alert.symbol] = market[alert.symbol]]
    /\ i' = i + 1
    /\ updated' = Append(updated, Judged(alert, market[alert.symbol]))
    /\ UNCHANGED <<market, seen, alerts, failed, pc>>

\* Mutants: a failed fetch drops the alert; it starts the loop over.
FetchFails_drops ==
    /\ Turn
    /\ priceCache[alert.symbol] = NoPrice
    /\ i' = i + 1
    /\ UNCHANGED <<market, seen, alerts, priceCache, updated, failed, pc>>

FetchFails_startsOver ==
    /\ Turn
    /\ priceCache[alert.symbol] = NoPrice
    /\ i' = 1 /\ updated' = <<>>
    /\ failed' = failed \cup {i}
    /\ UNCHANGED <<market, seen, alerts, priceCache, pc>>

\* It cannot be fetched: the alert goes back as it came, and the next one of
\* this symbol fetches again.
FetchFails ==
    /\ Turn
    /\ priceCache[alert.symbol] = NoPrice
    /\ i' = i + 1
    /\ updated' = Append(updated, alert)
    /\ failed' = failed \cup {i}
    /\ UNCHANGED <<market, seen, alerts, priceCache, pc>>

\* All are judged.
Return ==
    /\ pc = "loop" /\ i > Len(alerts)
    /\ pc' = "answered"
    /\ UNCHANGED <<market, seen, alerts, priceCache, i, updated, failed>>

\* A symbol gets another price, or its ticker one without a close.
Move ==
    /\ Running
    /\ \E s \in Symbols, p \in Prices \cup {0} :
          /\ market' = [market EXCEPT ![s] = p]
          /\ seen' = [seen EXCEPT ![s] = seen[s] \cup {p}]
    /\ UNCHANGED <<alerts, priceCache, i, updated, failed, pc>>

Handler == NewClient \/ Reuse \/ FetchTicker \/ FetchFails \/ Return

Next == CheckPriceAlerts \/ Handler \/ Move

\* The handler's goroutine runs, and the exchange answers every call.
Spec == Init /\ [][Next]_vars /\ WF_vars(Handler)

-----------------------------------------------------------------------------
(* Properties                                                              *)

\* Types; the loop sees valid alerts only.
TypeOK ==
    /\ market \in [Symbols -> Prices \cup {0}]
    /\ seen \in [Symbols -> SUBSET (Prices \cup {0})]
    /\ alerts \in Seq(Alerts)
    /\ priceCache \in [Symbols -> Prices \cup {0, NoPrice}]
    /\ updated \in Seq(PriceAlert)
    /\ i \in 1..Len(alerts) + 1
    /\ failed \subseteq 1..Len(alerts)
    /\ pc \in {"idle", "client", "loop", "answered", "refused"}
    /\ Running => \A k \in 1..Len(alerts) : Valid(alerts[k])

\* Every alert of the request is answered, once and in its place, whether or
\* not its ticker could be fetched (monitoring.go:84-135).
AlertsKeepTheirPlace ==
    pc = "answered" =>
        /\ Len(updated) = Len(alerts)
        /\ \A k \in 1..Len(alerts) : [updated[k] EXCEPT !.status = alerts[k].status] = alerts[k]

\* The alerts of a symbol agree with each other although the market moves
\* while they are judged: one price, which the ticker had during the call,
\* explains all their statuses (monitoring.go:91-105).
OnePriceExplains ==
    pc = "answered" =>
        \A s \in Symbols : \E p \in seen[s] :
            \A k \in 1..Len(alerts) :
                alerts[k].symbol = s /\ k \notin failed => updated[k] = Judged(alerts[k], p)

\* What the above rests on: the alerts before the i-th are those judged so far,
\* each failed one as it came, each other one by the cached price of its symbol,
\* which the ticker had during the call.
AlertsInv ==
    /\ TypeOK
    /\ Len(updated) = i - 1
    /\ pc = "answered" => i = Len(alerts) + 1
    /\ pc # "idle" => \A s \in Symbols : market[s] \in seen[s]
    /\ \A s \in Symbols : priceCache[s] # NoPrice => priceCache[s] \in seen[s]
    /\ failed \subseteq 1..(i - 1)
    /\ \A k \in failed : updated[k] = alerts[k]
    /\ \A k \in 1..(i - 1) \ failed :
          /\ alerts[k].symbol \in Symbols
          /\ priceCache[alerts[k].symbol] # NoPrice
          /\ updated[k] = Judged(alerts[k], priceCache[alerts[k].symbol])

\* A call ends although any fetch may fail: a failed fetch is not repeated for
\* the same alert (monitoring.go:95-99).
CallEnds == Running ~> ~Running

=============================================================================
