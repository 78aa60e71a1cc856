--------------------------- MODULE PriceAlertsProofs ---------------------------
(***************************************************************************)
(* Proofs about PriceAlerts for any symbols, prices and alerts: the alerts *)
(* of a call are all answered, in their places, and those of a symbol      *)
(* agree, however the market moves and whichever fetches fail.             *)
(***************************************************************************)
EXTENDS PriceAlerts, SequenceTheorems, TLAPS

\* A judged alert is an alert, and the one that was judged but for its status.
LEMMA JudgedIsTheAlert ==
    ASSUME NEW a \in PriceAlert, NEW p
    PROVE  /\ Judged(a, p) \in PriceAlert
           /\ [Judged(a, p) EXCEPT !.status = a.status] = a
  <1> DEFINE status == IF Meets(a, p) THEN "TRIGGERED" ELSE "PENDING"
  <1>1. status \in Statuses
    BY DEF Statuses
  <1>2. Judged(a, p) = [a EXCEPT !.status = status]
    BY DEF Judged
  <1> HIDE DEF status
  <1> QED
    BY <1>1, <1>2 DEF PriceAlert

LEMMA UnchangedAlert ==
    ASSUME NEW a \in PriceAlert
    PROVE  [a EXCEPT !.status = a.status] = a
  BY DEF PriceAlert

\* The alerts in a loop's turn are valid: they have a symbol.
LEMMA TurnHasASymbol ==
    ASSUME AlertsInv, Turn
    PROVE  /\ i \in 1..Len(alerts) /\ alert \in Alerts
           /\ alert \in PriceAlert /\ alert.symbol \in Symbols
  <1>1. i \in 1..Len(alerts) /\ alerts \in Seq(Alerts) /\ Running
    BY LenProperties DEF AlertsInv, TypeOK, Turn, Running
  <1>2. alert \in Alerts /\ Valid(alert)
    BY <1>1, ElementOfSeq DEF AlertsInv, TypeOK, alert
  <1>3. alert \in PriceAlert
    BY <1>2, AlertsAssumption
  <1> QED
    BY <1>1, <1>2, <1>3 DEF PriceAlert, Valid

-----------------------------------------------------------------------------
(* The steps                                                               *)

\* A turn that judges its alert by the price p the cache then has.
LEMMA JudgingPreserves ==
    ASSUME AlertsInv, Turn, NEW p \in Prices \cup {0}, p \in seen[alert.symbol],
           priceCache[alert.symbol] \in {p, NoPrice},
           priceCache' = [priceCache EXCEPT ![alert.symbol] = p],
           i' = i + 1, updated' = Append(updated, Judged(alert, p)),
           UNCHANGED <<market, seen, alerts, failed, pc>>
    PROVE  AlertsInv'
  <1>1. /\ i \in 1..Len(alerts) /\ alert \in PriceAlert /\ alert.symbol \in Symbols
        /\ alert = alerts[i] /\ Len(alerts) \in Nat
    BY TurnHasASymbol, LenProperties DEF AlertsInv, TypeOK, alert
  <1>2. Judged(alert, p) \in PriceAlert
    BY <1>1, JudgedIsTheAlert
  <1>3. updated \in Seq(PriceAlert) /\ Len(updated) = i - 1
    BY DEF AlertsInv, TypeOK
  <1>4. /\ updated' \in Seq(PriceAlert) /\ Len(updated') = i
        /\ \A k \in 1..(i - 1) : updated'[k] = updated[k]
        /\ updated'[i] = Judged(alert, p)
    BY <1>1, <1>2, <1>3, AppendProperties
  <1>5. /\ priceCache' \in [Symbols -> Prices \cup {0, NoPrice}]
        /\ priceCache'[alert.symbol] = p /\ p # NoPrice
        /\ \A s \in Symbols : priceCache'[s] = IF s = alert.symbol THEN p ELSE priceCache[s]
    BY <1>1, AlertsAssumption DEF AlertsInv, TypeOK
  <1>6. TypeOK'
    BY <1>1, <1>4, <1>5 DEF AlertsInv, TypeOK, Turn, Running
  <1>7. ASSUME NEW k \in 1..i, k \notin failed
        PROVE  /\ alerts[k].symbol \in Symbols
               /\ priceCache'[alerts[k].symbol] # NoPrice
               /\ updated'[k] = Judged(alerts[k], priceCache'[alerts[k].symbol])
    <2>1. CASE k = i
      BY <1>1, <1>4, <1>5, <2>1
    <2>2. CASE k \in 1..(i - 1)
      <3>1. /\ alerts[k].symbol \in Symbols
            /\ priceCache[alerts[k].symbol] # NoPrice
            /\ updated[k] = Judged(alerts[k], priceCache[alerts[k].symbol])
        BY <1>7, <2>2 DEF AlertsInv
      <3>2. priceCache'[alerts[k].symbol] = priceCache[alerts[k].symbol]
        BY <1>5, <3>1
      <3> QED
        BY <1>4, <2>2, <3>1, <3>2
    <2>3. k = i \/ k \in 1..(i - 1)
      BY <1>1
    <2> QED
      BY <2>1, <2>2, <2>3, Zenon
  <1>8. \A k \in failed : updated'[k] = alerts[k]
    BY <1>1, <1>4 DEF AlertsInv
  <1>9. /\ i' - 1 = i /\ Len(updated)' = i' - 1 /\ failed' \subseteq 1..(i' - 1)
        /\ (pc = "answered" => i = Len(alerts) + 1)' /\ (pc # "idle")
    BY <1>1, <1>4 DEF AlertsInv, Turn
  <1>10. \A s \in Symbols : /\ market'[s] \in seen'[s]
                            /\ priceCache'[s] # NoPrice => priceCache'[s] \in seen'[s]
    BY <1>5, <1>9 DEF AlertsInv
  <1> QED
    BY <1>6, <1>7, <1>8, <1>9, <1>10 DEF AlertsInv

\* A turn that could not.
LEMMA FailingPreserves ==
    ASSUME AlertsInv, FetchFails
    PROVE  AlertsInv'
  <1>1. /\ i \in 1..Len(alerts) /\ alert \in PriceAlert
        /\ alert = alerts[i] /\ Len(alerts) \in Nat
    BY TurnHasASymbol, LenProperties DEF AlertsInv, TypeOK, alert, FetchFails
  <1>2. /\ i' = i + 1 /\ updated' = Append(updated, alert) /\ failed' = failed \cup {i}
        /\ Turn /\ UNCHANGED <<market, seen, alerts, priceCache, pc>>
    BY DEF FetchFails
  <1>3. updated \in Seq(PriceAlert) /\ Len(updated) = i - 1 /\ failed \subseteq 1..(i - 1)
    BY DEF AlertsInv, TypeOK
  <1>4. /\ updated' \in Seq(PriceAlert) /\ Len(updated') = i
        /\ \A k \in 1..(i - 1) : updated'[k] = updated[k]
        /\ updated'[i] = alert
    BY <1>1, <1>2, <1>3, AppendProperties
  <1>5. TypeOK'
    BY <1>1, <1>2, <1>3, <1>4 DEF AlertsInv, TypeOK, Turn, Running
  <1>6. ASSUME NEW k \in 1..i, k \notin failed'
        PROVE  /\ alerts[k].symbol \in Symbols
               /\ priceCache[alerts[k].symbol] # NoPrice
               /\ updated'[k] = Judged(alerts[k], priceCache[alerts[k].symbol])
    <2>1. k \in 1..(i - 1) /\ k \notin failed
      BY <1>1, <1>2, <1>6
    <2> QED
      BY <1>4, <2>1 DEF AlertsInv
  <1>7. \A k \in failed' : updated'[k] = alerts[k]
    BY <1>1, <1>2, <1>3, <1>4 DEF AlertsInv
  <1>8. /\ i' - 1 = i /\ Len(updated)' = i' - 1 /\ failed' \subseteq 1..(i' - 1)
        /\ (pc = "answered" => i = Len(alerts) + 1)'
    BY <1>1, <1>2, <1>3, <1>4 DEF Turn
  <1> QED
    BY <1>2, <1>5, <1>6, <1>7, <1>8 DEF AlertsInv

LEMMA TurnPreserves ==
    ASSUME AlertsInv, Reuse \/ FetchTicker
    PROVE  AlertsInv'
  <1>1. Turn /\ alert.symbol \in Symbols
    BY TurnHasASymbol DEF Reuse, FetchTicker
  <1>2. CASE Reuse
    <2>1. /\ priceCache[alert.symbol] # NoPrice
          /\ priceCache[alert.symbol] \in Prices \cup {0}
          /\ priceCache[alert.symbol] \in seen[alert.symbol]
          /\ priceCache' = [priceCache EXCEPT ![alert.symbol] = priceCache[alert.symbol]]
      BY <1>1, <1>2 DEF Reuse, AlertsInv, TypeOK
    <2> QED
      BY <1>1, <1>2, <2>1, JudgingPreserves DEF Reuse
  <1>3. CASE FetchTicker
    <2>1. market[alert.symbol] \in Prices \cup {0} /\ market[alert.symbol] \in seen[alert.symbol]
      BY <1>1 DEF AlertsInv, TypeOK, Turn
    <2> QED
      BY <1>1, <1>3, <2>1, JudgingPreserves DEF FetchTicker
  <1> QED
    BY <1>2, <1>3

LEMMA CallPreserves ==
    ASSUME AlertsInv, CheckPriceAlerts
    PROVE  AlertsInv'
  <1>1. PICK b \in Batches :
           /\ alerts' = b
           /\ pc' = IF b # <<>> /\ \A k \in 1..Len(b) : Valid(b[k]) THEN "client" ELSE "refused"
    BY DEF CheckPriceAlerts
  <1>2. /\ seen' = [s \in Symbols |-> {market[s]}] /\ market' = market
        /\ priceCache' = [s \in Symbols |-> NoPrice]
        /\ i' = 1 /\ updated' = <<>> /\ failed' = {}
    BY DEF CheckPriceAlerts
  <1>3. b \in Seq(Alerts) /\ Len(b) \in Nat
    <2>1. PICK n \in 0..MaxAlerts : b \in [1..n -> Alerts]
      BY DEF Batches
    <2> QED
      BY <2>1, AlertsAssumption, SeqDef, LenProperties
  <1>4. \A s \in Symbols : seen'[s] = {market'[s]} /\ priceCache'[s] = NoPrice
    BY <1>2
  <1>5. updated' \in Seq(PriceAlert) /\ Len(updated') = 0
    BY <1>2, EmptySeq
  <1>6. TypeOK'
    <2>1. /\ market' \in [Symbols -> Prices \cup {0}]
          /\ seen' \in [Symbols -> SUBSET (Prices \cup {0})]
          /\ priceCache' \in [Symbols -> Prices \cup {0, NoPrice}]
      BY <1>2 DEF AlertsInv, TypeOK
    <2>2. Running' => \A k \in 1..Len(b) : Valid(b[k])
      BY <1>1 DEF Running
    <2>3. \A k : Valid(b[k])' <=> Valid(b[k])
      BY DEF Valid
    <2> QED
      BY <1>1, <1>2, <1>3, <1>5, <2>1, <2>2, <2>3 DEF TypeOK
  <1> QED
    BY <1>1, <1>2, <1>4, <1>5, <1>6 DEF AlertsInv

LEMMA OthersPreserve ==
    ASSUME AlertsInv, NewClient \/ Return \/ UNCHANGED vars
    PROVE  AlertsInv'
  <1>1. UNCHANGED <<market, seen, alerts, priceCache, i, updated, failed>>
    BY DEF NewClient, Return, vars
  <1>2. /\ pc' \in {"idle", "client", "loop", "answered", "refused"}
        /\ Running' => Running
        /\ pc' = "answered" => i = Len(alerts) + 1
        /\ pc' # "idle" => pc # "idle"
    BY LenProperties DEF AlertsInv, TypeOK, NewClient, Return, vars, Running
  <1>3. TypeOK'
    BY <1>1, <1>2 DEF AlertsInv, TypeOK, Valid
  <1> QED
    BY <1>1, <1>2, <1>3 DEF AlertsInv, Judged, Meets

LEMMA MovePreserves ==
    ASSUME AlertsInv, Move
    PROVE  AlertsInv'
  <1>1. PICK s \in Symbols, p \in Prices \cup {0} :
           /\ market' = [market EXCEPT ![s] = p]
           /\ seen' = [seen EXCEPT ![s] = seen[s] \cup {p}]
    BY DEF Move
  <1>2. UNCHANGED <<alerts, priceCache, i, updated, failed, pc>> /\ pc # "idle"
    BY DEF Move, Running
  <1>3. /\ market' \in [Symbols -> Prices \cup {0}]
        /\ seen' \in [Symbols -> SUBSET (Prices \cup {0})]
        /\ \A t \in Symbols : seen[t] \subseteq seen'[t] /\ market'[t] \in seen'[t]
    BY <1>1, <1>2 DEF AlertsInv, TypeOK
  <1>4. TypeOK'
    BY <1>2, <1>3 DEF AlertsInv, TypeOK, Running, Valid
  <1> QED
    BY <1>2, <1>3, <1>4 DEF AlertsInv, Judged, Meets

-----------------------------------------------------------------------------
(* The theorems                                                            *)

LEMMA AlertsInvInit == Init => AlertsInv
  <1> SUFFICES ASSUME Init
               PROVE  AlertsInv
    OBVIOUS
  <1>1. /\ alerts \in Seq(Alerts) /\ updated \in Seq(PriceAlert)
        /\ Len(alerts) = 0 /\ Len(updated) = 0
    BY EmptySeq DEF Init
  <1>2. TypeOK
    BY <1>1 DEF Init, TypeOK, Running
  <1> QED
    BY <1>1, <1>2 DEF Init, AlertsInv

LEMMA AlertsInvStep == AlertsInv /\ [Next]_vars => AlertsInv'
  BY CallPreserves, TurnPreserves, FailingPreserves, OthersPreserve, MovePreserves
  DEF Next, Handler

\* What is known of a call at each turn of its loop holds for any market and any
\* alerts (monitoring.go:84-135).
THEOREM AlertsInvariant == Spec => []AlertsInv
  BY AlertsInvInit, AlertsInvStep, PTL DEF Spec

\* Types; and the loop sees valid alerts only (monitoring.go:60-75).
THEOREM AlertsTypes == Spec => []TypeOK
  <1>1. AlertsInv => TypeOK
    BY DEF AlertsInv
  <1> QED
    BY <1>1, AlertsInvariant, PTL

\* Every alert is answered, once and in its place, whether or not its ticker
\* could be fetched (monitoring.go:84-135).
THEOREM AlertsAlwaysKeepTheirPlace == Spec => []AlertsKeepTheirPlace
  <1>1. AlertsInv => AlertsKeepTheirPlace
    <2> SUFFICES ASSUME AlertsInv, pc = "answered"
                 PROVE  /\ Len(updated) = Len(alerts)
                        /\ \A k \in 1..Len(alerts) :
                              [updated[k] EXCEPT !.status = alerts[k].status] = alerts[k]
      BY DEF AlertsKeepTheirPlace
    <2>1. i = Len(alerts) + 1 /\ Len(alerts) \in Nat /\ Len(updated) = Len(alerts)
      BY LenProperties DEF AlertsInv, TypeOK
    <2>2. ASSUME NEW k \in 1..Len(alerts)
          PROVE  [updated[k] EXCEPT !.status = alerts[k].status] = alerts[k]
      <3>1. alerts[k] \in PriceAlert
        BY ElementOfSeq, AlertsAssumption DEF AlertsInv, TypeOK
      <3>2. CASE k \in failed
        BY <3>1, <3>2, UnchangedAlert DEF AlertsInv
      <3>3. CASE k \notin failed
        <4>1. updated[k] = Judged(alerts[k], priceCache[alerts[k].symbol])
          BY <2>1, <3>3 DEF AlertsInv
        <4> QED
          BY <3>1, <4>1, JudgedIsTheAlert
      <3> QED
        BY <3>2, <3>3
    <2> QED
      BY <2>1, <2>2
  <1> QED
    BY <1>1, AlertsInvariant, PTL

\* The alerts of a symbol agree: one price, which its ticker had during the call,
\* explains all their statuses (monitoring.go:91-105).
THEOREM OnePriceAlwaysExplains == Spec => []OnePriceExplains
  <1>1. AlertsInv => OnePriceExplains
    <2> SUFFICES ASSUME AlertsInv, pc = "answered", NEW s \in Symbols
                 PROVE  \E p \in seen[s] : \A k \in 1..Len(alerts) :
                           alerts[k].symbol = s /\ k \notin failed
                           => updated[k] = Judged(alerts[k], p)
      BY DEF OnePriceExplains
    <2>1. i - 1 = Len(alerts)
      BY LenProperties DEF AlertsInv, TypeOK
    <2>2. ASSUME NEW k \in 1..Len(alerts), alerts[k].symbol = s, k \notin failed
          PROVE  priceCache[s] # NoPrice /\ updated[k] = Judged(alerts[k], priceCache[s])
      BY <2>1, <2>2 DEF AlertsInv
    <2>3. CASE priceCache[s] # NoPrice
      BY <2>2, <2>3 DEF AlertsInv
    <2>4. CASE priceCache[s] = NoPrice
      <3>1. market[s] \in seen[s]
        BY DEF AlertsInv
      <3> QED
        BY <2>2, <2>4, <3>1
    <2> QED
      BY <2>3, <2>4
  <1> QED
    BY <1>1, AlertsInvariant, PTL

=============================================================================
