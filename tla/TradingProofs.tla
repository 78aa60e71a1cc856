---------------------------- MODULE TradingProofs ----------------------------
(***************************************************************************)
(* Proofs about Trading for any calls, symbols, prices and requests: its   *)
(* invariants, and that the nine handlers keep CallPromise. A step is      *)
(* looked at in two parts: what it does to the account (it adds an order,  *)
(* cancels open ones, or neither) and what it does to its own call.        *)
(***************************************************************************)
EXTENDS Trading, FiniteSetTheorems, SequenceTheorems, TLAPS

-----------------------------------------------------------------------------
(* The operators                                                           *)

\* Every error has a code, and only an error before anything happened has a
\* definite one.
LEMMA MapErrorCodes ==
    ASSUME NEW e \in Errors
    PROVE  /\ MapError(e) \in Codes \ {"OK", "DeadlineExceeded"}
           /\ e \in Ambiguous => MapError(e) \notin Definite
  BY DEF MapError, Codes, Errors, Refusals, Ambiguous, Definite

\* The words reported are those of the model, and orders stand in its states.
LEMMA WordsAreKnown ==
    ASSUME NEW state \in States
    PROVE  /\ WordsOf(state) \subseteq Words \cup {None}
           /\ Becomes(state) \subseteq States
           /\ Becomes(state) # {} => state \in Open
  BY DEF WordsOf, Words, States, Open, Becomes

\* A status that is made of a word CCXT may report is true.
LEMMA StatusIsTrue ==
    ASSUME NEW state \in States, NEW w \in WordsOf(state)
    PROVE  mapOrderStatus(w) \in Statuses /\ Says(mapOrderStatus(w), state)
  <1>1. None \notin Words
    BY TradingAssumption
  <1>2. CASE state = "resting"
    BY <1>1, <1>2 DEF WordsOf, mapOrderStatus, Says, Statuses, Words
  <1>3. CASE state = "partial"
    BY <1>1, <1>3 DEF WordsOf, mapOrderStatus, Says, Statuses, Words
  <1>4. CASE state = "filled"
    BY <1>1, <1>4 DEF WordsOf, mapOrderStatus, Says, Statuses, Words
  <1>5. CASE state = "cancelled"
    BY <1>1, <1>5 DEF WordsOf, mapOrderStatus, Says, Statuses, Words
  <1>6. CASE state = "refused"
    BY <1>1, <1>6 DEF WordsOf, mapOrderStatus, Says, Statuses, Words
  <1> QED
    BY <1>2, <1>3, <1>4, <1>5, <1>6 DEF States, Open

\* So what is told of an order, its status given or not, is true.
LEMMA OrderTold ==
    ASSUME NEW i \in Nat, NEW state \in States, NEW w \in WordsOf(state)
    PROVE  LET t == buildOrder(i, w)
           IN  /\ t \in [id : Nat, status : Statuses] /\ t.id = i
               /\ Says(t.status, state)
  <1>1. mapOrderStatus(w) \in Statuses /\ Says(mapOrderStatus(w), state)
    BY StatusIsTrue
  <1> QED
    BY <1>1 DEF buildOrder

\* And it stays true whatever becomes of the order.
LEMMA SaidStays ==
    ASSUME NEW state, NEW status, Says(status, state), NEW new,
           new \in Becomes(state) \/ (state \in Open /\ new = "cancelled")
    PROVE  Says(status, new)
  BY DEF Says, Becomes, Open, States

\* How often a call acted, when it placed at most one order and did not place
\* and cancel both.
LEMMA CountOfEffects ==
    ASSUME NEW P, NEW Q, \A i, j \in P : i = j, P # {} => Q = {}
    PROVE  Cardinality(P) + (IF Q = {} THEN 0 ELSE 1)
              = IF P = {} /\ Q = {} THEN 0 ELSE 1
  <1>1. CASE P = {}
    BY <1>1, FS_EmptySet
  <1>2. CASE P # {}
    <2>1. PICK i : P = {i}
      BY <1>2
    <2>2. Cardinality(P) = 1
      BY <2>1, FS_Singleton
    <2> QED
      BY <1>2, <2>2
  <1> QED
    BY <1>1, <1>2

\* The answers without orders: codes, and what they say nothing of.
LEMMA JustAnswers ==
    ASSUME NEW code \in Codes
    PROVE  /\ Just(code) \in Answer /\ Just(code).code = code
           /\ Just(code).told = {}
  BY DEF Just, Answer, Verdicts

\* The answers with orders.
LEMMA TellsAnswers ==
    ASSUME NEW news \in SUBSET [id : Nat, status : Statuses]
    PROVE  /\ Tells(news) \in Answer /\ Tells(news).code = "OK"
           /\ Tells(news).told = news
  BY DEF Tells, Just, Answer, Verdicts, Codes

\* The answers of TestCredentials.
LEMMA VerdictAnswers ==
    ASSUME NEW v \in Verdicts
    PROVE  LET a == [Just("OK") EXCEPT !.verdict = v]
           IN  a \in Answer /\ a.code = "OK" /\ a.told = {}
  BY DEF Just, Answer, Codes

\* An error is an answer that tells of no order.
LEMMA FailsReplies ==
    ASSUME NEW c \in Calls, NEW errors \in SUBSET Errors, Fails(c, errors)
    PROVE  \E a \in Answer :
              /\ Reply(c, a)
              /\ a.code \notin {"OK", "DeadlineExceeded"} /\ a.told = {}
              /\ errors \subseteq Ambiguous => a.code \notin Definite
  <1>1. PICK e \in errors : Reply(c, Just(MapError(e)))
    BY DEF Fails
  <1> QED
    BY <1>1, MapErrorCodes, JustAnswers

-----------------------------------------------------------------------------
(* What a step does to the account                                         *)

\* An order added is the last one, and its call's.
LEMMA AccountAfterPlacing ==
    ASSUME orders \in Seq(Order), NEW c \in Calls, NEW o \in Order,
           o.by = c, o.cut = None, orders' = Append(orders, o)
    PROVE  /\ orders' \in Seq(Order) /\ Len(orders') = Len(orders) + 1
           /\ \A i \in 1..Len(orders) : orders'[i] = orders[i]
           /\ orders'[Len(orders) + 1] = o
           /\ Placed(c)' = Placed(c) \cup {Len(orders) + 1}
           /\ \A d \in Calls \ {c} : Placed(d)' = Placed(d)
           /\ \A d \in Calls : Cut(d)' = Cut(d)
  <1>1. /\ Len(orders) \in Nat
        /\ orders' \in Seq(Order) /\ Len(orders') = Len(orders) + 1
        /\ \A i \in 1..Len(orders) : orders'[i] = orders[i]
        /\ orders'[Len(orders) + 1] = o
    BY AppendProperties, LenProperties
  <1>2. \A i : i \in 1..Len(orders') <=> i \in 1..Len(orders) \/ i = Len(orders) + 1
    BY <1>1
  <1>3. Placed(c)' = Placed(c) \cup {Len(orders) + 1}
    BY <1>1, <1>2 DEF Placed
  <1>4. \A d \in Calls \ {c} : Placed(d)' = Placed(d)
    BY <1>1, <1>2 DEF Placed
  <1>5. \A d \in Calls : Cut(d)' = Cut(d)
    BY <1>1, <1>2, TradingAssumption DEF Cut
  <1> QED
    BY <1>1, <1>3, <1>4, <1>5

\* Cancelling touches the orders named only, and they become their canceller's.
LEMMA AccountAfterCancelling ==
    ASSUME orders \in Seq(Order), OpenIsUncut, NEW c \in Calls,
           NEW S \in SUBSET OpenOrders(c), orders' = Cancelled(c, S)
    PROVE  /\ orders' \in Seq(Order) /\ Len(orders') = Len(orders)
           /\ \A i \in 1..Len(orders) :
                 /\ orders'[i].by = orders[i].by /\ orders'[i].sym = orders[i].sym
                 /\ orders'[i].side = orders[i].side /\ orders'[i].price = orders[i].price
                 /\ orders'[i].state = IF i \in S THEN "cancelled" ELSE orders[i].state
                 /\ orders'[i].cut = IF i \in S THEN c ELSE orders[i].cut
           /\ \A d \in Calls : Placed(d)' = Placed(d)
           /\ \A d \in Calls \ {c} : Cut(d)' = Cut(d)
           /\ Cut(c)' = Cut(c) \cup S
  <1>0. Len(orders) \in Nat /\ \A i \in 1..Len(orders) : orders[i] \in Order
    BY LenProperties, ElementOfSeq
  <1>1. \A i \in 1..Len(orders) :
           orders'[i] = IF i \in S
                        THEN [orders[i] EXCEPT !.state = "cancelled", !.cut = c]
                        ELSE orders[i]
    BY DEF Cancelled
  <1>2. \A i \in 1..Len(orders) :
           /\ orders'[i] \in Order
           /\ orders'[i].by = orders[i].by /\ orders'[i].sym = orders[i].sym
           /\ orders'[i].side = orders[i].side /\ orders'[i].price = orders[i].price
           /\ orders'[i].state = IF i \in S THEN "cancelled" ELSE orders[i].state
           /\ orders'[i].cut = IF i \in S THEN c ELSE orders[i].cut
    <2> SUFFICES ASSUME NEW i \in 1..Len(orders)
                 PROVE  /\ orders'[i] \in Order
                        /\ orders'[i].by = orders[i].by /\ orders'[i].sym = orders[i].sym
                        /\ orders'[i].side = orders[i].side /\ orders'[i].price = orders[i].price
                        /\ orders'[i].state = IF i \in S THEN "cancelled" ELSE orders[i].state
                        /\ orders'[i].cut = IF i \in S THEN c ELSE orders[i].cut
      OBVIOUS
    <2>1. orders[i] \in Order
      BY <1>0
    <2>2. CASE i \in S
      <3>1. orders'[i] = [orders[i] EXCEPT !.state = "cancelled", !.cut = c]
        BY <1>1, <2>2
      <3>2. "cancelled" \in States /\ c \in Calls \cup {None}
        BY DEF States
      <3> DEFINE o == [orders[i] EXCEPT !.state = "cancelled"]
      <3>3. /\ o \in Order /\ o.state = "cancelled" /\ o.by = orders[i].by
            /\ o.sym = orders[i].sym /\ o.side = orders[i].side
            /\ o.price = orders[i].price
        BY <2>1, <3>2 DEF Order
      <3>4. orders'[i] = [o EXCEPT !.cut = c]
        BY <3>1, Zenon
      <3> HIDE DEF o
      <3> QED
        BY <2>2, <3>2, <3>3, <3>4 DEF Order
    <2>3. CASE i \notin S
      BY <1>1, <2>1, <2>3
    <2> QED
      BY <2>2, <2>3
  <1>3. orders' \in [1..Len(orders) -> Order]
    BY <1>2 DEF Cancelled
  <1>4. orders' \in Seq(Order)
    BY <1>0, <1>3, SeqDef
  <1>5. Len(orders') = Len(orders)
    BY <1>0, <1>3, <1>4, LenProperties
  <1>6. \A d \in Calls : Placed(d)' = Placed(d)
    BY <1>2, <1>5 DEF Placed
  <1>7. \A i \in S : i \in 1..Len(orders) /\ orders[i].cut = None
    BY DEF OpenOrders, OfSymbol, OpenIsUncut
  <1>8. \A d \in Calls \ {c} : Cut(d)' = Cut(d)
    BY <1>2, <1>5, <1>7, TradingAssumption DEF Cut
  <1>9. Cut(c)' = Cut(c) \cup S
    BY <1>2, <1>5, <1>7 DEF Cut
  <1> QED
    BY <1>2, <1>4, <1>5, <1>6, <1>8, <1>9

\* What an order is, who placed and who cancelled it stay when it settles.
LEMMA AccountAfterSettling ==
    ASSUME orders \in Seq(Order), NEW k \in 1..Len(orders), NEW state \in States,
           orders' = [orders EXCEPT ![k].state = state]
    PROVE  /\ orders' \in Seq(Order) /\ Len(orders') = Len(orders)
           /\ \A i \in 1..Len(orders) \ {k} : orders'[i] = orders[i]
           /\ orders'[k] = [orders[k] EXCEPT !.state = state]
           /\ \A d \in Calls : Placed(d)' = Placed(d) /\ Cut(d)' = Cut(d)
  <1>a. orders[k] \in Order
    BY ElementOfSeq
  <1>0. orders[k] \in Order /\ [orders[k] EXCEPT !.state = state] \in Order
    BY <1>a DEF Order
  <1>1. /\ orders' \in Seq(Order) /\ Len(orders') = Len(orders)
        /\ \A i \in 1..Len(orders) :
              orders'[i] = IF i = k THEN [orders[k] EXCEPT !.state = state] ELSE orders[i]
    BY <1>0, ExceptSeq
  <1>2. \A i \in 1..Len(orders) : orders'[i].by = orders[i].by /\ orders'[i].cut = orders[i].cut
    BY <1>0, <1>1 DEF Order
  <1> QED
    BY <1>1, <1>2 DEF Placed, Cut

-----------------------------------------------------------------------------
(* What a step does to its own call and to others                          *)

\* What an answer tells of orders holds of the account.
Truthful(a) ==
    \A t \in a.told :
        t.id \in 1..Len(orders) /\ Says(t.status, orders[t.id].state)

\* No order goes, and what may be said of one stays true.
WordsStay ==
    /\ Len(orders) \in Nat /\ Len(orders') \in Nat /\ Len(orders) <= Len(orders')
    /\ \A i \in 1..Len(orders) : \A status :
          Says(status, orders[i].state) => Says(status, orders'[i].state)

\* So what was true of the account remains so.
LEMMA TruthStays ==
    ASSUME WordsStay, NEW a, Truthful(a)
    PROVE  Truthful(a)'
  <1>1. \A i \in 1..Len(orders) : i \in 1..Len(orders')
    BY DEF WordsStay
  <1> SUFFICES ASSUME NEW t \in a.told
               PROVE  t.id \in 1..Len(orders') /\ Says(t.status, orders'[t.id].state)
    BY DEF Truthful
  <1> QED
    BY <1>1 DEF Truthful, WordsStay

\* Everything told so far is true.
LEMMA AnswersAreTruthful ==
    ASSUME TradingInv, NEW c \in Calls, answer[c] # None
    PROVE  Truthful(answer[c])
  BY DEF TradingInv, CallInv, FinalStaysTrue, Truthful

\* The handler of c returns, and a is the answer unless its caller has gone.
LEMMA ReplyReturns ==
    ASSUME TypeOK, NEW c \in Calls, NEW a \in Answer, Reply(c, a)
    PROVE  /\ pc' \in [Calls -> {"idle", "client", "ticker", "exchange", "done"}]
           /\ answer' \in [Calls -> Answer \cup {None}]
           /\ pc'[c] = "done"
           /\ answer'[c] = IF answer[c] = None THEN a ELSE answer[c]
           /\ \A d \in Calls \ {c} : pc'[d] = pc[d] /\ answer'[d] = answer[d]
  BY DEF TypeOK, Reply

\* What is said of a call stays true while only others move.
LEMMA OtherCallsKeep ==
    ASSUME NEW d \in Calls, CallInv(d), WordsStay,
           req'[d] = req[d], pc'[d] = pc[d], ask'[d] = ask[d], answer'[d] = answer[d],
           Placed(d)' = Placed(d), Cut(d)' = Cut(d)
    PROVE  CallInv(d)'
  <1>1. \A i \in 1..Len(orders) : i \in 1..Len(orders')
    BY DEF WordsStay
  <1> QED
    BY <1>1 DEF CallInv, Creates

\* The answer with which a call ends fits its effects, or its caller has gone.
LEMMA DoneCallIsFine ==
    ASSUME TradingInv, NEW c \in Calls, pc[c] # "done",
           NEW a \in Answer, Reply(c, a), Truthful(a)',
           \A i, j \in Placed(c)' : i = j,
           a.code \in Definite => Placed(c)' = {} /\ Cut(c)' = {}
    PROVE  /\ CallInv(c)'
           /\ answer'[c] \in {a, Just("DeadlineExceeded")}
  <1>1. /\ pc'[c] = "done"
        /\ answer'[c] = IF answer[c] = None THEN a ELSE answer[c]
    BY ReplyReturns DEF TradingInv
  <1>2. answer[c] \in {None, Just("DeadlineExceeded")}
    BY DEF TradingInv, CallInv
  <1>3. CASE answer'[c] = a
    BY <1>1, <1>3 DEF CallInv, Truthful
  <1>4. CASE answer'[c] = Just("DeadlineExceeded")
    <2>1. answer'[c].code \notin Definite /\ answer'[c].told = {}
      BY <1>4, JustAnswers DEF Just, Definite
    <2> QED
      BY <1>1, <1>4, <2>1 DEF CallInv
  <1> QED
    BY <1>1, <1>2, <1>3, <1>4

-----------------------------------------------------------------------------
(* What a step preserves                                                   *)

\* What an answer says of its call's effects holds.
Fits(c, a) ==
    /\ Truthful(a)
    /\ a.code \in Definite => Placed(c) = {} /\ Cut(c) = {}
    /\ a.code = "OK" =>
          /\ Creates(c) => {t.id : t \in a.told} = Placed(c) /\ Placed(c) # {}
          /\ req[c].op = "CancelOrder" => req[c].id \in Cut(c)

\* A step that ends a call with an answer that fits, and leaves the account in
\* order, keeps the invariant.
LEMMA EndOfCallPreserves ==
    ASSUME TradingInv, NEW c \in Calls, pc[c] # "done",
           NEW a \in Answer, Reply(c, a), Fits(c, a)',
           req' \in [Calls -> Requests], ask' \in [Calls -> Prices \cup {0}],
           \A d \in Calls \ {c} : /\ req'[d] = req[d] /\ ask'[d] = ask[d]
                                  /\ Placed(d)' = Placed(d) /\ Cut(d)' = Cut(d),
           \A i, j \in Placed(c)' : i = j,
           WordsStay, orders' \in Seq(Order), OpenIsUncut', EffectsAreAskedFor'
    PROVE  TradingInv'
  <1>1. /\ pc' \in [Calls -> {"idle", "client", "ticker", "exchange", "done"}]
        /\ answer' \in [Calls -> Answer \cup {None}]
        /\ pc'[c] = "done"
        /\ \A d \in Calls \ {c} : pc'[d] = pc[d] /\ answer'[d] = answer[d]
    BY ReplyReturns DEF TradingInv
  <1>2. TypeOK'
    BY <1>1, TradingAssumption DEF TradingInv, TypeOK
  <1>3. CallInv(c)' /\ answer'[c] \in {a, Just("DeadlineExceeded")}
    BY DoneCallIsFine DEF Fits
  <1>4. \A d \in Calls \ {c} : CallInv(d)'
    BY <1>1, OtherCallsKeep DEF TradingInv
  <1>5. /\ Just("DeadlineExceeded").code # "OK"
        /\ Just("DeadlineExceeded").told = {}
    BY JustAnswers DEF Just
  <1>6. OkIsTrue'
    <2> SUFFICES ASSUME NEW d \in Calls, answer'[d] # None, answer'[d].code = "OK"
                 PROVE  /\ Creates(d)' => /\ {t.id : t \in answer'[d].told} = Placed(d)'
                                          /\ Placed(d)' # {}
                        /\ req'[d].op = "CancelOrder" => req'[d].id \in Cut(d)'
      BY DEF OkIsTrue
    <2>1. CASE d = c
      BY <1>3, <1>5, <2>1 DEF Fits
    <2>2. CASE d # c
      BY <1>1, <2>2 DEF TradingInv, OkIsTrue, Creates
    <2> QED
      BY <2>1, <2>2
  <1>7. FinalStaysTrue'
    <2>1. ASSUME NEW d \in Calls, answer'[d] # None,
                 NEW t \in answer'[d].told
          PROVE  Says(t.status, orders'[t.id].state)
      <3>1. CASE d = c
        BY <1>3, <1>5, <2>1, <3>1 DEF Fits, Truthful
      <3>2. CASE d # c
        <4>1. answer'[d] = answer[d] /\ Truthful(answer[d])
          BY <1>1, <2>1, <3>2, AnswersAreTruthful
        <4>2. Truthful(answer[d])'
          BY <4>1, TruthStays
        <4> QED
          BY <2>1, <4>1, <4>2 DEF Truthful
      <3> QED
        BY <3>1, <3>2
    <2> QED
      BY <2>1 DEF FinalStaysTrue
  <1> QED
    BY <1>2, <1>3, <1>4, <1>6, <1>7 DEF TradingInv

\* Orders that are as asked for stay so while no call but one that has had no
\* effect changes its request.
LEMMA EffectsStayAskedFor ==
    ASSUME TradingInv, NEW c \in Calls, Placed(c) = {}, Cut(c) = {},
           UNCHANGED orders, \A d \in Calls \ {c} : req'[d] = req[d]
    PROVE  EffectsAreAskedFor'
  <1>1. \A i \in 1..Len(orders) : orders[i].by # c /\ orders[i].cut # c
    BY DEF Placed, Cut
  <1>2. \A i \in 1..Len(orders) : orders[i].by \in Calls \cup {None}
                                  /\ orders[i].cut \in Calls \cup {None}
    <2>1. \A i \in 1..Len(orders) : orders[i] \in Order
      BY ElementOfSeq DEF TradingInv, TypeOK
    <2> QED
      BY <2>1 DEF Order
  <1> QED
    BY <1>1, <1>2 DEF TradingInv, EffectsAreAskedFor

\* A call goes from one place to the next.
LEMMA MovingPreserves ==
    ASSUME TradingInv, NEW c \in Calls, pc[c] # "done",
           NEW p \in {"client", "ticker", "exchange"}, pc' = [pc EXCEPT ![c] = p],
           NEW r \in Requests, req' = [req EXCEPT ![c] = r],
           NEW x \in Prices \cup {0}, ask' = [ask EXCEPT ![c] = x],
           UNCHANGED <<orders, answer>>,
           r.lacks \cap Required(r.op) = {},
           p = "ticker" => r.op = "CreateMarketOrder" /\ r.side = "buy",
           p = "exchange" /\ r.op \in {"CreateMarketOrder", "CreateLimitOrder"} =>
              /\ r.side # "other"
              /\ r.op = "CreateMarketOrder" /\ r.side = "buy" => x # 0
    PROVE  TradingInv'
  <1>1. TypeOK' /\ req' \in [Calls -> Requests]
    BY TradingAssumption DEF TradingInv, TypeOK
  <1>2. /\ req'[c] = r /\ pc'[c] = p /\ ask'[c] = x
        /\ \A d \in Calls \ {c} : req'[d] = req[d] /\ pc'[d] = pc[d] /\ ask'[d] = ask[d]
    BY DEF TradingInv, TypeOK
  <1>3. \A d \in Calls : Placed(d)' = Placed(d) /\ Cut(d)' = Cut(d)
    BY DEF Placed, Cut
  <1>4. /\ Placed(c) = {} /\ Cut(c) = {}
        /\ answer[c] \in {None, Just("DeadlineExceeded")}
    BY DEF TradingInv, CallInv
  <1>5. /\ Just("DeadlineExceeded").code \notin Definite \cup {"OK"}
        /\ Just("DeadlineExceeded").told = {}
    BY DEF Just, Definite
  <1>6. CallInv(c)'
    BY <1>2, <1>3, <1>4, <1>5 DEF CallInv, Creates
  <1>7. WordsStay
    BY LenProperties DEF WordsStay, TradingInv, TypeOK
  <1>8. \A d \in Calls \ {c} : CallInv(d)'
    BY <1>2, <1>3, <1>7, OtherCallsKeep DEF TradingInv
  <1>9. EffectsAreAskedFor'
    BY <1>2, <1>4, EffectsStayAskedFor
  <1>10. OkIsTrue'
    <2>1. answer[c] # None => answer[c].code # "OK"
      BY <1>4, <1>5
    <2> QED
      BY <1>2, <1>3, <2>1 DEF TradingInv, OkIsTrue, Creates
  <1>11. OpenIsUncut' /\ FinalStaysTrue'
    BY DEF TradingInv, OpenIsUncut, FinalStaysTrue
  <1> QED
    BY <1>1, <1>6, <1>8, <1>9, <1>10, <1>11 DEF TradingInv

\* A call ends without an effect: only a handler that changes nothing says OK.
LEMMA AnsweringPreserves ==
    ASSUME TradingInv, NEW c \in Calls, pc[c] # "done",
           NEW a \in Answer, Reply(c, a), Truthful(a), UNCHANGED <<orders, ask>>,
           NEW r \in Requests, req' = [req EXCEPT ![c] = r],
           a.code = "OK" => r.op \notin {"CreateMarketOrder", "CreateLimitOrder",
                                         "CancelOrder", "CancelAllOrders"}
    PROVE  TradingInv'
  <1>1. /\ req' \in [Calls -> Requests] /\ req'[c] = r
        /\ \A d \in Calls \ {c} : req'[d] = req[d]
    BY DEF TradingInv
  <1>2. \A d \in Calls : Placed(d)' = Placed(d) /\ Cut(d)' = Cut(d)
    BY DEF Placed, Cut
  <1>3. Placed(c) = {} /\ Cut(c) = {}
    BY DEF TradingInv, CallInv
  <1>4. Fits(c, a)'
    BY <1>1, <1>2, <1>3 DEF Fits, Truthful, Creates
  <1>5. WordsStay
    BY LenProperties DEF WordsStay, TradingInv, TypeOK
  <1>6. EffectsAreAskedFor'
    BY <1>1, <1>3, EffectsStayAskedFor
  <1>7. /\ orders' \in Seq(Order) /\ OpenIsUncut'
        /\ ask' \in [Calls -> Prices \cup {0}]
        /\ \A d \in Calls : ask'[d] = ask[d]
    BY DEF TradingInv, TypeOK, OpenIsUncut
  <1>8. \A i, j \in Placed(c)' : i = j
    BY <1>2, <1>3
  <1> QED
    BY <1>1, <1>2, <1>4, <1>5, <1>6, <1>7, <1>8, EndOfCallPreserves

\* A call ends with an error, and nothing happened.
LEMMA FailingPreserves ==
    ASSUME TradingInv, NEW c \in Calls, pc[c] # "done",
           NEW errors \in SUBSET Errors, Fails(c, errors), UNCHANGED <<orders, req, ask>>
    PROVE  TradingInv'
  <1>1. PICK a \in Answer : Reply(c, a) /\ a.code # "OK" /\ a.told = {}
    BY FailsReplies
  <1>2. req[c] \in Requests /\ req' = [req EXCEPT ![c] = req[c]]
    BY DEF TradingInv
  <1>3. Truthful(a)
    BY <1>1 DEF Truthful
  <1> QED
    BY <1>1, <1>2, <1>3, AnsweringPreserves

\* A request has what its handler insists on.
LEMMA HandlerHasWhatItNeeds ==
    ASSUME TradingInv, NEW c \in Calls, pc[c] = "exchange"
    PROVE  /\ req[c] \in Request /\ req[c].lacks \cap Required(req[c].op) = {}
           /\ Creates(c) => req[c].sym \in Symbols /\ req[c].side \in {"buy", "sell"}
           /\ req[c].op = "CreateLimitOrder" => req[c].price \in Prices
           /\ req[c].op = "CreateMarketOrder" /\ req[c].side = "buy" => ask[c] \in Prices
  <1>1. req[c] \in Requests /\ req[c] \in Request
    BY TradingAssumption DEF TradingInv
  <1>2. req[c].lacks \cap Required(req[c].op) = {}
    BY DEF TradingInv, TypeOK
  <1>3. Creates(c) => "symbol" \in Required(req[c].op)
    BY DEF Creates, Required
  <1>4. Creates(c) => req[c].sym # None
    BY <1>1, <1>2, <1>3, TradingAssumption
  <1>5. Creates(c) => req[c].side # "other"
    BY DEF TradingInv, CallInv
  <1>6. req[c].op = "CreateMarketOrder" /\ req[c].side = "buy" => ask[c] # 0
    BY DEF TradingInv, CallInv, Creates
  <1>7. ask[c] \in Prices \cup {0}
    BY DEF TradingInv, TypeOK
  <1> QED
    BY <1>1, <1>2, <1>4, <1>5, <1>6, <1>7 DEF Request

\* An order is placed, and the answer is an ambiguous error or names the order.
LEMMA PlacingPreserves ==
    ASSUME TradingInv, NEW c \in Calls, pc[c] = "exchange", Creates(c),
           NEW price \in Prices \cup {0}, NEW state \in States,
           orders' = Append(orders, Sent(c, price, state)), UNCHANGED <<req, ask>>,
           req[c].op = "CreateLimitOrder" => price = req[c].price,
           req[c].op = "CreateMarketOrder" /\ req[c].side = "buy" => price # 0,
           \/ Fails(c, Ambiguous)
           \/ \E w \in WordsOf(state) : Reply(c, Tells({buildOrder(Len(orders) + 1, w)}))
    PROVE  TradingInv'
  <1>0. orders \in Seq(Order) /\ Len(orders) \in Nat
    BY LenProperties DEF TradingInv, TypeOK
  <1> PICK n \in Nat : n = Len(orders) + 1
    BY <1>0
  <1>1. /\ orders \in Seq(Order) /\ Len(orders) \in Nat /\ n = Len(orders) + 1
        /\ Placed(c) = {} /\ Cut(c) = {}
    BY <1>0 DEF TradingInv, CallInv
  <1>2. Sent(c, price, state) \in Order
    BY HandlerHasWhatItNeeds DEF Sent, Order, Request
  <1>3. /\ orders' \in Seq(Order) /\ Len(orders') = n
        /\ \A i \in 1..Len(orders) : orders'[i] = orders[i]
        /\ orders'[n] = Sent(c, price, state)
        /\ Placed(c)' = {n} /\ Cut(c)' = {}
        /\ \A d \in Calls \ {c} : Placed(d)' = Placed(d)
        /\ \A d \in Calls : Cut(d)' = Cut(d)
    BY <1>1, <1>2, AccountAfterPlacing DEF Sent
  <1>4. WordsStay
    BY <1>1, <1>3 DEF WordsStay
  <1>5. \A i : i \in 1..n <=> i \in 1..Len(orders) \/ i = n
    BY <1>1
  <1>6. OpenIsUncut'
    BY <1>3, <1>5 DEF OpenIsUncut, TradingInv, Sent
  <1>7. EffectsAreAskedFor'
    <2>1. /\ Sent(c, price, state).by = c /\ Sent(c, price, state).cut = None
          /\ Sent(c, price, state).sym = req[c].sym /\ Sent(c, price, state).side = req[c].side
          /\ Sent(c, price, state).price = price
      BY DEF Sent
    <2>2. \/ req[c].op = "CreateLimitOrder" /\ price = req[c].price
          \/ req[c].op = "CreateMarketOrder" /\ (req[c].side = "buy" => price # 0)
      BY DEF Creates
    <2> QED
      BY <1>3, <1>5, <2>1, <2>2 DEF EffectsAreAskedFor, TradingInv
  <1>8. \E a \in Answer : Reply(c, a) /\ Fits(c, a)'
    <2>1. CASE Fails(c, Ambiguous)
      <3>1. PICK a \in Answer : /\ Reply(c, a) /\ a.code # "OK" /\ a.told = {}
                                /\ a.code \notin Definite
        BY <2>1, FailsReplies DEF Errors
      <3> QED
        BY <3>1 DEF Fits, Truthful
    <2>2. ASSUME NEW w \in WordsOf(state), Reply(c, Tells({buildOrder(n, w)}))
          PROVE  \E a \in Answer : Reply(c, a) /\ Fits(c, a)'
      <3>1. PICK t \in [id : Nat, status : Statuses] :
                  t = buildOrder(n, w) /\ t.id = n /\ Says(t.status, state)
        BY OrderTold
      <3> PICK a \in Answer : a = Tells({t}) /\ a.code = "OK" /\ a.told = {t}
        BY TellsAnswers
      <3>2. orders'[n].state = state /\ n \in 1..Len(orders')
        BY <1>1, <1>3 DEF Sent
      <3>3. Truthful(a)'
        BY <3>1, <3>2 DEF Truthful
      <3>4. {x.id : x \in a.told} = {n}
        BY <3>1, Zenon
      <3>5. req'[c] = req[c] /\ req[c].op \notin {"CancelOrder", "CancelAllOrders"}
        BY DEF Creates
      <3>6. Fits(c, a)'
        BY <1>3, <3>3, <3>4, <3>5 DEF Fits, Definite
      <3> QED
        BY <2>2, <3>1, <3>6
    <2> QED
      BY <1>1, <2>1, <2>2
  <1>9. /\ req' \in [Calls -> Requests] /\ ask' \in [Calls -> Prices \cup {0}]
        /\ \A d \in Calls : req'[d] = req[d] /\ ask'[d] = ask[d]
    BY DEF TradingInv, TypeOK
  <1>10. \A i, j \in Placed(c)' : i = j
    BY <1>3
  <1> QED
    BY <1>3, <1>4, <1>6, <1>7, <1>8, <1>9, <1>10, EndOfCallPreserves

\* Open orders the call names are cancelled, and the answer is OK or an ambiguous
\* error.
LEMMA CancellingPreserves ==
    ASSUME TradingInv, NEW c \in Calls, pc[c] = "exchange",
           NEW S \in SUBSET OpenOrders(c), orders' = Cancelled(c, S), UNCHANGED <<req, ask>>,
           NEW a \in Answer, Reply(c, a), a.told = {}, a.code \notin Definite,
           \/ req[c].op = "CancelOrder" /\ S = {req[c].id}
           \/ req[c].op = "CancelAllOrders"
    PROVE  TradingInv'
  <1>1. /\ orders \in Seq(Order) /\ Len(orders) \in Nat /\ OpenIsUncut
        /\ Placed(c) = {} /\ Cut(c) = {}
    BY LenProperties DEF TradingInv, TypeOK, CallInv
  <1>2. /\ orders' \in Seq(Order) /\ Len(orders') = Len(orders)
        /\ \A d \in Calls : Placed(d)' = Placed(d)
        /\ \A d \in Calls \ {c} : Cut(d)' = Cut(d)
        /\ Cut(c)' = Cut(c) \cup S
    BY <1>1, AccountAfterCancelling
  <1>3. \A i \in S : /\ i \in 1..Len(orders) /\ orders[i].state \in Open
                     /\ req[c].sym \in {None, orders[i].sym}
    BY DEF OpenOrders, OfSymbol
  <1>4. \A i \in 1..Len(orders) :
           /\ orders'[i].by = orders[i].by /\ orders'[i].sym = orders[i].sym
           /\ orders'[i].side = orders[i].side /\ orders'[i].price = orders[i].price
           /\ orders'[i].state = IF i \in S THEN "cancelled" ELSE orders[i].state
           /\ orders'[i].cut = IF i \in S THEN c ELSE orders[i].cut
    BY <1>1, AccountAfterCancelling
  <1>5. WordsStay
    <2>1. ASSUME NEW i \in 1..Len(orders), NEW status, Says(status, orders[i].state)
          PROVE  Says(status, orders'[i].state)
      <3>1. CASE i \in S
        BY <1>3, <1>4, <2>1, <3>1, SaidStays
      <3>2. CASE i \notin S
        BY <1>4, <2>1, <3>2
      <3> QED
        BY <3>1, <3>2
    <2> QED
      BY <1>1, <1>2, <2>1 DEF WordsStay
  <1>6. OpenIsUncut'
    BY <1>1, <1>2, <1>4 DEF OpenIsUncut, Open
  <1>7. EffectsAreAskedFor'
    BY <1>2, <1>3, <1>4 DEF TradingInv, EffectsAreAskedFor
  <1>8. Fits(c, a)'
    BY <1>1, <1>2 DEF Fits, Truthful, Creates
  <1>9. /\ req' \in [Calls -> Requests] /\ ask' \in [Calls -> Prices \cup {0}]
        /\ \A d \in Calls : req'[d] = req[d] /\ ask'[d] = ask[d]
    BY DEF TradingInv, TypeOK
  <1>10. \A i, j \in Placed(c)' : i = j
    BY <1>1, <1>2
  <1> QED
    BY <1>2, <1>5, <1>6, <1>7, <1>8, <1>9, <1>10, EndOfCallPreserves

\* An open order settles: none but open orders change, and no call's effects.
LEMMA SettlePreserves ==
    ASSUME TradingInv, Settle
    PROVE  TradingInv'
  <1>1. /\ orders \in Seq(Order) /\ Len(orders) \in Nat
        /\ UNCHANGED <<req, pc, ask, answer>>
    BY LenProperties DEF TradingInv, TypeOK, Settle
  <1> PICK k \in 1..Len(orders) :
         \E state \in Becomes(orders[k].state) : orders' = [orders EXCEPT ![k].state = state]
    BY DEF Settle
  <1> PICK state \in Becomes(orders[k].state) : orders' = [orders EXCEPT ![k].state = state]
    OBVIOUS
  <1>4. orders[k] \in Order
    BY <1>1, ElementOfSeq
  <1>2. state \in States /\ orders[k].state \in Open
    BY <1>4, WordsAreKnown DEF Order
  <1>3. /\ orders' \in Seq(Order) /\ Len(orders') = Len(orders)
        /\ \A i \in 1..Len(orders) \ {k} : orders'[i] = orders[i]
        /\ orders'[k] = [orders[k] EXCEPT !.state = state]
        /\ \A d \in Calls : Placed(d)' = Placed(d) /\ Cut(d)' = Cut(d)
    BY <1>1, <1>2, AccountAfterSettling
  <1>5. \A i \in 1..Len(orders) :
           /\ orders'[i].by = orders[i].by /\ orders'[i].sym = orders[i].sym
           /\ orders'[i].side = orders[i].side /\ orders'[i].price = orders[i].price
           /\ orders'[i].cut = orders[i].cut
           /\ orders'[i].state = IF i = k THEN state ELSE orders[i].state
    BY <1>3, <1>4 DEF Order
  <1>6. WordsStay
    <2>1. ASSUME NEW i \in 1..Len(orders), NEW status, Says(status, orders[i].state)
          PROVE  Says(status, orders'[i].state)
      <3>1. CASE i = k
        BY <1>5, <2>1, <3>1, SaidStays
      <3>2. CASE i # k
        BY <1>5, <2>1, <3>2
      <3> QED
        BY <3>1, <3>2
    <2> QED
      BY <1>1, <1>3, <2>1 DEF WordsStay
  <1>7. OpenIsUncut'
    BY <1>2, <1>3, <1>5 DEF TradingInv, OpenIsUncut
  <1>8. EffectsAreAskedFor'
    BY <1>1, <1>3, <1>5 DEF TradingInv, EffectsAreAskedFor
  <1>9. \A d \in Calls : CallInv(d)'
    BY <1>1, <1>3, <1>6, OtherCallsKeep DEF TradingInv
  <1>10. OkIsTrue'
    BY <1>1, <1>3 DEF TradingInv, OkIsTrue, Creates
  <1>11. FinalStaysTrue'
    <2> SUFFICES ASSUME NEW c \in Calls, answer[c] # None
                 PROVE  Truthful(answer[c])'
      BY <1>1 DEF FinalStaysTrue, Truthful
    <2> PICK a : a = answer[c]
      OBVIOUS
    <2>1. Truthful(a)
      BY AnswersAreTruthful
    <2>2. Truthful(a)' /\ answer'[c] = a
      BY <1>1, <1>6, <2>1, TruthStays
    <2> QED
      BY <2>2 DEF Truthful
  <1>12. TypeOK' /\ req' \in [Calls -> Requests]
    BY <1>1, <1>3 DEF TradingInv, TypeOK
  <1> QED
    BY <1>7, <1>8, <1>9, <1>10, <1>11, <1>12 DEF TradingInv

\* A caller who gives up is told nothing of orders, and nothing definite.
LEMMA GiveUpPreserves ==
    ASSUME TradingInv, NEW c \in Calls, GiveUp(c)
    PROVE  TradingInv'
  <1> DEFINE a == Just("DeadlineExceeded")
  <1>1. a \in Answer /\ a.code \notin Definite \cup {"OK"} /\ a.told = {}
    BY JustAnswers DEF Codes, Definite
  <1> HIDE DEF a
  <1>2. /\ UNCHANGED <<orders, req, pc, ask>> /\ pc[c] # "done"
        /\ answer' = [answer EXCEPT ![c] = a]
    BY DEF GiveUp, a
  <1>3. /\ answer' \in [Calls -> Answer \cup {None}] /\ answer'[c] = a
        /\ \A d \in Calls \ {c} : answer'[d] = answer[d]
    BY <1>1, <1>2 DEF TradingInv, TypeOK
  <1>4. \A d \in Calls : Placed(d)' = Placed(d) /\ Cut(d)' = Cut(d)
    BY <1>2 DEF Placed, Cut
  <1>5. WordsStay
    BY <1>2, LenProperties DEF WordsStay, TradingInv, TypeOK
  <1>6. CallInv(c)'
    BY <1>1, <1>2, <1>3, <1>4 DEF TradingInv, CallInv, Creates, a
  <1>7. \A d \in Calls \ {c} : CallInv(d)'
    BY <1>2, <1>3, <1>4, <1>5, OtherCallsKeep DEF TradingInv
  <1>8. OkIsTrue'
    BY <1>1, <1>2, <1>3, <1>4 DEF TradingInv, OkIsTrue, Creates
  <1>9. FinalStaysTrue'
    BY <1>1, <1>2, <1>3 DEF TradingInv, FinalStaysTrue
  <1>10. TypeOK' /\ req' \in [Calls -> Requests]
    BY <1>2, <1>3 DEF TradingInv, TypeOK
  <1>11. OpenIsUncut' /\ EffectsAreAskedFor'
    BY <1>2 DEF TradingInv, OpenIsUncut, EffectsAreAskedFor
  <1> QED
    BY <1>6, <1>7, <1>8, <1>9, <1>10, <1>11 DEF TradingInv

-----------------------------------------------------------------------------
(* The actions                                                             *)

LEMMA CallPreserves ==
    ASSUME TradingInv, NEW c \in Calls, Call(c)
    PROVE  TradingInv'
  <1>1. pc[c] = "idle" /\ UNCHANGED <<orders, ask>>
    BY DEF Call
  <1>2. PICK r \in Requests :
           /\ req' = [req EXCEPT ![c] = r]
           /\ IF r.lacks \cap Required(r.op) # {}
              THEN Reply(c, Just("InvalidArgument"))
              ELSE pc' = [pc EXCEPT ![c] = "client"] /\ UNCHANGED answer
    BY DEF Call
  <1>3. CASE r.lacks \cap Required(r.op) # {}
    <2>1. PICK a \in Answer : a = Just("InvalidArgument") /\ a.code # "OK" /\ a.told = {}
      BY JustAnswers DEF Codes
    <2> QED
      BY <1>1, <1>2, <1>3, <2>1, AnsweringPreserves DEF Truthful
  <1>4. CASE r.lacks \cap Required(r.op) = {}
    <2>1. ask[c] \in Prices \cup {0} /\ ask' = [ask EXCEPT ![c] = ask[c]]
      BY <1>1 DEF TradingInv, TypeOK
    <2> QED
      BY <1>1, <1>2, <1>4, <2>1, MovingPreserves
  <1> QED
    BY <1>3, <1>4

LEMMA NewClientPreserves ==
    ASSUME TradingInv, NEW c \in Calls, NewClient(c)
    PROVE  TradingInv'
  <1>1. /\ pc[c] = "client" /\ UNCHANGED <<orders, req, ask>>
        /\ req[c] \in Requests /\ req' = [req EXCEPT ![c] = req[c]]
        /\ ask[c] \in Prices \cup {0} /\ ask' = [ask EXCEPT ![c] = ask[c]]
        /\ req[c].lacks \cap Required(req[c].op) = {}
    BY DEF NewClient, TradingInv, TypeOK
  <1>2. ASSUME NEW code \in {"Internal", "Unimplemented", "InvalidArgument"},
               Reply(c, Just(code))
        PROVE  TradingInv'
    <2>1. PICK a \in Answer : a = Just(code) /\ a.code # "OK" /\ a.told = {}
      BY JustAnswers DEF Codes
    <2> QED
      BY <1>1, <1>2, <2>1, AnsweringPreserves DEF Truthful
  <1>3. CASE /\ req[c].op = "TestCredentials"
             /\ Reply(c, [Just("OK") EXCEPT !.verdict = "format"])
    <2>1. PICK a \in Answer : a = [Just("OK") EXCEPT !.verdict = "format"] /\ a.told = {}
      BY VerdictAnswers DEF Verdicts
    <2> QED
      BY <1>1, <1>3, <2>1, AnsweringPreserves DEF Truthful
  <1>4. CASE /\ ~(Creates(c) /\ req[c].side = "other")
             /\ pc' = [pc EXCEPT ![c] =
                          IF req[c].op = "CreateMarketOrder" /\ req[c].side = "buy"
                          THEN "ticker" ELSE "exchange"]
             /\ UNCHANGED answer
    <2>1. CASE req[c].op = "CreateMarketOrder" /\ req[c].side = "buy"
      BY <1>1, <1>4, <2>1, MovingPreserves
    <2>2. CASE ~(req[c].op = "CreateMarketOrder" /\ req[c].side = "buy")
      BY <1>1, <1>4, <2>2, MovingPreserves DEF Creates
    <2> QED
      BY <2>1, <2>2
  <1> QED
    BY <1>2, <1>3, <1>4 DEF NewClient

LEMMA FetchTickerPreserves ==
    ASSUME TradingInv, NEW c \in Calls, FetchTicker(c)
    PROVE  TradingInv'
  <1>1. /\ pc[c] = "ticker" /\ UNCHANGED <<orders, req>>
        /\ req[c] \in Requests /\ req' = [req EXCEPT ![c] = req[c]]
        /\ req[c].lacks \cap Required(req[c].op) = {}
        /\ req[c].op = "CreateMarketOrder" /\ req[c].side = "buy"
    BY DEF FetchTicker, TradingInv, TypeOK, CallInv
  <1>2. CASE Fails(c, Errors) /\ UNCHANGED ask
    BY <1>1, <1>2, FailingPreserves
  <1>3. CASE Reply(c, Just("Internal")) /\ UNCHANGED ask
    <2>1. PICK a \in Answer : a = Just("Internal") /\ a.code # "OK" /\ a.told = {}
      BY JustAnswers DEF Codes
    <2> QED
      BY <1>1, <1>3, <2>1, AnsweringPreserves DEF Truthful
  <1>4. ASSUME NEW price \in Prices \cup {0}, price # 0,
               ask' = [ask EXCEPT ![c] = price],
               pc' = [pc EXCEPT ![c] = "exchange"], UNCHANGED answer
        PROVE  TradingInv'
    BY <1>1, <1>4, MovingPreserves
  <1> QED
    BY <1>2, <1>3, <1>4 DEF FetchTicker

\* What the two handlers that place orders share.
LEMMA PlacePreserves ==
    ASSUME TradingInv, NEW c \in Calls, pc[c] = "exchange", Creates(c),
           NEW price \in Prices \cup {0}, Place(c, price), UNCHANGED <<req, ask>>,
           req[c].op = "CreateLimitOrder" => price = req[c].price,
           req[c].op = "CreateMarketOrder" /\ req[c].side = "buy" => price # 0
    PROVE  TradingInv'
  BY FailingPreserves, PlacingPreserves DEF Place

LEMMA CreatePreserves ==
    ASSUME TradingInv, NEW c \in Calls, CreateMarketOrder(c) \/ CreateLimitOrder(c)
    PROVE  TradingInv'
  <1>1. pc[c] = "exchange" /\ Creates(c) /\ UNCHANGED <<req, ask>>
    BY DEF CreateMarketOrder, CreateLimitOrder, At, Creates
  <1>2. CASE CreateMarketOrder(c)
    <2>1. /\ req[c].op = "CreateMarketOrder" /\ 0 \notin Prices
          /\ req[c].side = "buy" => ask[c] \in Prices
      BY <1>1, <1>2, HandlerHasWhatItNeeds, TradingAssumption DEF CreateMarketOrder, At
    <2> PICK price \in Prices \cup {0} : price = IF req[c].side = "buy" THEN ask[c] ELSE 0
      BY <2>1
    <2>2. Place(c, price)
      BY <1>2 DEF CreateMarketOrder
    <2> QED
      BY <1>1, <2>1, <2>2, PlacePreserves
  <1>3. CASE CreateLimitOrder(c)
    <2>1. /\ req[c].op = "CreateLimitOrder" /\ req[c].price \in Prices
          /\ Place(c, req[c].price)
      BY <1>1, <1>3, HandlerHasWhatItNeeds DEF CreateLimitOrder, At
    <2> QED
      BY <1>1, <2>1, PlacePreserves
  <1> QED
    BY <1>2, <1>3

\* What a look at the account tells is true of it.
LEMMA OrdersTold ==
    ASSUME orders \in Seq(Order), NEW S \in SUBSET (1..Len(orders)),
           NEW w, \A i \in S : w[i] \in WordsOf(orders[i].state)
    PROVE  LET a == Tells({buildOrder(i, w[i]) : i \in S})
           IN  a \in Answer /\ Truthful(a)
  <1>1. Len(orders) \in Nat
    BY LenProperties
  <1>2. \A i \in S : orders[i].state \in States /\ i \in Nat
    <2>1. \A i \in S : orders[i] \in Order
      BY ElementOfSeq
    <2> QED
      BY <1>1, <2>1 DEF Order
  <1>3. ASSUME NEW i \in S
        PROVE  LET t == buildOrder(i, w[i])
               IN  /\ t \in [id : Nat, status : Statuses] /\ t.id = i
                   /\ Says(t.status, orders[i].state)
    BY <1>2, OrderTold
  <1> DEFINE T == {buildOrder(i, w[i]) : i \in S}
  <1>4. /\ T \in SUBSET [id : Nat, status : Statuses]
        /\ \A t \in T : t.id \in 1..Len(orders) /\ Says(t.status, orders[t.id].state)
    BY <1>3
  <1> HIDE DEF T
  <1>5. Tells(T) \in Answer /\ Tells(T).told = T
    BY <1>4, TellsAnswers
  <1>6. Truthful(Tells(T))
    BY <1>4, <1>5 DEF Truthful
  <1> QED
    BY <1>5, <1>6 DEF T

LEMMA LookingPreserves ==
    ASSUME TradingInv, NEW c \in Calls,
           GetOrder(c) \/ ListOpenOrders(c) \/ ListClosedOrders(c)
    PROVE  TradingInv'
  <1>1. /\ pc[c] = "exchange" /\ UNCHANGED <<orders, req, ask>>
        /\ req[c] \in Requests /\ req' = [req EXCEPT ![c] = req[c]]
        /\ req[c].op \in {"GetOrder", "ListOpenOrders", "ListClosedOrders"}
        /\ orders \in Seq(Order) /\ Len(orders) \in Nat
    BY LenProperties
       DEF GetOrder, ListOpenOrders, ListClosedOrders, At, TradingInv, TypeOK
  <1>2. ASSUME NEW a \in Answer, Reply(c, a), Truthful(a)
        PROVE  TradingInv'
    BY <1>1, <1>2, AnsweringPreserves
  <1>3. CASE Fails(c, Errors)
    BY <1>1, <1>3, FailingPreserves
  <1>4. CASE /\ req[c].id \in 1..Len(orders)
             /\ \E w \in WordsOf(orders[req[c].id].state) :
                   Reply(c, Tells({buildOrder(req[c].id, w)}))
    <2>1. PICK w \in WordsOf(orders[req[c].id].state) :
             Reply(c, Tells({buildOrder(req[c].id, w)}))
      BY <1>4
    <2>2. orders[req[c].id] \in Order /\ req[c].id \in Nat
      BY <1>1, <1>4, ElementOfSeq
    <2>3. orders[req[c].id].state \in States
      BY <2>2 DEF Order
    <2> DEFINE t == buildOrder(req[c].id, w)
    <2>4. /\ t \in [id : Nat, status : Statuses] /\ t.id = req[c].id
          /\ Says(t.status, orders[req[c].id].state)
      BY <2>2, <2>3, OrderTold
    <2> HIDE DEF t
    <2>5. Tells({t}) \in Answer /\ Tells({t}).told = {t}
      BY <2>4, TellsAnswers
    <2>6. Truthful(Tells({t}))
      BY <1>4, <2>4, <2>5 DEF Truthful
    <2>7. Reply(c, Tells({t}))
      BY <2>1 DEF t
    <2> QED
      BY <1>2, <2>5, <2>6, <2>7
  <1>5. ASSUME NEW S \in SUBSET (1..Len(orders)), Lists(c, S)
        PROVE  TradingInv'
    <2>1. PICK w \in [S -> Words \cup {None}] :
             /\ \A i \in S : w[i] \in WordsOf(orders[i].state)
             /\ Reply(c, Tells({buildOrder(i, w[i]) : i \in S}))
      BY <1>5 DEF Lists
    <2> DEFINE a == Tells({buildOrder(i, w[i]) : i \in S})
    <2>2. a \in Answer /\ Truthful(a)
      BY <1>1, <2>1, OrdersTold
    <2>3. Reply(c, a)
      BY <2>1
    <2> HIDE DEF a
    <2> QED
      BY <1>2, <2>2, <2>3
  <1>6. /\ OpenOrders(c) \in SUBSET (1..Len(orders))
        /\ OfSymbol(c) \ OpenOrders(c) \in SUBSET (1..Len(orders))
    BY DEF OpenOrders, OfSymbol
  <1>7. CASE GetOrder(c)
    BY <1>3, <1>4, <1>7 DEF GetOrder
  <1>8. CASE ListOpenOrders(c)
    BY <1>3, <1>5, <1>6, <1>8 DEF ListOpenOrders
  <1>9. CASE ListClosedOrders(c)
    BY <1>3, <1>5, <1>6, <1>9 DEF ListClosedOrders
  <1> QED
    BY <1>7, <1>8, <1>9

LEMMA AccountPreserves ==
    ASSUME TradingInv, NEW c \in Calls, GetBalance(c) \/ TestCredentials(c)
    PROVE  TradingInv'
  <1>1. /\ pc[c] = "exchange" /\ UNCHANGED <<orders, req, ask>>
        /\ req[c] \in Requests /\ req' = [req EXCEPT ![c] = req[c]]
        /\ req[c].op \in {"GetBalance", "TestCredentials"}
    BY DEF GetBalance, TestCredentials, At, TradingInv
  <1>2. ASSUME NEW a \in Answer, Reply(c, a), a.told = {}
        PROVE  TradingInv'
    BY <1>1, <1>2, AnsweringPreserves DEF Truthful
  <1>3. CASE Fails(c, Errors)
    BY <1>1, <1>3, FailingPreserves
  <1>4. CASE Reply(c, Just("OK"))
    BY <1>2, <1>4, JustAnswers DEF Codes
  <1>5. CASE TestCredentials(c)
    <2>1. \A code : Verdict(code) \in Verdicts
      BY DEF Verdict, Verdicts
    <2>2. PICK v \in Verdicts : Reply(c, [Just("OK") EXCEPT !.verdict = v])
      BY <1>5, <2>1 DEF TestCredentials, Verdicts
    <2> QED
      BY <1>2, <2>2, VerdictAnswers
  <1> QED
    BY <1>3, <1>4, <1>5 DEF GetBalance

LEMMA CancelOrderPreserves ==
    ASSUME TradingInv, NEW c \in Calls, CancelOrder(c)
    PROVE  TradingInv'
  <1>1. /\ pc[c] = "exchange" /\ UNCHANGED <<req, ask>> /\ req[c].op = "CancelOrder"
    BY DEF CancelOrder, At
  <1>2. CASE Fails(c, Errors) /\ UNCHANGED orders
    BY <1>1, <1>2, FailingPreserves
  <1>3. CASE /\ req[c].id \in OpenOrders(c) /\ orders' = Cancelled(c, {req[c].id})
             /\ Fails(c, Ambiguous) \/ Reply(c, Just("OK"))
    <2>1. PICK a \in Answer : Reply(c, a) /\ a.told = {} /\ a.code \notin Definite
      BY <1>3, FailsReplies, JustAnswers DEF Errors, Codes, Definite
    <2> QED
      BY <1>1, <1>3, <2>1, CancellingPreserves
  <1> QED
    BY <1>2, <1>3 DEF CancelOrder

LEMMA CancelAllOrdersPreserves ==
    ASSUME TradingInv, NEW c \in Calls, CancelAllOrders(c)
    PROVE  TradingInv'
  <1>1. /\ pc[c] = "exchange" /\ UNCHANGED <<req, ask>> /\ req[c].op = "CancelAllOrders"
    BY DEF CancelAllOrders, At
  <1>2. CASE Fails(c, Errors) /\ UNCHANGED orders
    BY <1>1, <1>2, FailingPreserves
  <1>3. CASE orders' = Cancelled(c, OpenOrders(c)) /\ Reply(c, Just("OK"))
    <2>1. PICK a \in Answer : Reply(c, a) /\ a.told = {} /\ a.code \notin Definite
      BY <1>3, JustAnswers DEF Codes, Definite
    <2> QED
      BY <1>1, <1>3, <2>1, CancellingPreserves
  <1>4. ASSUME NEW S \in SUBSET OpenOrders(c),
               orders' = Cancelled(c, S), Fails(c, Ambiguous)
        PROVE  TradingInv'
    <2>1. PICK a \in Answer : /\ Reply(c, a) /\ a.told = {} /\ a.code # "OK"
                              /\ a.code \notin Definite
      BY <1>4, FailsReplies DEF Errors
    <2> QED
      BY <1>1, <1>4, <2>1, CancellingPreserves
  <1> QED
    BY <1>2, <1>3, <1>4 DEF CancelAllOrders

-----------------------------------------------------------------------------
(* The invariant                                                           *)

LEMMA TradingInvInit ==
    ASSUME Init
    PROVE  TradingInv
  <1>1. PICK s \in Symbols :
           orders = <<[by |-> None, sym |-> s, side |-> "sell", price |-> 0,
                       live |-> TRUE, state |-> "resting", cut |-> None]>>
    BY DEF Init
  <1>2. orders[1] \in Order /\ orders[1].by = None /\ orders[1].cut = None
    BY <1>1 DEF Order, States, Open
  <1>3. Len(orders) = 1 /\ orders \in Seq(Order)
    BY <1>1, <1>2
  <1>4. \A i \in 1..Len(orders) : i = 1
    BY <1>3
  <1>5. \A c \in Calls : Placed(c) = {} /\ Cut(c) = {}
    BY <1>2, <1>4, TradingAssumption DEF Placed, Cut
  <1>6. req \in [Calls -> Requests] /\ req \in [Calls -> Request]
    BY TradingAssumption DEF Init
  <1>7. /\ pc \in [Calls -> {"idle", "client", "ticker", "exchange", "done"}]
        /\ ask \in [Calls -> Prices \cup {0}]
        /\ answer \in [Calls -> Answer \cup {None}]
        /\ \A c \in Calls : pc[c] = "idle" /\ answer[c] = None
    BY DEF Init
  <1>8. TypeOK
    BY <1>3, <1>6, <1>7 DEF TypeOK
  <1>9. \A c \in Calls : CallInv(c)
    BY <1>5, <1>7 DEF CallInv
  <1>10. OpenIsUncut /\ EffectsAreAskedFor /\ OkIsTrue /\ FinalStaysTrue
    BY <1>2, <1>4, <1>7 DEF OpenIsUncut, EffectsAreAskedFor, OkIsTrue, FinalStaysTrue
  <1> QED
    BY <1>6, <1>8, <1>9, <1>10 DEF TradingInv

LEMMA TradingInvStutter ==
    ASSUME TradingInv, UNCHANGED vars
    PROVE  TradingInv'
  <1>1. UNCHANGED <<orders, req, pc, ask, answer>>
    BY DEF vars
  <1>2. /\ TypeOK' /\ OpenIsUncut' /\ EffectsAreAskedFor' /\ FinalStaysTrue'
        /\ req' \in [Calls -> Requests]
    BY <1>1 DEF TradingInv, TypeOK, OpenIsUncut, EffectsAreAskedFor, FinalStaysTrue
  <1>3. \A c \in Calls : CallInv(c)'
    BY <1>1 DEF TradingInv, CallInv, Placed, Cut, Creates
  <1>4. OkIsTrue'
    BY <1>1 DEF TradingInv, OkIsTrue, Placed, Cut, Creates
  <1> QED
    BY <1>2, <1>3, <1>4 DEF TradingInv

LEMMA TradingInvStep ==
    ASSUME TradingInv, [Next]_vars
    PROVE  TradingInv'
  <1>1. CASE UNCHANGED vars
    BY <1>1, TradingInvStutter
  <1>2. CASE Settle
    BY <1>2, SettlePreserves
  <1>3. CASE Wait
    BY <1>3, TradingInvStutter DEF Wait
  <1>4. ASSUME NEW c \in Calls,
               \/ Call(c) \/ NewClient(c) \/ FetchTicker(c)
               \/ CreateMarketOrder(c) \/ CreateLimitOrder(c) \/ GetOrder(c)
               \/ CancelOrder(c) \/ CancelAllOrders(c)
               \/ ListOpenOrders(c) \/ ListClosedOrders(c)
               \/ GetBalance(c) \/ TestCredentials(c)
               \/ GiveUp(c)
        PROVE  TradingInv'
    BY <1>4, CallPreserves, NewClientPreserves, FetchTickerPreserves, CreatePreserves,
       LookingPreserves, CancelOrderPreserves, CancelAllOrdersPreserves,
       AccountPreserves, GiveUpPreserves
  <1> QED
    BY <1>1, <1>2, <1>3, <1>4 DEF Next

\* The invariant holds however the calls, the exchange and the callers interleave.
THEOREM TradingInvariant == Spec => []TradingInv
  <1>1. Init => TradingInv
    BY TradingInvInit
  <1>2. TradingInv /\ [Next]_vars => TradingInv'
    BY TradingInvStep
  <1> QED
    BY <1>1, <1>2, PTL DEF Spec

\* The types hold, and a handler at the exchange has what its call needs: the
\* checks before it let no request through that lacks anything.
THEOREM TradingTypes == Spec => []TypeOK
  <1>1. TradingInv => TypeOK
    BY DEF TradingInv
  <1> QED
    BY <1>1, TradingInvariant, PTL

\* What a call did at the exchange is what its request asked for.
THEOREM EffectsAreAlwaysAskedFor == Spec => []EffectsAreAskedFor
  <1>1. TradingInv => EffectsAreAskedFor
    BY DEF TradingInv
  <1> QED
    BY <1>1, TradingInvariant, PTL

\* An OK answer is true, and stays so.
THEOREM OkIsAlwaysTrue == Spec => []OkIsTrue
  <1>1. TradingInv => OkIsTrue
    BY DEF TradingInv
  <1> QED
    BY <1>1, TradingInvariant, PTL

\* A final status that somebody was told stays true.
THEOREM FinalAlwaysStaysTrue == Spec => []FinalStaysTrue
  <1>1. TradingInv => FinalStaysTrue
    BY DEF TradingInv
  <1> QED
    BY <1>1, TradingInvariant, PTL

-----------------------------------------------------------------------------
(* The promise to the callers                                              *)

\* What the promise says of a state: a call acted once, at most, and what its
\* caller was told of that is so.
PromiseHolds ==
    /\ acts \in [Calls -> 0..1] /\ told \in [Calls -> {"nothing", "done", "not done", "unsure"}]
    /\ \A c \in Calls :
          /\ acts[c] = IF Placed(c) = {} /\ Cut(c) = {} THEN 0 ELSE 1
          /\ told[c] = "done" => acts[c] = 1
          /\ told[c] = "not done" => acts[c] = 0

\* A call placed an order or cancelled some, not both.
LEMMA OneKindOfEffect ==
    ASSUME TradingInv, NEW c \in Calls
    PROVE  /\ \A i, j \in Placed(c) : i = j
           /\ Placed(c) # {} => Cut(c) = {}
  <1>1. c # None
    BY TradingAssumption
  <1>2. Placed(c) # {} => Creates(c)
    BY <1>1 DEF TradingInv, EffectsAreAskedFor, Placed, Creates
  <1>3. Cut(c) # {} => req[c].op \in {"CancelOrder", "CancelAllOrders"}
    BY <1>1 DEF TradingInv, EffectsAreAskedFor, Cut
  <1>4. \A i, j \in Placed(c) : i = j
    BY DEF TradingInv, CallInv
  <1> QED
    BY <1>2, <1>3, <1>4 DEF Creates

LEMMA PromiseHoldsAlways == TradingInv => PromiseHolds
  <1> SUFFICES ASSUME TradingInv
               PROVE  PromiseHolds
    OBVIOUS
  <1>1. \A c \in Calls : Cardinality(Placed(c)) + (IF Cut(c) = {} THEN 0 ELSE 1)
                            = IF Placed(c) = {} /\ Cut(c) = {} THEN 0 ELSE 1
    BY OneKindOfEffect, CountOfEffects
  <1>2. \A c \in Calls : acts[c] = IF Placed(c) = {} /\ Cut(c) = {} THEN 0 ELSE 1
    BY <1>1 DEF acts
  <1>3. acts \in [Calls -> 0..1]
    BY <1>1 DEF acts
  <1>4. told \in [Calls -> {"nothing", "done", "not done", "unsure"}]
    BY DEF told
  <1>5. ASSUME NEW c \in Calls, told[c] = "done"
        PROVE  acts[c] = 1
    <2>1. answer[c] # None /\ answer[c].code = "OK" /\ (Creates(c) \/ req[c].op = "CancelOrder")
      BY <1>5 DEF told
    <2>2. Placed(c) # {} \/ Cut(c) # {}
      BY <2>1 DEF TradingInv, OkIsTrue
    <2> QED
      BY <1>2, <2>2
  <1>6. ASSUME NEW c \in Calls, told[c] = "not done"
        PROVE  acts[c] = 0
    <2>1. answer[c] # None /\ answer[c].code \in Definite
      BY <1>6 DEF told
    <2>2. Placed(c) = {} /\ Cut(c) = {}
      BY <2>1 DEF TradingInv, CallInv
    <2> QED
      BY <1>2, <2>2
  <1> QED
    BY <1>2, <1>3, <1>4, <1>5, <1>6 DEF PromiseHolds

\* No step takes an effect back, or an answer, and a call that has begun keeps
\* its request.
LEMMA StepsOnlyAdd ==
    ASSUME TradingInv, [Next]_vars, NEW c \in Calls
    PROVE  /\ Placed(c) \subseteq Placed(c)' /\ Cut(c) \subseteq Cut(c)'
           /\ answer[c] # None => answer'[c] = answer[c]
           /\ pc[c] # "idle" => req'[c] = req[c]
  <1>1. /\ orders \in Seq(Order) /\ Len(orders) \in Nat
        /\ OpenIsUncut /\ TypeOK /\ req \in [Calls -> Requests]
    BY LenProperties DEF TradingInv, TypeOK
  <1>2. CASE UNCHANGED vars
    BY <1>2 DEF vars, Placed, Cut
  <1>3. CASE Settle
    <2> PICK k \in 1..Len(orders) :
           \E state \in Becomes(orders[k].state) : orders' = [orders EXCEPT ![k].state = state]
      BY <1>3 DEF Settle
    <2>3. orders[k] \in Order
      BY <1>1, ElementOfSeq
    <2>1. PICK state \in States : orders' = [orders EXCEPT ![k].state = state]
      BY <2>3, WordsAreKnown DEF Order
    <2>2. Placed(c)' = Placed(c) /\ Cut(c)' = Cut(c)
      BY <1>1, <2>1, AccountAfterSettling
    <2> QED
      BY <1>3, <2>2 DEF Settle
  <1>4. ASSUME NEW d \in Calls, pc[d] = "exchange", Creates(d),
               NEW price \in Prices \cup {0}, NEW state \in States,
               orders' = Append(orders, Sent(d, price, state))
        PROVE  Placed(c) \subseteq Placed(c)' /\ Cut(c) \subseteq Cut(c)'
    <2>1. Sent(d, price, state) \in Order
      BY <1>4, HandlerHasWhatItNeeds DEF Sent, Order, Request
    <2>2. Sent(d, price, state).by = d /\ Sent(d, price, state).cut = None
      BY DEF Sent
    <2>3. /\ Placed(d)' = Placed(d) \cup {Len(orders) + 1}
          /\ \A e \in Calls \ {d} : Placed(e)' = Placed(e)
          /\ \A e \in Calls : Cut(e)' = Cut(e)
      BY <1>1, <1>4, <2>1, <2>2, AccountAfterPlacing
    <2> QED
      BY <2>3
  <1>5. ASSUME NEW d \in Calls, NEW S \in SUBSET OpenOrders(d), orders' = Cancelled(d, S)
        PROVE  Placed(c) \subseteq Placed(c)' /\ Cut(c) \subseteq Cut(c)'
    <2>1. /\ \A e \in Calls : Placed(e)' = Placed(e)
          /\ \A e \in Calls \ {d} : Cut(e)' = Cut(e)
          /\ Cut(d)' = Cut(d) \cup S
      BY <1>1, <1>5, AccountAfterCancelling
    <2> QED
      BY <2>1
  <1>6. ASSUME UNCHANGED orders
        PROVE  Placed(c) \subseteq Placed(c)' /\ Cut(c) \subseteq Cut(c)'
    BY <1>6 DEF Placed, Cut
  <1>7. ASSUME NEW d \in Calls, NEW a, Reply(d, a)
        PROVE  answer[c] # None => answer'[c] = answer[c]
    BY <1>1, <1>7 DEF Reply, TypeOK
  <1>8. ASSUME NEW d \in Calls, NEW errors, Fails(d, errors)
        PROVE  answer[c] # None => answer'[c] = answer[c]
    BY <1>7, <1>8 DEF Fails
  <1>9. ASSUME NEW d \in Calls, Call(d)
        PROVE  /\ UNCHANGED orders
               /\ answer[c] # None => answer'[c] = answer[c]
               /\ pc[c] # "idle" => req'[c] = req[c]
    BY <1>1, <1>7, <1>9 DEF Call
  <1>10. ASSUME NEW d \in Calls,
                NewClient(d) \/ FetchTicker(d) \/ GetOrder(d) \/ ListOpenOrders(d)
                \/ ListClosedOrders(d) \/ GetBalance(d) \/ TestCredentials(d) \/ GiveUp(d)
         PROVE  /\ UNCHANGED <<orders, req>>
                /\ answer[c] # None => answer'[c] = answer[c]
    <2>1. CASE NewClient(d)
      BY <1>7, <2>1 DEF NewClient
    <2>2. CASE FetchTicker(d)
      BY <1>7, <1>8, <2>2 DEF FetchTicker
    <2>3. CASE GetOrder(d) \/ ListOpenOrders(d) \/ ListClosedOrders(d)
      BY <1>7, <1>8, <2>3 DEF GetOrder, ListOpenOrders, ListClosedOrders, Lists
    <2>4. CASE GetBalance(d) \/ TestCredentials(d)
      BY <1>7, <1>8, <2>4 DEF GetBalance, TestCredentials
    <2>5. CASE GiveUp(d)
      BY <1>1, <2>5 DEF GiveUp, TypeOK
    <2> QED
      BY <1>10, <2>1, <2>2, <2>3, <2>4, <2>5
  <1>11. ASSUME NEW d \in Calls, CreateMarketOrder(d) \/ CreateLimitOrder(d)
         PROVE  /\ Placed(c) \subseteq Placed(c)' /\ Cut(c) \subseteq Cut(c)'
                /\ answer[c] # None => answer'[c] = answer[c]
                /\ UNCHANGED req
    <2>1. /\ pc[d] = "exchange" /\ Creates(d) /\ UNCHANGED req
          /\ \E price \in Prices \cup {0} : Place(d, price)
      <3>1. CASE CreateMarketOrder(d)
        BY <1>1, <3>1 DEF CreateMarketOrder, At, Creates, TypeOK
      <3>2. CASE CreateLimitOrder(d)
        <4>1. pc[d] = "exchange" /\ req[d].op = "CreateLimitOrder"
          BY <3>2 DEF CreateLimitOrder, At
        <4>2. req[d].price \in Prices
          BY <4>1, HandlerHasWhatItNeeds
        <4> QED
          BY <3>2, <4>1, <4>2 DEF CreateLimitOrder, Creates
      <3> QED
        BY <1>11, <3>1, <3>2
    <2> QED
      BY <1>4, <1>6, <1>7, <1>8, <2>1 DEF Place
  <1>12. ASSUME NEW d \in Calls, CancelOrder(d) \/ CancelAllOrders(d)
         PROVE  /\ Placed(c) \subseteq Placed(c)' /\ Cut(c) \subseteq Cut(c)'
                /\ answer[c] # None => answer'[c] = answer[c]
                /\ UNCHANGED req
    <2>1. CASE CancelOrder(d)
      BY <1>5, <1>6, <1>7, <1>8, <2>1 DEF CancelOrder
    <2>2. CASE CancelAllOrders(d)
      BY <1>5, <1>6, <1>7, <1>8, <2>2 DEF CancelAllOrders
    <2> QED
      BY <1>12, <2>1, <2>2
  <1> QED
    BY <1>2, <1>3, <1>6, <1>9, <1>10, <1>11, <1>12 DEF Next, Wait

\* So a step of the service is a step of the promise, of one call or of none.
LEMMA PromiseStep ==
    ASSUME TradingInv, [Next]_vars, PromiseHolds, PromiseHolds'
    PROVE  Promise!Next
  <1>1. ASSUME NEW c \in Calls
        PROVE  Promise!Step(c)
    <2>1. /\ Placed(c) \subseteq Placed(c)' /\ Cut(c) \subseteq Cut(c)'
          /\ answer[c] # None => answer'[c] = answer[c]
          /\ pc[c] # "idle" => req'[c] = req[c]
      BY StepsOnlyAdd
    <2>2. /\ acts[c] = IF Placed(c) = {} /\ Cut(c) = {} THEN 0 ELSE 1
          /\ acts'[c] = IF Placed(c)' = {} /\ Cut(c)' = {} THEN 0 ELSE 1
          /\ told'[c] \in {"nothing", "done", "not done", "unsure"}
          /\ told'[c] = "done" => acts'[c] = 1
          /\ told'[c] = "not done" => acts'[c] = 0
      BY DEF PromiseHolds
    <2>3. Promise!Act(c) \/ acts'[c] = acts[c]
      BY <2>1, <2>2 DEF Promise!Act
    <2>4. Promise!Tell(c) \/ told'[c] = told[c]
      <3>1. CASE answer[c] = None
        <4>1. told[c] = "nothing"
          BY <3>1 DEF told
        <4> QED
          BY <2>2, <4>1 DEF Promise!Tell, Promise!Told
      <3>2. CASE answer[c] # None /\ pc[c] # "idle"
        BY <2>1, <3>2 DEF told, Creates, Definite
      <3>3. CASE answer[c] # None /\ pc[c] = "idle"
        <4>1. answer[c] = Just("DeadlineExceeded") /\ answer'[c] = answer[c]
          BY <2>1, <3>3 DEF TradingInv, CallInv
        <4>2. answer[c].code \notin Definite \cup {"OK"}
          BY <4>1 DEF Just, Definite
        <4>3. told[c] = "unsure" /\ told'[c] = "unsure"
          BY <3>3, <4>1, <4>2 DEF told
        <4> QED
          BY <4>3
      <3> QED
        BY <3>1, <3>2, <3>3
    <2> QED
      BY <2>2, <2>3, <2>4 DEF Promise!Step
  <1> QED
    BY <1>1 DEF Promise!Next, Promise!Told, PromiseHolds

\* However a call ends, and whether or not its caller is still there, it acts at
\* most once, an OK is true, and a caller who got a definite code may send the
\* request again.
THEOREM TradingAlwaysKeepsPromise == Spec => TradingKeepsPromise
  <1>1. Init => Promise!Init
    <2> SUFFICES ASSUME Init
                 PROVE  Promise!Init
      OBVIOUS
    <2>1. PromiseHolds
      BY TradingInvInit, PromiseHoldsAlways
    <2>2. \A i \in 1..Len(orders) : orders[i].by = None /\ orders[i].cut = None
      BY DEF Init
    <2>3. \A c \in Calls : Placed(c) = {} /\ Cut(c) = {}
      BY <2>2, TradingAssumption DEF Placed, Cut
    <2>4. \A c \in Calls : acts[c] = 0
      BY <2>1, <2>3 DEF PromiseHolds
    <2>5. \A c \in Calls : told[c] = "nothing"
      BY DEF Init, told
    <2> QED
      BY <2>4, <2>5 DEF Promise!Init, acts, told
  <1>2. TradingInv /\ [Next]_vars /\ PromiseHolds /\ PromiseHolds' => [Promise!Next]_<<acts, told>>
    BY PromiseStep
  <1> QED
    BY <1>1, <1>2, TradingInvariant, PromiseHoldsAlways, PTL
       DEF Spec, TradingKeepsPromise, Promise!Spec, Promise!vars

=============================================================================
