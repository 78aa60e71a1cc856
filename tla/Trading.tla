-------------------------------- MODULE Trading --------------------------------
(***************************************************************************)
(* The trading service (internal/service/trading.go): nine unary handlers, *)
(* each of which checks its request, builds a client with the caller's     *)
(* credentials, makes one call to the exchange (two for a market buy) and  *)
(* maps the outcome to a gRPC answer. The calls run concurrently on one    *)
(* account at the exchange. What is hard is outside the process: a call to *)
(* the exchange can fail after it took effect, and the handlers do not     *)
(* look at the context, so that they go on for a caller who has gone.      *)
(***************************************************************************)
EXTENDS Naturals, Sequences, FiniteSets

CONSTANTS Calls,        \* the calls made, each by a goroutine of the server
          Symbols,
          Prices,       \* prices; 0 stands for none
          Ids,          \* the order ids a request may name
          Requests,     \* the requests a call may be
          SandboxMode,  \* SANDBOX_MODE of the configuration
          None          \* no symbol, no call, no answer, no word

Ops == {"CreateMarketOrder", "CreateLimitOrder", "GetBalance", "GetOrder",
        "CancelOrder", "CancelAllOrders", "ListOpenOrders", "ListClosedOrders",
        "TestCredentials"}

\* What a request may lack; "key" and "secret" are the credentials'.
Fields == {"exchange", "symbol", "side", "quantity", "price", "id",
           "credentials", "key", "secret"}

\* A request. Its side may be a number the enumeration does not know.
Request == [op : Ops, lacks : SUBSET Fields, sym : Symbols \cup {None},
            side : {"buy", "sell", "other"}, price : Prices, id : Ids,
            sandbox : BOOLEAN]

\* How an order stands at the exchange: in the book, untouched or partly filled,
\* or filled, cancelled, or turned away or expired.
Open == {"resting", "partial"}
States == Open \cup {"filled", "cancelled", "refused"}

\* The words CCXT reports of it: those that mapOrderStatus knows, and "other".
Words == {"open", "new", "closed", "filled", "partially_filled", "canceled",
          "rejected", "expired", "other"}

ASSUME TradingAssumption ==
    /\ Prices \subseteq Nat \ {0} /\ Ids \subseteq Nat
    /\ Requests # {} /\ SandboxMode \in BOOLEAN
    /\ \A r \in Requests : /\ r \in Request
                           /\ r.sym = None <=> "symbol" \in r.lacks
    /\ None \notin Symbols \cup Calls \cup Words

VARIABLES orders,  \* the account's orders at the exchange, oldest first
          req,     \* per call: its request
          pc,      \* per call: where its handler is
          ask,     \* per call: the price a market buy goes out with
          answer   \* per call: what its caller was told, or None

vars == <<orders, req, pc, ask, answer>>

\* An order: who placed it, what it is, how it stands, who cancelled it.
Order == [by : Calls \cup {None}, sym : Symbols, side : {"buy", "sell"},
          price : Prices \cup {0}, live : BOOLEAN, state : States,
          cut : Calls \cup {None}]

Statuses == {"UNSPECIFIED", "NEW", "FILLED", "PARTIALLY_FILLED", "CANCELED", "REJECTED"}
Codes == {"OK", "InvalidArgument", "Unimplemented", "FailedPrecondition",
          "Unauthenticated", "Unavailable", "ResourceExhausted", "NotFound",
          "Internal", "DeadlineExceeded"}
Verdicts == {"valid", "format", "authentication", "unavailable", "rate",
             "permission", "other", None}

\* An answer: the code, the orders in it, and what TestCredentials says of the
\* credentials. The count CancelAllOrders answers with is the length of whatever
\* list the exchange returned; it is left out.
Answer == [code : Codes, told : SUBSET [id : Nat, status : Statuses],
           verdict : Verdicts]

Just(code) == [code |-> code, told |-> {}, verdict |-> None]

\* The account has one order already, placed elsewhere.
Init ==
    /\ \E s \in Symbols :
          orders = <<[by |-> None, sym |-> s, side |-> "sell", price |-> 0,
                      live |-> TRUE, state |-> "resting", cut |-> None]>>
    /\ req \in [Calls -> {CHOOSE r \in Requests : TRUE}]
    /\ pc = [c \in Calls |-> "idle"]
    /\ ask = [c \in Calls |-> 0]
    /\ answer = [c \in Calls |-> None]

-----------------------------------------------------------------------------
(* The common part of the handlers                                         *)

\* What the checks of each handler insist on.
Required(op) ==
    {"exchange", "credentials", "key", "secret"}
    \cup CASE op = "CreateMarketOrder" -> {"symbol", "side", "quantity"}
           [] op = "CreateLimitOrder"  -> {"symbol", "side", "quantity", "price"}
           [] op = "GetOrder"          -> {"id"}
           [] op = "CancelOrder"       -> {"id", "symbol"}
           [] OTHER                    -> {}

\* The handler returns. A caller who has gone is told nothing any more.
Reply(c, a) ==
    /\ pc' = [pc EXCEPT ![c] = "done"]
    /\ answer' = [answer EXCEPT ![c] = IF answer[c] = None THEN a ELSE answer[c]]

\* A mutant: the first check that passes lets the request through.
Call_oneCheck(c) ==
    /\ pc[c] = "idle"
    /\ \E r \in Requests :
          /\ req' = [req EXCEPT ![c] = r]
          /\ IF Required(r.op) \subseteq r.lacks
             THEN Reply(c, Just("InvalidArgument"))
             ELSE pc' = [pc EXCEPT ![c] = "client"] /\ UNCHANGED answer
    /\ UNCHANGED <<orders, ask>>

\* A call comes in and its request is checked.
Call(c) ==
    /\ pc[c] = "idle"
    /\ \E r \in Requests :
          /\ req' = [req EXCEPT ![c] = r]
          /\ IF r.lacks \cap Required(r.op) # {}
             THEN Reply(c, Just("InvalidArgument"))
             ELSE pc' = [pc EXCEPT ![c] = "client"] /\ UNCHANGED answer
    /\ UNCHANGED <<orders, ask>>

Creates(c) == req[c].op \in {"CreateMarketOrder", "CreateLimitOrder"}

\* The client: it cannot be built, it is none (the exchange is not supported),
\* or the exchange is called next, for its ticker first if this is a market
\* buy. A side that is neither buy nor sell is found out here.
NewClient(c) ==
    /\ pc[c] = "client"
    /\ \/ Reply(c, IF req[c].op = "TestCredentials"
                   THEN [Just("OK") EXCEPT !.verdict = "format"]
                   ELSE Just("Internal"))
       \/ Reply(c, Just("Unimplemented"))
       \/ IF Creates(c) /\ req[c].side = "other"
          THEN Reply(c, Just("InvalidArgument"))
          ELSE /\ pc' = [pc EXCEPT ![c] =
                            IF req[c].op = "CreateMarketOrder" /\ req[c].side = "buy"
                            THEN "ticker" ELSE "exchange"]
               /\ UNCHANGED answer
    /\ UNCHANGED <<orders, req, ask>>

\* The errors of a call to the exchange. Of those in Refusals it is assumed
\* that nothing happened at the exchange; after the others something may have.
\* "ExchangeError" stands for CCXT's other types, "error" for errors not CCXT's.
Refusals == {"InsufficientFunds", "InvalidOrder", "AuthenticationError",
             "RateLimitExceeded", "BadSymbol", "PermissionDenied"}
Ambiguous == {"NetworkError", "ExchangeNotAvailable", "RequestTimeout",
              "ExchangeError", "error"}
Errors == Refusals \cup Ambiguous

\* A mutant: a request that timed out is taken for one that was turned away.
MapError_timeoutIsRefusal(e) ==
    CASE e = "InsufficientFunds"   -> "FailedPrecondition"
      [] e = "InvalidOrder"        -> "InvalidArgument"
      [] e = "AuthenticationError" -> "Unauthenticated"
      [] e \in {"NetworkError", "ExchangeNotAvailable"} -> "Unavailable"
      [] e \in {"RateLimitExceeded", "RequestTimeout"} -> "ResourceExhausted"
      [] e = "BadSymbol"           -> "NotFound"
      [] OTHER                     -> "Internal"

MapError(e) ==
    CASE e = "InsufficientFunds"   -> "FailedPrecondition"
      [] e = "InvalidOrder"        -> "InvalidArgument"
      [] e = "AuthenticationError" -> "Unauthenticated"
      [] e \in {"NetworkError", "ExchangeNotAvailable", "RequestTimeout"} -> "Unavailable"
      [] e = "RateLimitExceeded"   -> "ResourceExhausted"
      [] e = "BadSymbol"           -> "NotFound"
      [] OTHER                     -> "Internal"

\* The exchange returns an error, and nothing happened there, or the errors
\* are Ambiguous ones and something did.
Fails(c, errors) == \E e \in errors : Reply(c, Just(MapError(e)))

At(c, op) == pc[c] = "exchange" /\ req[c].op = op

\* A mutant: an expired order is one that was filled.
mapOrderStatus_expiredIsFilled(w) ==
    CASE w = None                              -> "UNSPECIFIED"
      [] w \in {"open", "new"}                 -> "NEW"
      [] w \in {"filled", "closed", "expired"} -> "FILLED"
      [] w = "partially_filled"                -> "PARTIALLY_FILLED"
      [] w = "canceled"                        -> "CANCELED"
      [] w = "rejected"                        -> "REJECTED"
      [] OTHER                                 -> "NEW"

\* The status told of an order; None if the exchange did not say.
mapOrderStatus(w) ==
    CASE w = None                      -> "UNSPECIFIED"
      [] w \in {"open", "new"}         -> "NEW"
      [] w \in {"filled", "closed"}    -> "FILLED"
      [] w = "partially_filled"        -> "PARTIALLY_FILLED"
      [] w = "canceled"                -> "CANCELED"
      [] w \in {"rejected", "expired"} -> "REJECTED"
      [] OTHER                         -> "NEW"

\* What CCXT may report of an order. That it reports an order as filled,
\* cancelled, rejected or expired only when it is so is assumed of it; it may
\* report none of this, or a partly filled order as open.
WordsOf(state) ==
    {None, "other"}
    \cup CASE state = "resting"   -> {"open", "new"}
           [] state = "partial"   -> {"open", "partially_filled"}
           [] state = "filled"    -> {"closed", "filled"}
           [] state = "cancelled" -> {"canceled"}
           [] state = "refused"   -> {"rejected", "expired"}

buildOrder(i, w) == [id |-> i, status |-> mapOrderStatus(w)]

Tells(told) == [Just("OK") EXCEPT !.told = told]

-----------------------------------------------------------------------------
(* The handlers' calls to the exchange                                     *)

\* A mutant: a buy goes out without a price when the exchange has no ask.
FetchTicker_askOnly(c) ==
    /\ pc[c] = "ticker"
    /\ \/ Fails(c, Errors) /\ UNCHANGED ask
       \/ \E a \in Prices \cup {0} :
             /\ ask' = [ask EXCEPT ![c] = a]
             /\ pc' = [pc EXCEPT ![c] = "exchange"]
             /\ UNCHANGED answer
    /\ UNCHANGED <<orders, req>>

\* A market buy is priced at the ticker's ask, or at its last price if there
\* is no ask, and is not placed if there is neither.
FetchTicker(c) ==
    /\ pc[c] = "ticker"
    /\ \/ Fails(c, Errors) /\ UNCHANGED ask
       \/ \E a, last \in Prices \cup {0} :
             LET price == IF a # 0 THEN a ELSE last
             IN  IF price = 0
                 THEN Reply(c, Just("Internal")) /\ UNCHANGED ask
                 ELSE /\ ask' = [ask EXCEPT ![c] = price]
                      /\ pc' = [pc EXCEPT ![c] = "exchange"]
                      /\ UNCHANGED answer
    /\ UNCHANGED <<orders, req>>

\* An order c sends to the exchange, at a price, as the exchange takes it.
Sent(c, price, state) ==
    [by |-> c, sym |-> req[c].sym, side |-> req[c].side, price |-> price,
     live |-> ~req[c].sandbox, state |-> state, cut |-> None]

\* The exchange takes an order or not, and the handler learns of it or not.
Place(c, price) ==
    \/ Fails(c, Errors) /\ UNCHANGED orders
    \/ \E state \in States :
          /\ orders' = Append(orders, Sent(c, price, state))
          /\ \/ Fails(c, Ambiguous)
             \/ \E w \in WordsOf(state) :
                   Reply(c, Tells({buildOrder(Len(orders) + 1, w)}))

CreateMarketOrder(c) ==
    /\ At(c, "CreateMarketOrder")
    /\ Place(c, IF req[c].side = "buy" THEN ask[c] ELSE 0)
    /\ UNCHANGED <<req, ask>>

CreateLimitOrder(c) ==
    /\ At(c, "CreateLimitOrder")
    /\ Place(c, req[c].price)
    /\ UNCHANGED <<req, ask>>

GetOrder(c) ==
    /\ At(c, "GetOrder")
    /\ \/ Fails(c, Errors)
       \/ /\ req[c].id \in 1..Len(orders)
          /\ \E w \in WordsOf(orders[req[c].id].state) :
                Reply(c, Tells({buildOrder(req[c].id, w)}))
    /\ UNCHANGED <<orders, req, ask>>

\* The orders of the request's symbol, all of them if it has none.
OfSymbol(c) ==
    {i \in 1..Len(orders) : req[c].sym \in {None, orders[i].sym}}

OpenOrders(c) == {i \in OfSymbol(c) : orders[i].state \in Open}

\* The orders of S are cancelled for c.
Cancelled(c, S) ==
    [i \in 1..Len(orders) |->
        IF i \in S THEN [orders[i] EXCEPT !.state = "cancelled", !.cut = c]
        ELSE orders[i]]

\* A mutant: the answer to a cancellation is not looked at.
CancelOrder_errorIgnored(c) ==
    /\ At(c, "CancelOrder")
    /\ \/ Reply(c, Just("OK")) /\ UNCHANGED orders
       \/ /\ req[c].id \in OpenOrders(c)
          /\ orders' = Cancelled(c, {req[c].id})
          /\ Reply(c, Just("OK"))
    /\ UNCHANGED <<req, ask>>

CancelOrder(c) ==
    /\ At(c, "CancelOrder")
    /\ \/ Fails(c, Errors) /\ UNCHANGED orders
       \/ /\ req[c].id \in OpenOrders(c)
          /\ orders' = Cancelled(c, {req[c].id})
          /\ \/ Fails(c, Ambiguous)
             \/ Reply(c, Just("OK"))
    /\ UNCHANGED <<req, ask>>

\* All or, if the exchange's answer was lost, some of the open orders go.
CancelAllOrders(c) ==
    /\ At(c, "CancelAllOrders")
    /\ \/ Fails(c, Errors) /\ UNCHANGED orders
       \/ /\ orders' = Cancelled(c, OpenOrders(c))
          /\ Reply(c, Just("OK"))
       \/ \E S \in SUBSET OpenOrders(c) :
             orders' = Cancelled(c, S) /\ Fails(c, Ambiguous)
    /\ UNCHANGED <<req, ask>>

\* The answer lists the orders of S, each with the word reported of it.
Lists(c, S) ==
    \E w \in [S -> Words \cup {None}] :
        /\ \A i \in S : w[i] \in WordsOf(orders[i].state)
        /\ Reply(c, Tells({buildOrder(i, w[i]) : i \in S}))

ListOpenOrders(c) ==
    /\ At(c, "ListOpenOrders")
    /\ Fails(c, Errors) \/ Lists(c, OpenOrders(c))
    /\ UNCHANGED <<orders, req, ask>>

ListClosedOrders(c) ==
    /\ At(c, "ListClosedOrders")
    /\ Fails(c, Errors) \/ Lists(c, OfSymbol(c) \ OpenOrders(c))
    /\ UNCHANGED <<orders, req, ask>>

GetBalance(c) ==
    /\ At(c, "GetBalance")
    /\ \/ Fails(c, Errors)
       \/ Reply(c, Just("OK"))
    /\ UNCHANGED <<orders, req, ask>>

\* What TestCredentials makes of the code an error is mapped to.
Verdict(code) ==
    CASE code = "Unauthenticated"   -> "authentication"
      [] code = "Unavailable"       -> "unavailable"
      [] code = "ResourceExhausted" -> "rate"
      [] code = "PermissionDenied"  -> "permission"
      [] OTHER                      -> "other"

\* It always answers OK, and says in the answer how the balance was refused.
TestCredentials(c) ==
    /\ At(c, "TestCredentials")
    /\ \E e \in Errors \cup {None} :
          Reply(c, [Just("OK") EXCEPT !.verdict =
                      IF e = None THEN "valid" ELSE Verdict(MapError(e))])
    /\ UNCHANGED <<orders, req, ask>>

-----------------------------------------------------------------------------
(* The callers, the exchange, and the specification                        *)

\* A caller's deadline passes, or it hangs up; its handler goes on.
GiveUp(c) ==
    /\ pc[c] \in {"client", "ticker", "exchange"} /\ answer[c] = None
    /\ answer' = [answer EXCEPT ![c] = Just("DeadlineExceeded")]
    /\ UNCHANGED <<orders, req, pc, ask>>

\* What an order can become by itself. That one which is filled, cancelled or
\* refused stays so is assumed of the exchange.
Becomes(state) ==
    CASE state = "resting" -> States \ {"resting"}
      [] state = "partial" -> States \ Open
      [] OTHER             -> {}

\* An open order is filled, or partly, refused after all, expires or is cancelled.
Settle ==
    /\ \E i \in 1..Len(orders) : \E state \in Becomes(orders[i].state) :
          orders' = [orders EXCEPT ![i].state = state]
    /\ UNCHANGED <<req, pc, ask, answer>>

\* The server waits for a call that nobody makes.
Wait ==
    /\ \A c \in Calls : pc[c] = "done"
    /\ UNCHANGED vars

Next ==
    \/ \E c \in Calls :
          \/ Call(c) \/ NewClient(c) \/ FetchTicker(c)
          \/ CreateMarketOrder(c) \/ CreateLimitOrder(c) \/ GetOrder(c)
          \/ CancelOrder(c) \/ CancelAllOrders(c)
          \/ ListOpenOrders(c) \/ ListClosedOrders(c)
          \/ GetBalance(c) \/ TestCredentials(c)
          \/ GiveUp(c)
    \/ Settle
    \/ Wait

Spec == Init /\ [][Next]_vars

-----------------------------------------------------------------------------
(* Properties                                                              *)

Placed(c) == {i \in 1..Len(orders) : orders[i].by = c}
Cut(c) == {i \in 1..Len(orders) : orders[i].cut = c}

\* Types; a handler at the exchange has what the call to it needs.
TypeOK ==
    /\ orders \in Seq(Order)
    /\ req \in [Calls -> Request]
    /\ pc \in [Calls -> {"idle", "client", "ticker", "exchange", "done"}]
    /\ ask \in [Calls -> Prices \cup {0}]
    /\ answer \in [Calls -> Answer \cup {None}]
    /\ \A c \in Calls : pc[c] \in {"client", "ticker", "exchange"} =>
          req[c].lacks \cap Required(req[c].op) = {}

\* What a call did is what it asked for: an order is as the request says, a
\* market buy has a price, and an order it cancelled is one it named.
EffectsAreAskedFor ==
    \A i \in 1..Len(orders) :
        /\ orders[i].by # None =>
              LET r == req[orders[i].by]
              IN  /\ orders[i].sym = r.sym /\ orders[i].side = r.side
                  /\ \/ r.op = "CreateLimitOrder" /\ orders[i].price = r.price
                     \/ r.op = "CreateMarketOrder" /\ (r.side = "buy" => orders[i].price # 0)
        /\ orders[i].cut # None =>
              LET r == req[orders[i].cut]
              IN  /\ \/ r.op = "CancelOrder" /\ i = r.id
                     \/ r.op = "CancelAllOrders"
                  /\ r.sym \in {None, orders[i].sym}

\* The codes after which a caller may take it that nothing happened. The
\* others, Unavailable and Internal, leave it open.
Definite == {"InvalidArgument", "Unimplemented", "FailedPrecondition",
             "Unauthenticated", "ResourceExhausted", "NotFound"}

\* How often a call acted, orders cancelled together counting once, and what its
\* answer comes to for its caller.
acts == [c \in Calls |-> Cardinality(Placed(c)) + (IF Cut(c) = {} THEN 0 ELSE 1)]
told == [c \in Calls |->
    CASE answer[c] = None                                       -> "nothing"
      [] answer[c] # None /\ answer[c].code \in Definite        -> "not done"
      [] answer[c] # None /\ answer[c].code = "OK"
            /\ (Creates(c) \/ req[c].op = "CancelOrder")        -> "done"
      [] OTHER                                                  -> "unsure"]

\* However a call ends, and whether or not its caller is still there, it acts at
\* most once, an OK is true, and a caller who got a definite code may send the
\* request again: nothing was placed or cancelled, and nothing will be
\* (error.go:21-36; trading.go:113, 122, 308).
Promise == INSTANCE CallPromise WITH acts <- acts, told <- told
TradingKeepsPromise == Promise!Spec

\* An OK answer is true: the order in it is the one the call placed, the order
\* to be cancelled was cancelled by this call.
OkIsTrue ==
    \A c \in Calls : answer[c] # None /\ answer[c].code = "OK" =>
        /\ Creates(c) => {t.id : t \in answer[c].told} = Placed(c) /\ Placed(c) # {}
        /\ req[c].op = "CancelOrder" => req[c].id \in Cut(c)

\* What a status says of an order's state.
Says(status, state) ==
    /\ status = "FILLED"           => state = "filled"
    /\ status = "CANCELED"         => state = "cancelled"
    /\ status = "REJECTED"         => state = "refused"
    /\ status = "PARTIALLY_FILLED" => state # "resting"

\* A status is true and stays so, whichever of CCXT's words it was made of and
\* whatever other calls and the exchange do: an order somebody was told is
\* filled, cancelled or rejected is that at the exchange from then on, and one
\* partly filled is never untouched again (trading.go:142-173).
FinalStaysTrue ==
    \A c \in Calls : answer[c] # None =>
        \A t \in answer[c].told : Says(t.status, orders[t.id].state)

\* What the above rests on, call by call. Until it is done a call has had no
\* effect, and told its caller at most that time is up; a market buy at the
\* exchange has a price, an order there a side the exchange knows; a call places
\* at most one order; one that got a definite code has had no effect; and the
\* orders told of are there.
CallInv(c) ==
    /\ pc[c] # "done" => /\ Placed(c) = {} /\ Cut(c) = {}
                         /\ answer[c] \in {None, Just("DeadlineExceeded")}
    /\ pc[c] = "ticker" => req[c].op = "CreateMarketOrder" /\ req[c].side = "buy"
    /\ pc[c] = "exchange" /\ Creates(c) =>
          /\ req[c].side # "other"
          /\ req[c].op = "CreateMarketOrder" /\ req[c].side = "buy" => ask[c] # 0
    /\ \A i, j \in Placed(c) : i = j
    /\ answer[c] # None =>
          /\ answer[c].code \in Definite => Placed(c) = {} /\ Cut(c) = {}
          /\ \A t \in answer[c].told : t.id \in 1..Len(orders)

\* An order somebody cancelled is not open, so that nobody cancels it again.
OpenIsUncut == \A i \in 1..Len(orders) : orders[i].state \in Open => orders[i].cut = None

TradingInv ==
    /\ TypeOK /\ req \in [Calls -> Requests]
    /\ \A c \in Calls : CallInv(c)
    /\ OpenIsUncut /\ EffectsAreAskedFor /\ OkIsTrue /\ FinalStaysTrue

\* README.md:49 says SANDBOX_MODE turns on the test mode of the exchanges.
SandboxModeHolds ==
    SandboxMode => \A i \in 1..Len(orders) : orders[i].by # None => ~orders[i].live

=============================================================================
