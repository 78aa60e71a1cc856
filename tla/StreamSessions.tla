--------------------------- MODULE StreamSessions ---------------------------
(***************************************************************************)
(* The long-lived handlers: the price and order-book WebSockets            *)
(* (internal/server/websocket.go) and the gRPC StreamCurrentPrice          *)
(* (internal/service/market_data.go), over the client pool they share.     *)
(* A session acquires the exchange's client, relays what it watches, or    *)
(* polls when watching is not supported, until its peer goes away or the   *)
(* exchange fails, and releases the client on every way out. A second      *)
(* goroutine reads the connection only to notice that the peer is gone and *)
(* cancels the context; on gRPC the transport does that.                   *)
(*                                                                         *)
(* The pool is ClientPool's state and operations. What a session owes the  *)
(* pool follows from where the session is, so that the sessions implement  *)
(* ClientPool is a property, not an assumption.                            *)
(***************************************************************************)
EXTENDS Integers, FiniteSets

CONSTANTS Exchange, Unsupported, Caller, Creds, NoCreds, NoClient,
          Unspecified, MaxClients,   \* as in ClientPool
          WebSocket,         \* sessions of the two WebSocket endpoints
          GrpcStream,        \* StreamCurrentPrice calls
          Setting            \* configurations: [watches: exchanges whose Watch
                             \* call is supported, panics: poll intervals <= 0]

Stream == WebSocket \cup GrpcStream
Feeds  == {"price", "orderbook"}

ASSUME SessionAssumption ==
    /\ WebSocket \cap GrpcStream = {}
    /\ Setting \subseteq [watches : SUBSET Exchange, panics : SUBSET Feeds]

VARIABLES clients, live, borrowed, asked,  \* as in ClientPool
          pc,       \* where each session's handler is
          feed,     \* its endpoint
          want,     \* its exchangeID
          client,   \* its client variable
          ctxDone,  \* its context is cancelled
          peer,     \* its peer is still there
          reader,   \* its ReadMessage goroutine is running
          sent,     \* what its peer was sent: the last thing, and how many errors
          up,       \* the process is running
          setting   \* how the process is configured

callVars    == <<borrowed, asked>>
sessionVars == <<pc, feed, want, client, ctxDone, peer, reader, sent, up, setting>>
vars        == <<clients, live, callVars, sessionVars>>

\* Between Acquire and the deferred Release, in the order of the code.
Streaming == {"check", "watch", "write", "poll", "fetch", "pollwrite", "select",
              "fail", "release"}
Places == Streaming \cup {"closed", "refuse", "close"}

Sent    == [last : {"nothing", "update", "error"}, errors : Nat]
Nothing == [last |-> "nothing", errors |-> 0]

\* What a session owes the pool and was handed by it.
owed == [s \in Stream |-> IF pc[s] \in Streaming THEN want[s] ELSE Unspecified]
held == [s \in Stream |-> IF pc[s] \in Streaming THEN client[s] ELSE NoClient]

Pool == INSTANCE ClientPool WITH owed <- owed, held <- held

ASSUME SessionPool == Pool!PoolAssumption

Init == /\ clients  = [e \in Exchange |-> Pool!Absent]
        /\ live     = {}
        /\ borrowed = [k \in Caller |-> NoClient]
        /\ asked    = [k \in Caller |-> NoCreds]
        /\ pc       = [s \in Stream |-> "closed"]
        /\ feed     = [s \in Stream |-> "price"]
        /\ want     = [s \in Stream |-> Unspecified]
        /\ client   = [s \in Stream |-> NoClient]
        /\ ctxDone  = [s \in Stream |-> TRUE]
        /\ peer     = [s \in Stream |-> FALSE]
        /\ reader   = [s \in Stream |-> FALSE]
        /\ sent     = [s \in Stream |-> Nothing]
        /\ up       = TRUE
        /\ setting \in Setting

Goto(s, from, to) == up /\ pc[s] = from /\ pc' = [pc EXCEPT ![s] = to]

-----------------------------------------------------------------------------
(* Opening a session                                                       *)

\* parseExchangeQuery lets a WebSocket name the supported exchanges only; a
\* gRPC request may carry any enum value but UNSPECIFIED.
Accepts(s, e) == s \in WebSocket => e \notin Unsupported

\* The upgrade, the reader goroutine and Acquire. An Acquire error leads out
\* without a Release; a nil client leads to polling, which will refuse it.
Start(s, e) ==
    /\ Accepts(s, e) /\ ~reader[s]
    /\ \/ \E c \in Pool!Returnable(e, NoCreds) :
             /\ Pool!GetOrCreate(e, NoCreds, 1, c)
             /\ Goto(s, "closed", IF c = NoClient THEN "poll" ELSE "check")
             /\ client' = [client EXCEPT ![s] = c]
       \/ /\ Pool!GetOrCreateFails(e)
          /\ Goto(s, "closed", "refuse")
          /\ client' = [client EXCEPT ![s] = NoClient]
    /\ \E f \in Feeds : /\ s \in GrpcStream => f = "price"
                        /\ feed' = [feed EXCEPT ![s] = f]
    /\ want'    = [want EXCEPT ![s] = e]
    /\ ctxDone' = [ctxDone EXCEPT ![s] = FALSE]
    /\ peer'    = [peer EXCEPT ![s] = TRUE]
    /\ reader'  = [reader EXCEPT ![s] = TRUE]
    /\ sent'    = [sent EXCEPT ![s] = Nothing]
    /\ UNCHANGED <<callVars, up, setting>>

-----------------------------------------------------------------------------
(* Relaying                                                                *)

\* Everything a handler's own steps leave alone but the place it is at.
OnlyMoves == UNCHANGED <<clients, live, callVars, feed, want, client, ctxDone, peer,
                         reader, sent, up, setting>>

\* A mutant: only an update's delivery is relied on to notice the end.
CheckContext_never(s) == Goto(s, "check", "watch") /\ OnlyMoves

\* The select with a default at the head of the watch loop.
CheckContext(s) ==
    /\ Goto(s, "check", IF ctxDone[s] THEN "release" ELSE "watch")
    /\ OnlyMoves

\* WatchTicker or WatchOrderBook returns: an update, or an error, which where
\* watching is unsupported may be the one that says so. The call does not know
\* the context, so a cancelled session learns of it only here.
Watch(s) ==
    /\ \/ want[s] \in setting.watches /\ Goto(s, "watch", "write")
       \/ ctxDone[s] /\ Goto(s, "watch", "release")
       \/ ~ctxDone[s] /\ Goto(s, "watch", "fail")
       \/ /\ ~ctxDone[s] /\ want[s] \notin setting.watches
          /\ Goto(s, "watch", "poll")
    /\ OnlyMoves

\* Writing to a peer that is gone may still succeed, into a buffer; a gRPC
\* Send on a cancelled context does not. It may fail at any time.
MaySucceed(s) == s \in GrpcStream => ~ctxDone[s]

Deliver(s, from, next) ==
    /\ \/ /\ MaySucceed(s) /\ Goto(s, from, next)
          /\ sent' = [sent EXCEPT ![s] = [last |-> "update", errors |-> sent[s].errors]]
       \/ Goto(s, from, "release") /\ UNCHANGED sent
    /\ UNCHANGED <<clients, live, callVars, feed, want, client, ctxDone, peer, reader,
                   up, setting>>

Write(s) == Deliver(s, "write", "check")

-----------------------------------------------------------------------------
(* Polling                                                                 *)

\* The order book has an interval of its own, both price streams share one.
Panics(s) == feed[s] \in setting.panics

\* A mutant: the Release is called at the handler's returns instead of deferred,
\* and a panic jumps it.
StartPolling_panicJumpsRelease(s) ==
    /\ s \in WebSocket
    /\ Goto(s, "poll", IF client[s] = NoClient THEN "fail"
                       ELSE IF Panics(s) THEN "close" ELSE "fetch")
    /\ OnlyMoves

\* Polling starts: a nil client is refused, and time.NewTicker panics on an
\* interval that is not positive. net/http recovers the panic of a WebSocket
\* handler, whose deferred calls run; nothing recovers that of a gRPC handler,
\* and the process dies.
StartPolling(s) ==
    \/ /\ client[s] = NoClient
       /\ Goto(s, "poll", "fail") /\ OnlyMoves
    \/ /\ client[s] # NoClient /\ ~Panics(s)
       /\ Goto(s, "poll", "fetch") /\ OnlyMoves
    \/ /\ client[s] # NoClient /\ Panics(s) /\ s \in WebSocket
       /\ Goto(s, "poll", "release") /\ OnlyMoves
    \/ /\ client[s] # NoClient /\ Panics(s) /\ s \in GrpcStream
       /\ up /\ pc[s] = "poll" /\ up' = FALSE
       /\ UNCHANGED <<clients, live, callVars, pc, feed, want, client, ctxDone,
                      peer, reader, sent, setting>>

\* FetchTicker or FetchOrderBook returns.
Fetch(s) ==
    /\ \/ Goto(s, "fetch", "pollwrite")
       \/ Goto(s, "fetch", IF ctxDone[s] THEN "release" ELSE "fail")
    /\ OnlyMoves

PollWrite(s) == Deliver(s, "pollwrite", "select")

\* The select at the end of the poll loop; with both ready Go picks either.
SelectDone(s) == ctxDone[s] /\ Goto(s, "select", "release") /\ OnlyMoves
SelectTick(s) == Goto(s, "select", "fetch") /\ OnlyMoves

-----------------------------------------------------------------------------
(* Leaving                                                                 *)

\* The peer is told what failed: writeWebsocketError, whose own failure is
\* ignored, or the gRPC status. Nothing was acquired when it is Acquire that
\* failed.
Report(s, from, next) ==
    /\ Goto(s, from, next)
    /\ sent' = [sent EXCEPT ![s] = [last |-> "error", errors |-> sent[s].errors + 1]]
    /\ UNCHANGED <<clients, live, callVars, feed, want, client, ctxDone, peer, reader,
                   up, setting>>

\* A mutant: a failure does not end the session.
Fail_retries(s) == Report(s, "fail", "check")

Fail(s) == Report(s, "fail", "release")
Refuse(s) == Report(s, "refuse", "close")

\* The deferred ReleaseClientForExchange: by exchange, not by client.
Release(s) ==
    /\ Goto(s, "release", "close")
    /\ Pool!ReleaseEntry(want[s])
    /\ client' = [client EXCEPT ![s] = NoClient]
    /\ UNCHANGED <<callVars, feed, want, ctxDone, peer, reader, sent, up, setting>>

\* A mutant: the handler returns without closing its connection.
Close_leavesOpen(s) ==
    /\ Goto(s, "close", "closed")
    /\ want'    = [want EXCEPT ![s] = Unspecified]
    /\ feed'    = [feed EXCEPT ![s] = "price"]
    /\ ctxDone' = [ctxDone EXCEPT ![s] = TRUE]
    /\ UNCHANGED <<clients, live, callVars, client, peer, reader, sent, up, setting>>

\* The handler's deferred cancel() and conn.Close().
Close(s) ==
    /\ Goto(s, "close", "closed")
    /\ want'    = [want EXCEPT ![s] = Unspecified]
    /\ feed'    = [feed EXCEPT ![s] = "price"]
    /\ ctxDone' = [ctxDone EXCEPT ![s] = TRUE]
    /\ peer'    = [peer EXCEPT ![s] = FALSE]
    /\ UNCHANGED <<clients, live, callVars, client, reader, sent, up, setting>>

-----------------------------------------------------------------------------
(* The other side                                                          *)

\* The peer disconnects, at any time.
PeerLeaves(s) ==
    /\ up /\ pc[s] # "closed" /\ peer[s]
    /\ peer' = [peer EXCEPT ![s] = FALSE]
    /\ UNCHANGED <<clients, live, callVars, pc, feed, want, client, ctxDone, reader,
                   sent, up, setting>>

\* A mutant: the reader ends without cancelling.
ReaderEnds_noCancel(s) ==
    /\ up /\ reader[s] /\ ~peer[s]
    /\ reader' = [reader EXCEPT ![s] = FALSE]
    /\ UNCHANGED <<clients, live, callVars, pc, feed, want, client, ctxDone, peer,
                   sent, up, setting>>

\* The reader's ReadMessage fails, because the peer left or the handler closed
\* the connection: it cancels the context and ends.
ReaderEnds(s) ==
    /\ up /\ reader[s] /\ ~peer[s]
    /\ reader'  = [reader EXCEPT ![s] = FALSE]
    /\ ctxDone' = [ctxDone EXCEPT ![s] = TRUE]
    /\ UNCHANGED <<clients, live, callVars, pc, feed, want, client, peer, sent, up,
                   setting>>

\* Unary requests and the cache loader use the same pool meanwhile.
Request(k) ==
    /\ up /\ UNCHANGED sessionVars
    /\ \/ Pool!EndCall(k)
       \/ \E e \in Exchange, cr \in Creds \cup {NoCreds} : Pool!NewClientForExchange(k, e, cr)

-----------------------------------------------------------------------------
(* The three handlers                                                      *)

\* What any of them does once started.
Handler(s) ==
    \/ CheckContext(s) \/ Watch(s) \/ Write(s)
    \/ StartPolling(s) \/ Fetch(s) \/ PollWrite(s) \/ SelectDone(s) \/ SelectTick(s)
    \/ Fail(s) \/ Refuse(s) \/ Release(s) \/ Close(s)

\* streamPriceToWebsocket and pollPriceToWebsocket.
PriceWebSocket(s) == s \in WebSocket /\ feed[s] = "price" /\ Handler(s)

\* streamOrderBookToWebsocket and pollOrderBookToWebsocket.
OrderBookWebSocket(s) == feed[s] = "orderbook" /\ Handler(s)

\* StreamCurrentPrice and pollCurrentPrice.
StreamCurrentPrice(s) == s \in GrpcStream /\ Handler(s)

Step(s) == PriceWebSocket(s) \/ OrderBookWebSocket(s) \/ StreamCurrentPrice(s)

\* A process that has died stays so.
Died == ~up /\ UNCHANGED vars

Next == \/ \E s \in Stream : \/ Step(s) \/ PeerLeaves(s) \/ ReaderEnds(s)
                             \/ \E e \in Exchange : Start(s, e)
        \/ \E k \in Caller : Request(k)
        \/ Died

\* Every goroutine that can run does. That a blocked Watch or Fetch returns is
\* the exchange's doing: an update or an error comes in the end. Go's select
\* picks among ready cases at random, so it does not miss a cancelled context
\* for ever.
Fairness == \A s \in Stream : /\ WF_vars(Step(s))
                              /\ SF_vars(SelectDone(s))
                              /\ WF_vars(ReaderEnds(s))

Spec == Init /\ [][Next]_vars /\ Fairness

-----------------------------------------------------------------------------
(* Properties                                                              *)

\* Types; a running session knows its exchange, and one whose reader has ended
\* knows it is over.
TypeOK ==
    /\ pc \in [Stream -> Places]
    /\ feed \in [Stream -> Feeds]
    /\ want \in [Stream -> Exchange \cup {Unspecified}]
    /\ \A s \in Stream : pc[s] # "closed" <=> want[s] # Unspecified
    /\ client \in [Stream -> Pool!Client \cup {NoClient}]
    /\ ctxDone \in [Stream -> BOOLEAN]
    /\ peer \in [Stream -> BOOLEAN]
    /\ reader \in [Stream -> BOOLEAN]
    /\ sent \in [Stream -> Sent]
    /\ up \in BOOLEAN /\ setting \in Setting
    /\ \A s \in Stream : ~reader[s] => ctxDone[s]

\* Every way a session can end, panics included, gives the pool back exactly
\* what Acquire took: the sessions and requests implement ClientPool.
SessionsUseThePool == Pool!Spec

\* A session tells its peer of one error at most, and of nothing after it: no
\* update, and no second error.
NothingAfterError ==
    \A s \in Stream : /\ sent[s].errors <= 1
                       /\ sent[s].errors = 1 => sent[s].last = "error"

\* What the above rests on: a session has a client only while it owes a
\* Release for it, and once it has reported an error it only leaves.
SessionInv ==
    /\ TypeOK
    /\ NothingAfterError
    /\ \A s \in Stream :
          /\ pc[s] \notin Streaming => client[s] = NoClient
          /\ sent[s].errors # 0 => pc[s] \in {"release", "close", "closed"}

\* A peer that leaves is noticed: its session ends and the client is given
\* back, provided the exchange answers the call the session is blocked in.
SessionEndsAfterPeer == \A s \in Stream : ~peer[s] ~> (pc[s] = "closed" \/ ~up)

\* The reader goroutine does not outlive its session for ever.
ReaderDoesNotLeak == \A s \in Stream : pc[s] = "closed" ~> (~reader[s] \/ ~up)

=============================================================================
