-------------------------------- MODULE Gateway --------------------------------
(***************************************************************************)
(* The process (cmd/cegw/main.go) with its two servers                     *)
(* (internal/server/grpc.go, http.go), the gRPC connections by which the   *)
(* HTTP server passes REST calls to the gRPC server of the same process    *)
(* (gen/cegw/v1/*.pb.gw.go), and the calls that go through both. The       *)
(* servers start in any order, either may fail to, and a signal may arrive *)
(* at any time. A handler of the gRPC server is known here only by what    *)
(* CallPromise says of it; Trading shows that the real ones keep it. A     *)
(* handler may also never return: nothing bounds a call to an exchange.    *)
(*                                                                         *)
(* The gRPC library is modelled by what the code relies on: a connection   *)
(* is made when a call needs it; a call waits while it is being made,      *)
(* fails at once if it could not be made, and is sent again if the server  *)
(* turned it away unseen.                                                  *)
(***************************************************************************)
EXTENDS HttpAuth

CONSTANTS Calls,     \* the REST calls made
          Services,  \* the gRPC services they go to
          Requests,  \* what they may be
          Codes,     \* the gRPC codes the handlers return
          Auths,     \* the authentication settings the process may have
          KeySets,   \* the key sets the issuer may return, None among them
          MaxConnAge \* GRPC_MAX_CONN_AGE is set

VARIABLES auth,     \* the authentication settings
          main,     \* where main is
          signal,   \* a signal has arrived
          ctxDone,  \* main's context is cancelled
          errs,     \* errors in errChan
          grpc,     \* the gRPC server
          http,     \* the HTTP server
          conn,     \* per service: the gateway's connection
          served,   \* the services whose connection has been ready
          req,      \* per call: its request
          pc,       \* per call: where the HTTP server is with it
          srv,      \* per call: where the gRPC server is with it
          code,     \* per call: the gRPC code on its way back
          acts,     \* per call: how often its handler acted
          answer    \* per call: what its caller got, an HTTP status or nothing

processVars == <<auth, main, signal, ctxDone, errs>>
serverVars  == <<grpc, http, conn, served>>
callVars    == <<req, pc, srv, code, acts, answer>>
vars        == <<processVars, serverVars, callVars>>

\* A call's route, header, and whether its input is sound.
Request == [rpc : STRING, service : Services, from : {"body", "path", "query"},
            input : {"good", "bad", "empty"}, header : Header]

\* The routes: RPC and where its request is taken from.
MarketDataRoutes ==
    {[rpc |-> p[1], service |-> "MarketData", from |-> p[2]] :
        p \in {<<"GetQuotes", "body">>, <<"GetCurrentPrice", "path">>,
               <<"GetOrderBook", "query">>, <<"SearchTicker", "query">>,
               <<"ListMarkets", "query">>}}
TradingRoutes ==
    {[rpc |-> r, service |-> "Trading", from |-> "body"] :
        r \in {"CreateMarketOrder", "CreateLimitOrder", "TestCredentials", "GetBalance",
               "GetOrder", "CancelOrder", "ListOpenOrders", "ListClosedOrders",
               "CancelAllOrders"}}
MonitoringRoutes ==
    {[rpc |-> "CheckPriceAlerts", service |-> "Monitoring", from |-> "body"]}
Routes == MarketDataRoutes \cup TradingRoutes \cup MonitoringRoutes

\* The gRPC codes of the handlers; after a definite one nothing has happened.
Definite == {"InvalidArgument", "FailedPrecondition", "Unauthenticated", "NotFound",
             "ResourceExhausted", "Unimplemented"}
AllCodes == Definite \cup {"OK", "Unavailable", "Internal"}

\* What a caller may get: an HTTP status, nothing because the process ended, or
\* it went away. After the statuses of NotDone nothing has happened.
NotDone == {"400", "401", "404", "429", "501"}
Answers == NotDone \cup {"200", "499", "500", "503", "cut", "gone"}

ASSUME GatewayAssumption ==
    /\ Services \subseteq {"MarketData", "Trading", "Monitoring"}
    /\ \A r \in Requests : [rpc |-> r.rpc, service |-> r.service, from |-> r.from] \in Routes
    /\ \A r \in Requests : r.service \in Services
    /\ "InvalidArgument" \in Codes /\ Codes \subseteq AllCodes
    /\ Requests # {} /\ Auths # {} /\ None \in KeySets /\ MaxConnAge \in BOOLEAN
    /\ \A r \in Requests : r.input \in {"good", "bad", "empty"}
    /\ \A jwks \in KeySets \ {None} :  \* the issuer publishes its own keys only
          jwks \in Seq(Key) /\ \A i \in DOMAIN jwks : jwks[i].key = "issuer"
    /\ None \notin Answers \cup Codes

Init == /\ auth \in Auths
        /\ main = "started" /\ signal = FALSE /\ ctxDone = FALSE /\ errs = 0
        /\ grpc = "off" /\ http = "off"
        /\ conn = [s \in Services |-> "none"] /\ served = {}
        /\ req = [c \in Calls |-> None]
        /\ pc = [c \in Calls |-> "idle"]
        /\ srv = [c \in Calls |-> "idle"]
        /\ code = [c \in Calls |-> None]
        /\ acts = [c \in Calls |-> 0]
        /\ answer = [c \in Calls |-> None]

Up == main \notin {"killed", "exited"}
Ended == {"idle", "done"}

-----------------------------------------------------------------------------
(* main                                                                    *)

\* The process ends: what is under way is cut off.
End(how) ==
    /\ main' = how
    /\ srv' = [c \in Calls |-> IF srv[c] = "idle" THEN "idle" ELSE "done"]
    /\ pc' = [c \in Calls |-> IF pc[c] \in Ended THEN pc[c] ELSE "done"]
    /\ answer' = [c \in Calls |-> IF pc[c] \in Ended THEN answer[c] ELSE "cut"]
    /\ UNCHANGED <<auth, ctxDone, errs, serverVars, req, code, acts>>

\* SIGINT or SIGTERM. Before main has asked for signals it kills the process.
Signal ==
    /\ Up /\ ~signal /\ signal' = TRUE
    /\ IF main = "started" THEN End("killed")
       ELSE UNCHANGED <<auth, main, ctxDone, errs, serverVars, callVars>>

\* signal.Notify; the servers' goroutines are running by then.
Notify ==
    /\ main = "started" /\ main' = "select"
    /\ UNCHANGED <<auth, signal, ctxDone, errs, serverVars, callVars>>

\* The select: a server failed, or a signal came; both cancel the context.
Select ==
    /\ main = "select" /\ (errs > 0 \/ signal)
    /\ main' = "cancelled" /\ ctxDone' = TRUE
    /\ UNCHANGED <<auth, signal, errs, serverVars, callVars>>

\* A mutant: main waits for the gRPC server to have stopped.
Exit_waits ==
    /\ main = "cancelled" /\ grpc = "stopped"
    /\ End("exited") /\ UNCHANGED signal

\* main returns, and waits for nobody.
Exit ==
    /\ main = "cancelled"
    /\ End("exited") /\ UNCHANGED signal

-----------------------------------------------------------------------------
(* The servers                                                             *)

\* GRPCServer.Start: listen and serve, or fail to.
GRPCStart ==
    /\ Up /\ grpc = "off"
    /\ \/ grpc' = "serving" /\ UNCHANGED errs
       \/ grpc' = "stopped" /\ errs' = errs + 1
    /\ UNCHANGED <<auth, main, signal, ctxDone, http, conn, served, callVars>>

\* Its other goroutine: once the context is done, no new calls; those under way
\* go on, and it has stopped when they are over.
GracefulStop ==
    /\ Up /\ ctxDone
    /\ \/ grpc = "serving" /\ grpc' = "draining"
       \/ /\ grpc = "draining" /\ grpc' = "stopped"
          /\ \A c \in Calls : srv[c] \notin {"running", "stuck"}
    /\ UNCHANGED <<processVars, http, conn, served, callVars>>

\* The connections are set up, and not yet made.
Register == conn' = [s \in Services |-> "idle"]

\* HTTPServer.Start: register, then listen and serve, or fail to.
HTTPStart ==
    /\ Up /\ http = "off"
    /\ Register
    /\ \/ http' = "serving" /\ UNCHANGED errs
       \/ http' = "closed" /\ errs' = errs + 1
    /\ UNCHANGED <<auth, main, signal, ctxDone, grpc, served, callVars>>

\* Shutdown: no new calls; those under way go on.
HTTPShutdown ==
    /\ Up /\ ctxDone /\ http = "serving"
    /\ http' = "closed"
    /\ UNCHANGED <<processVars, grpc, conn, served, callVars>>

SetConn(s, to) == conn' = [conn EXCEPT ![s] = to] /\ UNCHANGED <<processVars, grpc, http>>

\* A mutant: the connection is closed when it was registered well.
CloseConn_onSuccess(s) ==
    /\ Up /\ conn[s] \notin {"none", "closed"}
    /\ SetConn(s, "closed") /\ UNCHANGED <<served, callVars>>

\* The goroutine of Register...HandlerFromEndpoint: once the context is done,
\* its connection is closed.
CloseConn(s) ==
    /\ Up /\ ctxDone /\ conn[s] \notin {"none", "closed"}
    /\ SetConn(s, "closed") /\ UNCHANGED <<served, callVars>>

\* A call needs the connection, which is made or refused.
Connect(s) ==
    /\ Up /\ conn[s] = "idle"
    /\ \E c \in Calls : pc[c] = "forward" /\ req[c].service = s
    /\ SetConn(s, IF grpc = "serving" THEN "ready" ELSE "failed")
    /\ served' = IF grpc = "serving" THEN served \cup {s} ELSE served
    /\ UNCHANGED callVars

\* After a while it may be tried again.
Backoff(s) ==
    /\ Up /\ conn[s] = "failed"
    /\ SetConn(s, "idle") /\ UNCHANGED <<served, callVars>>

\* A connection at its greatest age: the next call needs another one, the calls
\* on it go on.
AgeOut(s) ==
    /\ Up /\ MaxConnAge /\ conn[s] = "ready" /\ grpc = "serving"
    /\ SetConn(s, "idle") /\ UNCHANGED <<served, callVars>>

-----------------------------------------------------------------------------
(* A REST call                                                             *)

Goto(c, from, to) == Up /\ pc[c] = from /\ pc' = [pc EXCEPT ![c] = to]

Answer(c, from, status) ==
    Goto(c, from, "done") /\ answer' = [answer EXCEPT ![c] = status]

OnlyCall == UNCHANGED <<processVars, serverVars>>

\* A request arrives. HTTPLoggingMiddleware is the outermost;
\* HTTPBodyLoggingMiddleware reads the body to its end, before anything looks at
\* the request. What cannot be read is left out: a body cut short is a bad one.
Arrive(c) ==
    /\ http = "serving" /\ Goto(c, "idle", "auth")
    /\ \E r \in Requests : req' = [req EXCEPT ![c] = r]
    /\ OnlyCall /\ UNCHANGED <<srv, code, acts, answer>>

\* A mutant: the middleware has answered, but the request goes on.
Authenticate_goesOn(c) ==
    /\ Goto(c, "auth", "decode")
    /\ \E jwks \in KeySets :
          LET verdict == AuthMiddleware(auth, req[c].header, jwks)
          IN  answer' = IF verdict = "pass" THEN answer
                        ELSE [answer EXCEPT ![c] = verdict]
    /\ OnlyCall /\ UNCHANGED <<req, srv, code, acts>>

\* AuthMiddleware: the request goes on or is answered here.
Authenticate(c) ==
    /\ pc[c] = "auth"
    /\ \E jwks \in KeySets :
          LET verdict == AuthMiddleware(auth, req[c].header, jwks)
          IN  IF verdict = "pass"
              THEN Goto(c, "auth", "decode") /\ UNCHANGED answer
              ELSE Answer(c, "auth", verdict)
    /\ OnlyCall /\ UNCHANGED <<req, srv, code, acts>>

\* request_...: whether the request can be made out of the body, of which an
\* empty one will do, of the path, or of the query.
BodyIsGood(r) == r.input \in {"good", "empty"}
PathIsGood(r) == r.input = "good"
QueryIsGood(r) == r.input \in {"good", "empty"}

\* The handler of the route: what it cannot make a request of is InvalidArgument.
Decode(c) ==
    /\ pc[c] = "decode"
    /\ LET r == req[c]
       IN  IF \/ r.from = "body" /\ BodyIsGood(r)
              \/ r.from = "path" /\ PathIsGood(r)
              \/ r.from = "query" /\ QueryIsGood(r)
           THEN Goto(c, "decode", "forward") /\ UNCHANGED answer
           ELSE Answer(c, "decode", "400")
    /\ OnlyCall /\ UNCHANGED <<req, srv, code, acts>>

\* A mutant: a call waits until the connection can be made (WaitForReady).
Forward_waits(c) ==
    LET s == req[c].service
    IN  \/ /\ pc[c] = "forward" /\ conn[s] = "ready" /\ grpc = "serving"
           /\ Goto(c, "forward", "await")
           /\ srv' = [srv EXCEPT ![c] = "running"]
           /\ OnlyCall /\ UNCHANGED <<req, code, acts, answer>>
        \/ /\ Up /\ pc[c] = "forward" /\ conn[s] = "ready" /\ grpc # "serving"
           /\ SetConn(s, "idle") /\ UNCHANGED <<served, callVars>>
        \/ /\ pc[c] = "forward" /\ conn[s] = "closed"
           /\ Answer(c, "forward", "499")
           /\ OnlyCall /\ UNCHANGED <<req, srv, code, acts>>

\* The call is sent on the connection if that is ready. If it cannot be made the
\* call is Unavailable, if it is closed Canceled. A server that no longer takes
\* calls has the connection made anew.
Forward(c) ==
    LET s == req[c].service
    IN  \/ /\ pc[c] = "forward" /\ conn[s] = "ready" /\ grpc = "serving"
           /\ Goto(c, "forward", "await")
           /\ srv' = [srv EXCEPT ![c] = "running"]
           /\ OnlyCall /\ UNCHANGED <<req, code, acts, answer>>
        \/ /\ Up /\ pc[c] = "forward" /\ conn[s] = "ready" /\ grpc # "serving"
           /\ SetConn(s, "idle") /\ UNCHANGED <<served, callVars>>
        \/ /\ pc[c] = "forward" /\ conn[s] \in {"failed", "closed"}
           /\ Answer(c, "forward", IF conn[s] = "failed" THEN "503" ELSE "499")
           /\ OnlyCall /\ UNCHANGED <<req, srv, code, acts>>

\* The HTTP statuses of runtime.HTTPError.
HTTPStatus(k) ==
    CASE k = "OK"                                          -> "200"
      [] k \in {"InvalidArgument", "FailedPrecondition"}   -> "400"
      [] k = "Unauthenticated"                             -> "401"
      [] k = "NotFound"                                    -> "404"
      [] k = "ResourceExhausted"                           -> "429"
      [] k = "Unimplemented"                               -> "501"
      [] k = "Unavailable"                                 -> "503"
      [] OTHER                                             -> "500"

\* The handler acts or not, and returns a code that keeps CallPromise; the
\* interceptors around it log, count and pass on what it returns. It is not told
\* that its caller has gone, or does not ask.
Handle(c) ==
    /\ Up /\ srv[c] = "running"
    /\ srv' = [srv EXCEPT ![c] = "done"]
    /\ \E k \in Codes, a \in {0, 1} :
          /\ k = "OK" => a = 1
          /\ k \in Definite => a = 0
          /\ req[c].input = "empty" => k = "InvalidArgument"
          /\ code' = IF pc[c] = "await" THEN [code EXCEPT ![c] = k] ELSE code
          /\ acts' = [acts EXCEPT ![c] = @ + a]
    /\ OnlyCall /\ UNCHANGED <<req, pc, answer>>

\* The exchange never answers it.
Hang(c) ==
    /\ Up /\ srv[c] = "running"
    /\ srv' = [srv EXCEPT ![c] = "stuck"]
    /\ OnlyCall /\ UNCHANGED <<req, pc, code, acts, answer>>

\* The answer comes back.
Receive(c) ==
    /\ srv[c] = "done"
    /\ Answer(c, "await", HTTPStatus(code[c]))
    /\ code' = [code EXCEPT ![c] = None]
    /\ OnlyCall /\ UNCHANGED <<req, srv, acts>>

\* The connection was closed under the call, which is Canceled; its handler
\* goes on.
Lose(c) ==
    /\ pc[c] = "await" /\ conn[req[c].service] = "closed"
    /\ Answer(c, "await", "499")
    /\ OnlyCall /\ UNCHANGED <<req, srv, code, acts>>

\* The caller goes, or the time it set in Grpc-Timeout is up, of which it is told.
GiveUp(c) ==
    /\ \E from \in {"auth", "forward", "await"} : Answer(c, from, "gone")
    /\ OnlyCall /\ UNCHANGED <<req, srv, code, acts>>

\* The process has ended.
Over == ~Up /\ UNCHANGED vars

Next == \/ Signal \/ Notify \/ Select \/ Exit \/ Over
        \/ GRPCStart \/ GracefulStop \/ HTTPStart \/ HTTPShutdown
        \/ \E s \in Services : CloseConn(s) \/ Connect(s) \/ Backoff(s) \/ AgeOut(s)
        \/ \E c \in Calls : \/ Arrive(c) \/ Authenticate(c) \/ Decode(c)
                            \/ Forward(c) \/ Handle(c) \/ Hang(c)
                            \/ Receive(c) \/ Lose(c) \/ GiveUp(c)

\* Goroutines that can run do. A call that waits for a connection is looked at
\* again whenever the connection's state changes. No fairness for what comes
\* from outside, a body that trickles in and an issuer that is asked for its keys
\* without a time limit included, nor for GracefulStop, which nobody waits for.
\* A handler returns or is stuck.
Fairness ==
    /\ WF_vars(Notify) /\ WF_vars(Select) /\ WF_vars(Exit)
    /\ \A s \in Services : WF_vars(Connect(s))
    /\ \A c \in Calls : /\ WF_vars(Decode(c) \/ Receive(c) \/ Lose(c)) /\ SF_vars(Forward(c))
                        /\ WF_vars(Handle(c) \/ Hang(c))

Spec == Init /\ [][Next]_vars /\ Fairness

-----------------------------------------------------------------------------
(* Properties                                                              *)

\* A request that says who it is from, and is: its token is the issuer's, and by
\* and for whom the settings say, where they say it.
Authentic(h) ==
    CASE auth.type = "basic"  -> h.user = auth.user /\ h.password = auth.password
      [] auth.type = "oauth2" -> /\ h.token # None
                                 /\ h.token.key = "issuer" /\ h.token.exp # "past"
                                 /\ auth.issuer \in {"", h.token.iss}
                                 /\ auth.audience \in h.token.aud \cup {""}
      [] OTHER                -> FALSE

\* No handler runs for a request that ought to say who it is from and does not
\* (auth.go:22-56).
OnlyTheAuthenticAct ==
    \A c \in Calls : srv[c] # "idle" /\ auth.enabled => Authentic(req[c].header)

\* Types; and who handlers run for.
TypeOK ==
    /\ auth \in Auths
    /\ main \in {"started", "select", "cancelled", "exited", "killed"}
    /\ signal \in BOOLEAN /\ ctxDone \in BOOLEAN /\ errs \in 0..2
    /\ grpc \in {"off", "serving", "draining", "stopped"}
    /\ http \in {"off", "serving", "closed"}
    /\ conn \in [Services -> {"none", "idle", "ready", "failed", "closed"}]
    /\ served \subseteq Services
    /\ req \in [Calls -> Requests \cup {None}]
    /\ pc \in [Calls -> {"idle", "auth", "decode", "forward", "await", "done"}]
    /\ srv \in [Calls -> {"idle", "running", "stuck", "done"}]
    /\ acts \in [Calls -> 0..1]
    /\ OnlyTheAuthenticAct

\* What an answer comes to for its caller: after 400, 401, 404, 429 and 501 the
\* call may be made again; 499, 500, 503 and a caller that gave up leave it open.
told == [c \in Calls |->
    CASE answer[c] = None                                     -> "nothing"
      [] answer[c] = "200"                                    -> "done"
      [] answer[c] \in NotDone                                -> "not done"
      [] OTHER                                                -> "unsure"]

\* A REST caller may count on what a gRPC caller may: through starts, lost
\* connections, and the end of the process, a call acts at most once, and what
\* its status says is true.
Promise == INSTANCE CallPromise WITH acts <- acts, told <- told
RestPromise == Promise!Spec

\* Until the process is told to stop, a service that has been reached once stays
\* so: no call fails for want of a connection (http.go:60-73).
NoCallLost ==
    [][\A c \in Calls :
          /\ pc[c] = "forward" /\ answer'[c] \in {"499", "503"} /\ main' # "killed"
          => ctxDone \/ req[c].service \notin served]_vars

\* What the above rests on, call by call. An answer is the end of a call for its
\* caller, not for its handler; the gRPC server has a call only once it was let
\* in and forwarded; a handler acts when it returns, and its code says so.
CallInv(c) ==
    /\ answer[c] # None <=> pc[c] = "done"
    /\ pc[c] # "idle" => req[c] \in Requests
    /\ pc[c] \in {"idle", "auth", "decode", "forward"} => srv[c] = "idle"
    /\ pc[c] \in {"decode", "forward", "await"} \/ srv[c] # "idle" =>
          (auth.enabled => Authentic(req[c].header))
    /\ srv[c] # "done" => acts[c] = 0
    /\ pc[c] = "await" /\ srv[c] = "done" =>
          /\ code[c] \in Codes
          /\ code[c] = "OK" => acts[c] = 1
          /\ code[c] \in Definite => acts[c] = 0
    /\ answer[c] = "200" => acts[c] = 1
    /\ answer[c] \in NotDone => acts[c] = 0 /\ srv[c] \notin {"running", "stuck"}

\* A server fails to start once at most; until main has cancelled the context a
\* connection is not closed, and one that was ready can be made again, because
\* the gRPC server is there.
ServerInv ==
    /\ errs <= (IF grpc = "off" THEN 0 ELSE 1) + (IF http = "off" THEN 0 ELSE 1)
    /\ ~ctxDone => \A s \in Services :
          /\ conn[s] # "closed"
          /\ s \in served => grpc = "serving" /\ conn[s] # "failed"

GatewayInv ==
    /\ TypeOK /\ ServerInv
    /\ answer \in [Calls -> Answers \cup {None}]
    /\ code \in [Calls -> Codes \cup {None}]
    /\ \A c \in Calls : CallInv(c)

\* A signal or a server that failed ends the process, also when a handler is
\* stuck (main.go:69-78).
StopsWhenTold == (errs > 0 \/ signal) ~> ~Up

\* A call that was let in ends, unless its handler is stuck, whatever becomes of
\* the servers and the connections (http.go:60-73, *.pb.gw.go).
CallsEnd ==
    \A c \in Calls : pc[c] \in {"decode", "forward", "await"}
                     ~> (pc[c] \in Ended \/ srv[c] = "stuck")

\* main.go:74 logs "Received signal, shutting down gracefully", and http.go:167
\* gives calls ten seconds: no call is cut off.
GracefulShutdown == main = "exited" => \A c \in Calls : answer[c] # "cut"

=============================================================================
