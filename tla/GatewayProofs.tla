----------------------------- MODULE GatewayProofs -----------------------------
(***************************************************************************)
(* Proofs about Gateway for any calls, services, requests, settings and    *)
(* key sets: no handler runs for a request that does not say who it is     *)
(* from, REST callers are promised what gRPC callers are, and no call is   *)
(* lost for want of a connection while the process runs.                   *)
(***************************************************************************)
EXTENDS Gateway, WellFoundedInduction, NaturalsInduction, TLAPS

-----------------------------------------------------------------------------
(* Authentication                                                          *)

\* A set of numbers that has any has a least one.
LEMMA MinIsMember ==
    ASSUME NEW S \in SUBSET Nat, S # {}
    PROVE  Min(S) \in S
  <1> DEFINE less == {ss \in Nat \X Nat : ss[1] < ss[2]}
  <1>1. IsWellFoundedOn(less, Nat)
    BY NatLessThanWellFounded, Zenon DEF OpToRel
  <1>2. \A x, y \in Nat : <<y, x>> \in less <=> y < x
    OBVIOUS
  <1> HIDE DEF less
  <1>3. PICK x \in S : \A y \in S : <<y, x>> \notin less
    BY <1>1, WFMin
  <1>4. ASSUME NEW y \in S PROVE x <= y
    <2>1. x \in Nat /\ y \in Nat /\ <<y, x>> \notin less
      BY <1>3
    <2> QED
      BY <1>2, <2>1
  <1> QED
    BY <1>4 DEF Min

\* The key found for a token is one the issuer published.
LEMMA KeyIsTheIssuers ==
    ASSUME NEW jwks \in KeySets, NEW token, getPublicKey(token, jwks) # None
    PROVE  getPublicKey(token, jwks).key = "issuer"
  <1> DEFINE named == {i \in DOMAIN jwks : jwks[i].kid = token.kid}
  <1>1. /\ jwks # None /\ named # {}
        /\ getPublicKey(token, jwks) = jwks[Min(named)]
    BY DEF getPublicKey
  <1>2. jwks \in Seq(Key) /\ \A i \in DOMAIN jwks : jwks[i].key = "issuer"
    BY <1>1, GatewayAssumption
  <1>3. named \in SUBSET Nat
    BY <1>2
  <1>4. Min(named) \in DOMAIN jwks
    BY <1>1, <1>3, MinIsMember
  <1> QED
    BY <1>1, <1>2, <1>4

\* Whom the middleware lets in says who it is, and is.
LEMMA OnlyTheAuthenticPass ==
    ASSUME NEW h, NEW jwks \in KeySets, auth.enabled,
           AuthMiddleware(auth, h, jwks) = "pass"
    PROVE  Authentic(h)
  <1>1. CASE auth.type = "basic"
    BY <1>1 DEF AuthMiddleware, checkBasicAuth, Authentic
  <1>2. CASE auth.type = "oauth2"
    <2>1. checkOAuth2(auth, h, jwks)
      BY <1>2 DEF AuthMiddleware
    <2>2. h.token.key = "issuer" /\ h.token.exp # "past"
      BY <2>1, KeyIsTheIssuers DEF checkOAuth2, Verified
    <2> QED
      BY <1>2, <2>1, <2>2 DEF checkOAuth2, Authentic
  <1>3. CASE auth.type \notin {"basic", "oauth2"}
    BY <1>3 DEF AuthMiddleware
  <1> QED
    BY <1>1, <1>2, <1>3

\* What the others are answered.
LEMMA AuthMiddlewareAnswers ==
    ASSUME NEW h, NEW jwks
    PROVE  AuthMiddleware(auth, h, jwks) \in {"pass", "401", "500"}
  BY DEF AuthMiddleware

\* What an HTTP status comes to.
LEMMA HTTPStatusIsTrue ==
    ASSUME NEW k \in Codes
    PROVE  /\ HTTPStatus(k) \in Answers
           /\ HTTPStatus(k) = "200" => k = "OK"
           /\ HTTPStatus(k) \in NotDone => k \in Definite
  BY GatewayAssumption DEF AllCodes, HTTPStatus, Definite, Answers, NotDone

-----------------------------------------------------------------------------
(* The steps of a call                                                     *)

\* A step of one call keeps the invariant if it keeps what is said of that call.
LEMMA CallStepPreserves ==
    ASSUME GatewayInv, NEW c \in Calls, OnlyCall,
           req' \in [Calls -> Requests \cup {None}],
           pc' \in [Calls -> {"idle", "auth", "decode", "forward", "await", "done"}],
           srv' \in [Calls -> {"idle", "running", "stuck", "done"}],
           code' \in [Calls -> Codes \cup {None}],
           acts' \in [Calls -> 0..1],
           answer' \in [Calls -> Answers \cup {None}],
           \A d \in Calls \ {c} :
              /\ req'[d] = req[d] /\ pc'[d] = pc[d] /\ srv'[d] = srv[d]
              /\ code'[d] = code[d] /\ acts'[d] = acts[d] /\ answer'[d] = answer[d],
           CallInv(c)'
    PROVE  GatewayInv'
  <1>1. UNCHANGED <<auth, main, signal, ctxDone, errs, grpc, http, conn, served>>
    BY DEF OnlyCall, processVars, serverVars
  <1>2. ServerInv'
    BY <1>1 DEF GatewayInv, ServerInv
  <1>3. ASSUME NEW d \in Calls \ {c} PROVE CallInv(d)'
    <2>1. /\ req'[d] = req[d] /\ pc'[d] = pc[d] /\ srv'[d] = srv[d]
          /\ code'[d] = code[d] /\ acts'[d] = acts[d] /\ answer'[d] = answer[d]
      OBVIOUS
    <2>2. CallInv(d)
      BY DEF GatewayInv
    <2> QED
      BY <1>1, <2>1, <2>2 DEF CallInv, Authentic
  <1>4. \A d \in Calls : srv'[d] # "idle" /\ auth'.enabled => Authentic(req[d].header)'
    BY <1>3 DEF CallInv
  <1>5. TypeOK'
    BY <1>1, <1>4 DEF GatewayInv, TypeOK, OnlyTheAuthenticAct
  <1> QED
    BY <1>2, <1>3, <1>5 DEF GatewayInv

LEMMA ArrivePreserves ==
    ASSUME GatewayInv, NEW c \in Calls, Arrive(c)
    PROVE  GatewayInv'
  <1>1. /\ pc[c] = "idle" /\ pc' = [pc EXCEPT ![c] = "auth"]
        /\ OnlyCall /\ UNCHANGED <<srv, code, acts, answer>>
    BY DEF Arrive, Goto
  <1>2. PICK r \in Requests : req' = [req EXCEPT ![c] = r]
    BY DEF Arrive
  <1>3. auth' = auth
    BY <1>1 DEF OnlyCall, processVars
  <1>4. CallInv(c)'
    BY <1>1, <1>2, <1>3 DEF GatewayInv, TypeOK, CallInv
  <1> QED
    BY <1>1, <1>2, <1>4, CallStepPreserves DEF GatewayInv, TypeOK

LEMMA AuthenticatePreserves ==
    ASSUME GatewayInv, NEW c \in Calls, Authenticate(c)
    PROVE  GatewayInv'
  <1>1. /\ pc[c] = "auth" /\ OnlyCall /\ UNCHANGED <<req, srv, code, acts>>
    BY DEF Authenticate
  <1>2. PICK jwks \in KeySets :
           IF AuthMiddleware(auth, req[c].header, jwks) = "pass"
           THEN Goto(c, "auth", "decode") /\ UNCHANGED answer
           ELSE Answer(c, "auth", AuthMiddleware(auth, req[c].header, jwks))
    BY DEF Authenticate
  <1>3. auth' = auth
    BY <1>1 DEF OnlyCall, processVars
  <1>4. CASE AuthMiddleware(auth, req[c].header, jwks) = "pass"
    <2>1. pc' = [pc EXCEPT ![c] = "decode"] /\ UNCHANGED answer
      BY <1>2, <1>4 DEF Goto
    <2>2. auth.enabled => Authentic(req[c].header)
      BY <1>4, OnlyTheAuthenticPass
    <2>3. CallInv(c)'
      BY <1>1, <1>3, <2>1, <2>2 DEF GatewayInv, TypeOK, CallInv, Authentic
    <2> QED
      BY <1>1, <2>1, <2>3, CallStepPreserves DEF GatewayInv, TypeOK
  <1>5. CASE AuthMiddleware(auth, req[c].header, jwks) # "pass"
    <2> PICK v \in {"401", "500"} : v = AuthMiddleware(auth, req[c].header, jwks)
      BY <1>5, AuthMiddlewareAnswers
    <2>1. pc' = [pc EXCEPT ![c] = "done"] /\ answer' = [answer EXCEPT ![c] = v]
      BY <1>2, <1>5 DEF Answer, Goto
    <2>2. v \in Answers /\ v # None /\ v # "200"
      BY GatewayAssumption DEF Answers, NotDone
    <2>3. CallInv(c)'
      BY <1>1, <1>3, <2>1, <2>2 DEF GatewayInv, TypeOK, CallInv
    <2> QED
      BY <1>1, <2>1, <2>2, <2>3, CallStepPreserves DEF GatewayInv, TypeOK
  <1> QED
    BY <1>4, <1>5

\* A call is answered before, or without, an answer of its handler: what is
\* said of what happened is that nothing has, or nothing at all.
LEMMA AnswerPreserves ==
    ASSUME GatewayInv, NEW c \in Calls, NEW from \in {"auth", "decode", "forward", "await"},
           NEW status \in Answers \ {"200"}, Answer(c, from, status),
           OnlyCall, UNCHANGED <<req, srv, code, acts>>,
           status \in NotDone => from # "await"
    PROVE  GatewayInv'
  <1>1. /\ pc[c] = from /\ pc' = [pc EXCEPT ![c] = "done"]
        /\ answer' = [answer EXCEPT ![c] = status]
    BY DEF Answer, Goto
  <1>2. auth' = auth
    BY DEF OnlyCall, processVars
  <1>3. status # None
    BY GatewayAssumption
  <1>4. CallInv(c)'
    BY <1>1, <1>2, <1>3 DEF GatewayInv, TypeOK, CallInv, Authentic
  <1> QED
    BY <1>1, <1>4, CallStepPreserves DEF GatewayInv, TypeOK

LEMMA DecodePreserves ==
    ASSUME GatewayInv, NEW c \in Calls, Decode(c)
    PROVE  GatewayInv'
  <1>1. /\ pc[c] = "decode" /\ OnlyCall /\ UNCHANGED <<req, srv, code, acts>>
        /\ \/ Goto(c, "decode", "forward") /\ UNCHANGED answer
           \/ Answer(c, "decode", "400")
    BY DEF Decode
  <1>2. CASE Goto(c, "decode", "forward") /\ UNCHANGED answer
    <2>1. pc' = [pc EXCEPT ![c] = "forward"] /\ auth' = auth
      BY <1>1, <1>2 DEF Goto, OnlyCall, processVars
    <2>2. CallInv(c)'
      BY <1>1, <1>2, <2>1 DEF GatewayInv, TypeOK, CallInv, Authentic
    <2> QED
      BY <1>1, <1>2, <2>1, <2>2, CallStepPreserves DEF GatewayInv, TypeOK
  <1>3. CASE Answer(c, "decode", "400")
    BY <1>1, <1>3, AnswerPreserves DEF Answers, NotDone
  <1> QED
    BY <1>1, <1>2, <1>3

LEMMA HandlePreserves ==
    ASSUME GatewayInv, NEW c \in Calls, Handle(c) \/ Hang(c)
    PROVE  GatewayInv'
  <1>1. /\ srv[c] = "running" /\ OnlyCall /\ UNCHANGED <<req, pc, answer>>
        /\ acts[c] = 0 /\ auth' = auth
    BY DEF Handle, Hang, GatewayInv, CallInv, OnlyCall, processVars
  <1>2. CASE Handle(c)
    <2>1. PICK k \in Codes, a \in {0, 1} :
             /\ k = "OK" => a = 1
             /\ k \in Definite => a = 0
             /\ code' = IF pc[c] = "await" THEN [code EXCEPT ![c] = k] ELSE code
             /\ acts' = [acts EXCEPT ![c] = @ + a]
      BY <1>2 DEF Handle
    <2>2. srv' = [srv EXCEPT ![c] = "done"]
      BY <1>2 DEF Handle
    <2>3. acts' = [acts EXCEPT ![c] = a] /\ acts' \in [Calls -> 0..1]
      BY <1>1, <2>1 DEF GatewayInv, TypeOK
    <2>4. code' \in [Calls -> Codes \cup {None}] /\ (pc[c] = "await" => code'[c] = k)
          /\ \A d \in Calls \ {c} : code'[d] = code[d]
      BY <2>1 DEF GatewayInv
    <2>5. CallInv(c)'
      <3>1. CallInv(c) /\ answer[c] # "200" /\ answer[c] \notin NotDone
        BY <1>1 DEF GatewayInv, CallInv
      <3>2. /\ req'[c] = req[c] /\ pc'[c] = pc[c] /\ answer'[c] = answer[c]
            /\ srv'[c] = "done" /\ acts'[c] = a
        BY <1>1, <2>2, <2>3 DEF GatewayInv, TypeOK
      <3> QED
        BY <1>1, <2>1, <2>4, <3>1, <3>2 DEF CallInv, Authentic
    <2> QED
      BY <1>1, <2>2, <2>3, <2>4, <2>5, CallStepPreserves DEF GatewayInv, TypeOK
  <1>3. CASE Hang(c)
    <2>1. srv' = [srv EXCEPT ![c] = "stuck"] /\ UNCHANGED <<code, acts>>
      BY <1>3 DEF Hang
    <2>2. CallInv(c)'
      BY <1>1, <2>1 DEF GatewayInv, TypeOK, CallInv, Authentic
    <2> QED
      BY <1>1, <2>1, <2>2, CallStepPreserves DEF GatewayInv, TypeOK
  <1> QED
    BY <1>2, <1>3

LEMMA ReceivePreserves ==
    ASSUME GatewayInv, NEW c \in Calls, Receive(c)
    PROVE  GatewayInv'
  <1>1. /\ srv[c] = "done" /\ pc[c] = "await" /\ OnlyCall /\ UNCHANGED <<req, srv, acts>>
        /\ pc' = [pc EXCEPT ![c] = "done"] /\ auth' = auth
        /\ answer' = [answer EXCEPT ![c] = HTTPStatus(code[c])]
        /\ code' = [code EXCEPT ![c] = None]
    BY DEF Receive, Answer, Goto, OnlyCall, processVars
  <1>2. /\ code[c] \in Codes
        /\ code[c] = "OK" => acts[c] = 1
        /\ code[c] \in Definite => acts[c] = 0
    BY <1>1 DEF GatewayInv, CallInv
  <1>3. /\ HTTPStatus(code[c]) \in Answers /\ HTTPStatus(code[c]) # None
        /\ HTTPStatus(code[c]) = "200" => acts[c] = 1
        /\ HTTPStatus(code[c]) \in NotDone => acts[c] = 0
    BY <1>2, HTTPStatusIsTrue, GatewayAssumption
  <1>4. CallInv(c)'
    BY <1>1, <1>3 DEF GatewayInv, TypeOK, CallInv, Authentic
  <1> QED
    BY <1>1, <1>3, <1>4, CallStepPreserves DEF GatewayInv, TypeOK

LEMMA LosePreserves ==
    ASSUME GatewayInv, NEW c \in Calls, Lose(c) \/ GiveUp(c)
    PROVE  GatewayInv'
  BY AnswerPreserves DEF Lose, GiveUp, Answers, NotDone

-----------------------------------------------------------------------------
(* The steps of the servers, the connections and main                      *)

\* A step that leaves the calls alone keeps the invariant if it keeps what is
\* said of the servers.
LEMMA ServerStepPreserves ==
    ASSUME GatewayInv, UNCHANGED <<auth, callVars>>,
           main' \in {"started", "select", "cancelled", "exited", "killed"},
           signal' \in BOOLEAN, ctxDone' \in BOOLEAN, errs' \in 0..2,
           grpc' \in {"off", "serving", "draining", "stopped"},
           http' \in {"off", "serving", "closed"},
           conn' \in [Services -> {"none", "idle", "ready", "failed", "closed"}],
           served' \subseteq Services,
           ServerInv'
    PROVE  GatewayInv'
  <1>1. UNCHANGED <<auth, req, pc, srv, code, acts, answer>>
    BY DEF callVars
  <1>2. ASSUME NEW d \in Calls PROVE CallInv(d)'
    <2>1. CallInv(d)
      BY DEF GatewayInv
    <2> QED
      BY <1>1, <2>1 DEF CallInv, Authentic
  <1>3. \A d \in Calls : srv'[d] # "idle" /\ auth'.enabled => Authentic(req[d].header)'
    BY <1>2 DEF CallInv
  <1>4. TypeOK'
    BY <1>1, <1>3 DEF GatewayInv, TypeOK, OnlyTheAuthenticAct
  <1> QED
    BY <1>1, <1>2, <1>4 DEF GatewayInv

LEMMA SetConnPreserves ==
    ASSUME GatewayInv, NEW s \in Services, NEW to \in {"idle", "ready", "failed", "closed"},
           SetConn(s, to), UNCHANGED callVars, served' \subseteq Services,
           served' \subseteq served \cup {s},
           ~ctxDone => /\ to # "closed"
                       /\ s \in served' => grpc = "serving" /\ to # "failed"
    PROVE  GatewayInv'
  <1>1. /\ conn' = [conn EXCEPT ![s] = to]
        /\ UNCHANGED <<auth, main, signal, ctxDone, errs, grpc, http>>
    BY DEF SetConn, processVars
  <1>2. ServerInv'
    BY <1>1 DEF GatewayInv, TypeOK, ServerInv
  <1> QED
    BY <1>1, <1>2, ServerStepPreserves DEF GatewayInv, TypeOK

LEMMA ConnStepPreserves ==
    ASSUME GatewayInv, NEW s \in Services,
           CloseConn(s) \/ Connect(s) \/ Backoff(s) \/ AgeOut(s)
    PROVE  GatewayInv'
  <1>1. CASE CloseConn(s)
    BY <1>1, SetConnPreserves DEF CloseConn, GatewayInv, TypeOK
  <1>2. CASE Connect(s)
    <2>1. CASE grpc = "serving"
      BY <1>2, <2>1, SetConnPreserves DEF Connect, GatewayInv, TypeOK
    <2>2. CASE grpc # "serving"
      <3>1. SetConn(s, "failed") /\ UNCHANGED <<served, callVars>>
        BY <1>2, <2>2 DEF Connect
      <3> QED
        BY <2>2, <3>1, SetConnPreserves DEF GatewayInv, TypeOK, ServerInv
    <2> QED
      BY <2>1, <2>2
  <1>3. CASE Backoff(s)
    BY <1>3, SetConnPreserves DEF Backoff, GatewayInv, TypeOK, ServerInv
  <1>4. CASE AgeOut(s)
    BY <1>4, SetConnPreserves DEF AgeOut, GatewayInv, TypeOK
  <1> QED
    BY <1>1, <1>2, <1>3, <1>4

LEMMA ForwardPreserves ==
    ASSUME GatewayInv, NEW c \in Calls, Forward(c)
    PROVE  GatewayInv'
  <1> DEFINE s == req[c].service
  <1>1. pc[c] = "forward"
    BY DEF Forward
  <1>2. req[c] \in Requests /\ s \in Services /\ srv[c] = "idle"
    BY <1>1, GatewayAssumption DEF GatewayInv, CallInv
  <1>3. CASE /\ Goto(c, "forward", "await") /\ srv' = [srv EXCEPT ![c] = "running"]
             /\ OnlyCall /\ UNCHANGED <<req, code, acts, answer>>
    <2>1. pc' = [pc EXCEPT ![c] = "await"] /\ auth' = auth
      BY <1>3 DEF Goto, OnlyCall, processVars
    <2>2. CallInv(c) /\ answer[c] = None
      BY <1>1 DEF GatewayInv, CallInv
    <2>3. /\ pc'[c] = "await" /\ srv'[c] = "running"
          /\ req'[c] = req[c] /\ acts'[c] = acts[c] /\ answer'[c] = None
      BY <1>3, <2>1, <2>2 DEF GatewayInv, TypeOK
    <2>4. CallInv(c)'
      BY <1>1, <1>2, <2>1, <2>2, <2>3, GatewayAssumption
      DEF CallInv, Authentic, Answers, NotDone
    <2> QED
      BY <1>3, <2>1, <2>4, CallStepPreserves DEF GatewayInv, TypeOK
  <1>4. CASE /\ conn[s] = "ready" /\ grpc # "serving"
             /\ SetConn(s, "idle") /\ UNCHANGED <<served, callVars>>
    BY <1>2, <1>4, SetConnPreserves DEF GatewayInv, TypeOK, ServerInv
  <1>5. CASE /\ Answer(c, "forward", IF conn[s] = "failed" THEN "503" ELSE "499")
             /\ OnlyCall /\ UNCHANGED <<req, srv, code, acts>>
    BY <1>5, AnswerPreserves DEF Answers, NotDone
  <1> QED
    BY <1>3, <1>4, <1>5 DEF Forward

\* The ends of the process: every call under way is cut off.
LEMMA EndPreserves ==
    ASSUME GatewayInv, NEW how \in {"killed", "exited"}, signal' \in BOOLEAN, End(how)
    PROVE  GatewayInv'
  <1>1. /\ main' = how
        /\ UNCHANGED <<auth, ctxDone, errs, grpc, http, conn, served, req, code, acts>>
        /\ srv' = [c \in Calls |-> IF srv[c] = "idle" THEN "idle" ELSE "done"]
        /\ pc' = [c \in Calls |-> IF pc[c] \in Ended THEN pc[c] ELSE "done"]
        /\ answer' = [c \in Calls |-> IF pc[c] \in Ended THEN answer[c] ELSE "cut"]
    BY DEF End, serverVars
  <1>2. ServerInv'
    BY <1>1 DEF GatewayInv, ServerInv
  <1>3. ASSUME NEW c \in Calls PROVE CallInv(c)'
    <2>1. CallInv(c) /\ "cut" # None
      BY GatewayAssumption DEF GatewayInv, Answers
    <2>2. /\ srv'[c] = IF srv[c] = "idle" THEN "idle" ELSE "done"
          /\ req'[c] = req[c] /\ acts'[c] = acts[c]
      BY <1>1
    <2>3. CASE pc[c] \in Ended
      <3>1. pc'[c] = pc[c] /\ pc[c] \in {"idle", "done"} /\ answer'[c] = answer[c]
        BY <1>1, <2>3 DEF Ended
      <3> QED
        BY <1>1, <2>1, <2>2, <3>1 DEF CallInv, Authentic
    <2>4. CASE pc[c] \notin Ended
      <3>1. pc'[c] = "done" /\ pc[c] # "idle" /\ answer'[c] = "cut"
        BY <1>1, <2>4 DEF Ended
      <3> QED
        BY <1>1, <2>1, <2>2, <3>1 DEF CallInv, Authentic, NotDone
    <2> QED
      BY <2>3, <2>4
  <1>4. \A c \in Calls : srv'[c] # "idle" /\ auth'.enabled => Authentic(req[c].header)'
    BY <1>3 DEF CallInv
  <1>5. TypeOK'
    BY <1>1, <1>4 DEF GatewayInv, TypeOK, OnlyTheAuthenticAct, Ended
  <1>6. answer' \in [Calls -> Answers \cup {None}]
    BY <1>1 DEF GatewayInv, Answers
  <1> QED
    BY <1>1, <1>2, <1>3, <1>5, <1>6 DEF GatewayInv

LEMMA MainPreserves ==
    ASSUME GatewayInv, Signal \/ Notify \/ Select \/ Exit
    PROVE  GatewayInv'
  <1>1. ASSUME main' \in {"started", "select", "cancelled", "exited", "killed"},
               signal' \in BOOLEAN, ctxDone' \in BOOLEAN, ctxDone => ctxDone',
               UNCHANGED <<auth, errs, serverVars, callVars>>
        PROVE  GatewayInv'
    <2>1. UNCHANGED <<grpc, http, conn, served>>
      BY <1>1 DEF serverVars
    <2>2. ServerInv'
      BY <1>1, <2>1 DEF GatewayInv, ServerInv
    <2> QED
      BY <1>1, <2>1, <2>2, ServerStepPreserves DEF GatewayInv, TypeOK
  <1>2. CASE Signal
    <2>1. CASE main = "started"
      BY <1>2, <2>1, EndPreserves DEF Signal
    <2>2. CASE main # "started"
      BY <1>1, <1>2, <2>2 DEF Signal, GatewayInv, TypeOK
    <2> QED
      BY <2>1, <2>2
  <1>3. CASE Notify
    BY <1>1, <1>3 DEF Notify, GatewayInv, TypeOK
  <1>4. CASE Select
    BY <1>1, <1>4 DEF Select, GatewayInv, TypeOK
  <1>5. CASE Exit
    BY <1>5, EndPreserves DEF Exit, GatewayInv, TypeOK
  <1> QED
    BY <1>2, <1>3, <1>4, <1>5

LEMMA ServersPreserve ==
    ASSUME GatewayInv, GRPCStart \/ GracefulStop \/ HTTPStart \/ HTTPShutdown
    PROVE  GatewayInv'
  <1> USE DEF GatewayInv, TypeOK
  <1>1. CASE GRPCStart
    <2>1. /\ grpc = "off" /\ UNCHANGED <<auth, main, signal, ctxDone, http, conn, served, callVars>>
          /\ \/ grpc' = "serving" /\ errs' = errs
             \/ grpc' = "stopped" /\ errs' = errs + 1
      BY <1>1 DEF GRPCStart
    <2>2. ServerInv' /\ errs' \in 0..2
      BY <2>1 DEF ServerInv
    <2> QED
      BY <2>1, <2>2, ServerStepPreserves
  <1>2. CASE GracefulStop
    <2>1. /\ ctxDone /\ grpc \in {"serving", "draining"} /\ grpc' \in {"draining", "stopped"}
          /\ UNCHANGED <<auth, main, signal, ctxDone, errs, http, conn, served, callVars>>
      BY <1>2 DEF GracefulStop, processVars
    <2>2. ServerInv'
      BY <2>1 DEF ServerInv
    <2> QED
      BY <2>1, <2>2, ServerStepPreserves
  <1>3. CASE HTTPStart
    <2>1. /\ http = "off" /\ conn' = [s \in Services |-> "idle"]
          /\ UNCHANGED <<auth, main, signal, ctxDone, grpc, served, callVars>>
          /\ \/ http' = "serving" /\ errs' = errs
             \/ http' = "closed" /\ errs' = errs + 1
      BY <1>3 DEF HTTPStart, Register
    <2>2. ServerInv' /\ errs' \in 0..2
      BY <2>1 DEF ServerInv
    <2> QED
      BY <2>1, <2>2, ServerStepPreserves
  <1>4. CASE HTTPShutdown
    <2>1. /\ ctxDone /\ http = "serving" /\ http' = "closed"
          /\ UNCHANGED <<auth, main, signal, ctxDone, errs, grpc, conn, served, callVars>>
      BY <1>4 DEF HTTPShutdown, processVars
    <2>2. ServerInv'
      BY <2>1 DEF ServerInv
    <2> QED
      BY <2>1, <2>2, ServerStepPreserves
  <1> QED
    BY <1>1, <1>2, <1>3, <1>4

-----------------------------------------------------------------------------
(* The theorems                                                            *)

LEMMA GatewayInvInit == Init => GatewayInv
  <1> SUFFICES ASSUME Init
               PROVE  GatewayInv
    OBVIOUS
  <1>1. TypeOK
    <2>1. /\ conn \in [Services -> {"none", "idle", "ready", "failed", "closed"}]
          /\ served \subseteq Services /\ req \in [Calls -> Requests \cup {None}]
          /\ errs \in 0..2 /\ acts \in [Calls -> 0..1]
      BY DEF Init
    <2>2. /\ pc \in [Calls -> {"idle", "auth", "decode", "forward", "await", "done"}]
          /\ srv \in [Calls -> {"idle", "running", "stuck", "done"}]
          /\ \A c \in Calls : srv[c] = "idle"
      BY DEF Init
    <2> QED
      BY <2>1, <2>2 DEF Init, TypeOK, OnlyTheAuthenticAct
  <1>2. ServerInv
    BY DEF Init, ServerInv
  <1>3. \A c \in Calls : CallInv(c)
    BY GatewayAssumption DEF Init, CallInv, Answers
  <1> QED
    BY <1>1, <1>2, <1>3 DEF Init, GatewayInv

LEMMA GatewayInvStep == GatewayInv /\ [Next]_vars => GatewayInv'
  <1> SUFFICES ASSUME GatewayInv, [Next]_vars
               PROVE  GatewayInv'
    OBVIOUS
  <1>1. CASE UNCHANGED vars
    <2>1. UNCHANGED <<auth, main, signal, ctxDone, errs, grpc, http, conn, served, callVars>>
      BY <1>1 DEF vars, processVars, serverVars
    <2>2. ServerInv'
      BY <2>1 DEF GatewayInv, ServerInv
    <2> QED
      BY <2>1, <2>2, ServerStepPreserves DEF GatewayInv, TypeOK
  <1>2. CASE Signal \/ Notify \/ Select \/ Exit
    BY <1>2, MainPreserves
  <1>3. CASE Over
    BY <1>1, <1>3 DEF Over
  <1>4. CASE GRPCStart \/ GracefulStop \/ HTTPStart \/ HTTPShutdown
    BY <1>4, ServersPreserve
  <1>5. ASSUME NEW s \in Services, CloseConn(s) \/ Connect(s) \/ Backoff(s) \/ AgeOut(s)
        PROVE  GatewayInv'
    BY <1>5, ConnStepPreserves
  <1>6. ASSUME NEW c \in Calls,
               \/ Arrive(c) \/ Authenticate(c) \/ Decode(c) \/ Forward(c) \/ Handle(c)
               \/ Hang(c) \/ Receive(c) \/ Lose(c) \/ GiveUp(c)
        PROVE  GatewayInv'
    BY <1>6, ArrivePreserves, AuthenticatePreserves, DecodePreserves, ForwardPreserves,
       HandlePreserves, ReceivePreserves, LosePreserves
  <1> QED
    BY <1>1, <1>2, <1>3, <1>4, <1>5, <1>6 DEF Next

\* What is known of every call, and of the servers and connections, holds however
\* many calls and services there are (http.go, grpc.go, auth.go, main.go).
THEOREM GatewayInvariant == Spec => []GatewayInv
  BY GatewayInvInit, GatewayInvStep, PTL DEF Spec

\* Types of the process, the servers, the connections and the calls.
THEOREM GatewayTypes == Spec => []TypeOK
  <1>1. GatewayInv => TypeOK
    BY DEF GatewayInv
  <1> QED
    BY <1>1, GatewayInvariant, PTL

\* The gRPC server never has a call whose caller ought to say who it is and has
\* not, whatever the settings, the tokens and the issuer's keys, and whatever
\* becomes of the servers and connections on the way (auth.go:22-56).
THEOREM OnlyTheAuthenticEverAct == Spec => []OnlyTheAuthenticAct
  <1>1. TypeOK => OnlyTheAuthenticAct
    BY DEF TypeOK
  <1> QED
    BY <1>1, GatewayTypes, PTL

\* Only a call that is sent on, and finds its connection closed or refused, is
\* answered for want of a connection.
LEMMA OnlyForwardFails ==
    ASSUME GatewayInv, [Next]_vars, NEW c \in Calls,
           pc[c] = "forward", answer'[c] \in {"499", "503"}
    PROVE  conn[req[c].service] \in {"failed", "closed"}
  <1>1. /\ answer[c] = None /\ None \notin {"499", "503"}
        /\ pc \in [Calls -> {"idle", "auth", "decode", "forward", "await", "done"}]
        /\ answer \in [Calls -> Answers \cup {None}]
    BY GatewayAssumption DEF GatewayInv, TypeOK, CallInv, Answers
  <1>2. answer'[c] # answer[c]
    BY <1>1
  <1>3. ASSUME NEW d \in Calls, NEW from, NEW status, Answer(d, from, status)
        PROVE  d = c /\ from = "forward" /\ status \in {"499", "503"}
    BY <1>1, <1>2, <1>3 DEF Answer, Goto
  <1>4. ASSUME NEW how, End(how)
        PROVE  FALSE
    BY <1>1, <1>4 DEF End, Ended
  <1>5. CASE UNCHANGED answer
    BY <1>2, <1>5
  <1>6. CASE Signal \/ Exit
    BY <1>4, <1>5, <1>6 DEF Signal, Exit, callVars
  <1>7. CASE UNCHANGED callVars
    BY <1>5, <1>7 DEF callVars
  <1>8. ASSUME NEW s \in Services, CloseConn(s) \/ Connect(s) \/ Backoff(s) \/ AgeOut(s)
        PROVE  UNCHANGED callVars
    BY <1>8 DEF CloseConn, Connect, Backoff, AgeOut
  <1>9. ASSUME NEW d \in Calls, Forward(d)
        PROVE  conn[req[c].service] \in {"failed", "closed"}
    <2>1. CASE UNCHANGED answer
      BY <1>5, <2>1
    <2>2. CASE UNCHANGED callVars
      BY <1>7, <2>2
    <2>3. CASE /\ conn[req[d].service] \in {"failed", "closed"}
               /\ \E status \in {"499", "503"} : Answer(d, "forward", status)
      BY <1>3, <2>3
    <2> QED
      BY <1>9, <2>1, <2>2, <2>3 DEF Forward
  <1>10. ASSUME NEW d \in Calls,
                Authenticate(d) \/ Decode(d) \/ Receive(d) \/ Lose(d) \/ GiveUp(d)
         PROVE  FALSE
    <2>1. CASE Authenticate(d)
      BY <1>3, <1>5, <1>2, <2>1 DEF Authenticate
    <2>2. CASE Decode(d)
      BY <1>3, <1>2, <2>2 DEF Decode
    <2>3. CASE Receive(d) \/ Lose(d)
      BY <1>3, <2>3 DEF Receive, Lose
    <2>4. CASE GiveUp(d)
      BY <1>3, <2>4 DEF GiveUp
    <2> QED
      BY <1>10, <2>1, <2>2, <2>3, <2>4
  <1>11. ASSUME NEW d \in Calls, Arrive(d) \/ Handle(d) \/ Hang(d)
         PROVE  UNCHANGED answer
    BY <1>11 DEF Arrive, Handle, Hang
  <1>12. CASE Notify \/ Select \/ Over \/ GRPCStart \/ GracefulStop \/ HTTPStart \/ HTTPShutdown
    BY <1>7, <1>12 DEF Notify, Select, Over, GRPCStart, GracefulStop, HTTPStart,
                       HTTPShutdown, vars
  <1>13. CASE UNCHANGED vars
    BY <1>7, <1>13 DEF vars
  <1> QED
    BY <1>5, <1>6, <1>7, <1>8, <1>9, <1>10, <1>11, <1>12, <1>13 DEF Next

\* Until the process is told to stop, no call to a service that has been reached
\* once fails for want of a connection (http.go:60-73).
THEOREM NoCallIsEverLost == Spec => NoCallLost
  <1>1. ASSUME GatewayInv, [Next]_vars, NEW c \in Calls,
               pc[c] = "forward", answer'[c] \in {"499", "503"}, ~ctxDone
        PROVE  req[c].service \notin served
    <2>1. conn[req[c].service] \in {"failed", "closed"}
      BY <1>1, OnlyForwardFails
    <2>2. req[c].service \in Services
      BY <1>1, GatewayAssumption DEF GatewayInv, CallInv
    <2> QED
      BY <1>1, <2>1, <2>2 DEF GatewayInv, ServerInv
  <1>2. GatewayInv /\ [Next]_vars =>
           [\A c \in Calls :
               /\ pc[c] = "forward" /\ answer'[c] \in {"499", "503"} /\ main' # "killed"
               => ctxDone \/ req[c].service \notin served]_vars
    BY <1>1
  <1> QED
    BY <1>2, GatewayInvariant, PTL DEF Spec, NoCallLost

\* What the promise rests on in a state: a caller told that its call is done, or
\* not done, is told the truth.
ToldIsTrue ==
    /\ acts \in [Calls -> 0..1] /\ told \in [Calls -> Promise!Told]
    /\ \A c \in Calls : /\ told[c] = "nothing" <=> answer[c] = None
                        /\ told[c] = "done" <=> answer[c] = "200"
                        /\ told[c] = "not done" <=> answer[c] \in NotDone
                        /\ told[c] = "done" => acts[c] = 1
                        /\ told[c] = "not done" => acts[c] = 0

LEMMA ToldIsAlwaysTrue == GatewayInv => ToldIsTrue
  <1> SUFFICES ASSUME GatewayInv
               PROVE  ToldIsTrue
    OBVIOUS
  <1>1. acts \in [Calls -> 0..1] /\ told \in [Calls -> Promise!Told]
    BY DEF GatewayInv, TypeOK, told, Promise!Told
  <1>2. ASSUME NEW c \in Calls
        PROVE  /\ told[c] = "nothing" <=> answer[c] = None
               /\ told[c] = "done" <=> answer[c] = "200"
               /\ told[c] = "not done" <=> answer[c] \in NotDone
               /\ told[c] = "done" => acts[c] = 1
               /\ told[c] = "not done" => acts[c] = 0
    <2>1. CallInv(c) /\ None \notin NotDone \cup {"200"} /\ "200" \notin NotDone
      BY GatewayAssumption DEF GatewayInv, Answers, NotDone
    <2>2. CASE answer[c] = None
      BY <2>1, <2>2 DEF told
    <2>3. CASE answer[c] = "200"
      BY <2>1, <2>3 DEF told, CallInv
    <2>4. CASE answer[c] \in NotDone
      BY <2>1, <2>4 DEF told, CallInv
    <2>5. CASE answer[c] \notin NotDone \cup {None, "200"}
      BY <2>5 DEF told
    <2> QED
      BY <2>2, <2>3, <2>4, <2>5
  <1> QED
    BY <1>1, <1>2 DEF ToldIsTrue

\* An answer stays, and so does what a handler did.
LEMMA StepsOnlyAdd ==
    ASSUME GatewayInv, [Next]_vars, NEW c \in Calls
    PROVE  /\ answer[c] # None => answer'[c] = answer[c]
           /\ acts[c] = 1 => acts'[c] = 1
  <1>1. /\ answer[c] # None => pc[c] = "done"
        /\ acts[c] = 1 => srv[c] = "done"
        /\ pc \in [Calls -> {"idle", "auth", "decode", "forward", "await", "done"}]
        /\ answer \in [Calls -> Answers \cup {None}] /\ acts \in [Calls -> 0..1]
    BY DEF GatewayInv, TypeOK, CallInv
  <1>2. ASSUME NEW d \in Calls, NEW from \in {"auth", "decode", "forward", "await"},
               NEW status, Answer(d, from, status)
        PROVE  answer[c] # None => answer'[c] = answer[c]
    BY <1>1, <1>2 DEF Answer, Goto
  <1>3. ASSUME NEW how, End(how)
        PROVE  UNCHANGED acts /\ (answer[c] # None => answer'[c] = answer[c])
    BY <1>1, <1>3 DEF End, Ended
  <1>4. CASE UNCHANGED callVars
    BY <1>4 DEF callVars
  <1>5. CASE UNCHANGED vars
    BY <1>4, <1>5 DEF vars
  <1>6. CASE Signal \/ Exit
    BY <1>3, <1>4, <1>6 DEF Signal, Exit
  <1>7. CASE Notify \/ Select \/ Over \/ GRPCStart \/ GracefulStop \/ HTTPStart \/ HTTPShutdown
    BY <1>4, <1>5, <1>7 DEF Notify, Select, Over, GRPCStart, GracefulStop, HTTPStart,
                            HTTPShutdown
  <1>8. ASSUME NEW s \in Services, CloseConn(s) \/ Connect(s) \/ Backoff(s) \/ AgeOut(s)
        PROVE  UNCHANGED callVars
    BY <1>8 DEF CloseConn, Connect, Backoff, AgeOut
  <1>9. ASSUME NEW d \in Calls,
               \/ Authenticate(d) \/ Decode(d) \/ Forward(d)
               \/ Receive(d) \/ Lose(d) \/ GiveUp(d)
        PROVE  UNCHANGED acts
    BY <1>9 DEF Authenticate, Decode, Forward, Receive, Lose, GiveUp, callVars
  <1>10. ASSUME NEW d \in Calls,
                \/ Authenticate(d) \/ Decode(d) \/ Forward(d)
                \/ Receive(d) \/ Lose(d) \/ GiveUp(d)
         PROVE  answer[c] # None => answer'[c] = answer[c]
    <2>1. CASE Authenticate(d)
      BY <1>2, <2>1 DEF Authenticate
    <2>2. CASE Decode(d)
      BY <1>2, <2>2 DEF Decode
    <2>3. CASE Forward(d)
      BY <1>2, <1>4, <2>3 DEF Forward
    <2>4. CASE Receive(d) \/ Lose(d)
      BY <1>2, <2>4 DEF Receive, Lose
    <2>5. CASE GiveUp(d)
      BY <1>2, <2>5 DEF GiveUp
    <2> QED
      BY <1>10, <2>1, <2>2, <2>3, <2>4, <2>5
  <1>11. ASSUME NEW d \in Calls, Arrive(d) \/ Hang(d)
         PROVE  UNCHANGED <<acts, answer>>
    BY <1>11 DEF Arrive, Hang
  <1>12. ASSUME NEW d \in Calls, Handle(d)
         PROVE  UNCHANGED answer /\ (acts[c] = 1 => acts'[c] = 1)
    <2>1. srv[d] = "running" /\ UNCHANGED answer
      BY <1>12 DEF Handle
    <2>2. PICK a \in {0, 1} : acts' = [acts EXCEPT ![d] = @ + a]
      BY <1>12 DEF Handle
    <2> QED
      BY <1>1, <2>1, <2>2
  <1> QED
    BY <1>4, <1>5, <1>6, <1>7, <1>8, <1>9, <1>10, <1>11, <1>12 DEF Next

LEMMA PromiseStep ==
    ASSUME GatewayInv, [Next]_vars, ToldIsTrue, ToldIsTrue'
    PROVE  Promise!Next
  <1>1. ASSUME NEW c \in Calls
        PROVE  Promise!Step(c)
    <2>1. /\ answer[c] # None => answer'[c] = answer[c]
          /\ acts[c] = 1 => acts'[c] = 1
      BY StepsOnlyAdd
    <2>2. /\ told[c] \in Promise!Told /\ told'[c] \in Promise!Told
          /\ told[c] = "nothing" <=> answer[c] = None
          /\ told'[c] = "nothing" <=> answer'[c] = None
          /\ told[c] = "done" <=> answer[c] = "200"
          /\ told'[c] = "done" <=> answer'[c] = "200"
          /\ told[c] = "not done" <=> answer[c] \in NotDone
          /\ told'[c] = "not done" <=> answer'[c] \in NotDone
          /\ told'[c] = "done" => acts'[c] = 1
          /\ told'[c] = "not done" => acts'[c] = 0
      BY DEF ToldIsTrue
    <2>3. Promise!Act(c) \/ acts'[c] = acts[c]
      <3>1. acts \in [Calls -> 0..1] /\ acts' \in [Calls -> 0..1]
        BY DEF ToldIsTrue
      <3> QED
        BY <2>1, <3>1 DEF Promise!Act
    <2>4. ASSUME answer'[c] = answer[c]
          PROVE  told'[c] = told[c]
      <3>1. /\ \/ told[c] = "nothing" \/ told[c] = "done"
               \/ told[c] = "not done" \/ told[c] = "unsure"
            /\ \/ told'[c] = "nothing" \/ told'[c] = "done"
               \/ told'[c] = "not done" \/ told'[c] = "unsure"
        BY <2>2, Zenon DEF Promise!Told
      <3>2. CASE told[c] = "nothing"
        BY <2>2, <2>4, <3>2, Zenon
      <3>3. CASE told[c] = "done"
        BY <2>2, <2>4, <3>3, Zenon
      <3>4. CASE told[c] = "not done"
        BY <2>2, <2>4, <3>4, Zenon
      <3>5. CASE told[c] = "unsure"
        <4>1. told'[c] # "nothing" /\ told'[c] # "done" /\ told'[c] # "not done"
          BY <2>2, <2>4, <3>5, Zenon
        <4> QED
          BY <3>1, <3>5, <4>1, Zenon
      <3> QED
        BY <3>1, <3>2, <3>3, <3>4, <3>5, Zenon
    <2>5. Promise!Tell(c) \/ told'[c] = told[c]
      BY <2>1, <2>2, <2>4 DEF Promise!Tell
    <2> QED
      BY <2>2, <2>3, <2>5 DEF Promise!Step
  <1> QED
    BY <1>1 DEF Promise!Next, ToldIsTrue

\* A REST caller may count on what a gRPC caller may, through starts, lost
\* connections and the end of the process: each step is one of the abstract
\* specification, or none (*.pb.gw.go, runtime.HTTPError).
THEOREM RestCallersArePromised == Spec => RestPromise
  <1>1. Init => Promise!Init
    <2>1. ASSUME Init, NEW c \in Calls
          PROVE  told[c] = "nothing"
      BY <2>1, GatewayInvInit, ToldIsAlwaysTrue DEF Init, ToldIsTrue
    <2> QED
      <3>1. ASSUME Init
            PROVE  told = [c \in Calls |-> "nothing"]
        BY <2>1, <3>1, Zenon DEF told
      <3> QED
        BY <3>1 DEF Init, Promise!Init
  <1>2. GatewayInv /\ [Next]_vars /\ ToldIsTrue /\ ToldIsTrue' => [Promise!Next]_<<acts, told>>
    BY PromiseStep
  <1> QED
    BY <1>1, <1>2, GatewayInvariant, ToldIsAlwaysTrue, PTL
       DEF Spec, RestPromise, Promise!Spec, Promise!vars

=============================================================================
