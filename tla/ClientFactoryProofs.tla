-------------------------- MODULE ClientFactoryProofs --------------------------
(***************************************************************************)
(* Proofs about ClientFactory for any calls, keys, hosts and environments: *)
(* a request goes out as its own call asked, whatever clients others build *)
(* meanwhile, and none gets round a proxy that is set unless NO_PROXY      *)
(* names its host.                                                         *)
(***************************************************************************)
EXTENDS ClientFactory, SequenceTheorems, TLAPS

-----------------------------------------------------------------------------
(* The environment                                                         *)

LEMMA ProxyIsAVariable ==
    ASSUME TypeOK
    PROVE  /\ ProxyFromEnv \in Variable /\ ProxyFromEnv # "malformed"
           /\ ProxyFromEnv = "" =>
                 \/ environ.HTTPS_PROXY = "malformed"
                 \/ environ.HTTPS_PROXY = "" /\ environ.HTTP_PROXY \in {"", "malformed"}
  <1>1. environ.HTTPS_PROXY \in Variable /\ environ.HTTP_PROXY \in Variable
    BY FactoryAssumption DEF TypeOK
  <1> QED
    BY <1>1 DEF ProxyFromEnv, Variable

\* A sequence with a suffix that is shorter has it from its second place on.
LEMMA SuffixBegins ==
    ASSUME NEW S, NEW s \in Seq(S), NEW t \in Seq(S), t # <<>>,
           Len(s) > Len(t), EndsWith(s, t)
    PROVE  \E k \in 2..Len(s) : SubSeq(s, k, Len(s)) = t
  <1>1. Len(s) \in Nat /\ Len(t) \in Nat \ {0}
    BY EmptySeq, LenProperties
  <1>2. Len(s) - Len(t) + 1 \in 2..Len(s)
    BY <1>1
  <1> QED
    BY <1>2 DEF EndsWith

\* What NO_PROXY has an entry for, it names.
LEMMA ExemptIsNamed ==
    ASSUME TypeOK, NEW h \in Hosts, ~shouldUseProxy(h)
    PROVE  Named(h)
  <1>1. PICK x \in Exceptions : Exempts(x, h)
    BY DEF shouldUseProxy
  <1>2. /\ x \in environ.NO_PROXY \cup environ.no_proxy
        /\ x \in environ.NO_PROXY \/ environ.NO_PROXY = {}
    BY DEF Exceptions
  <1>3. x \in Entry /\ h \in Host /\ x.of.parts # <<>>
    BY <1>2, FactoryAssumption DEF TypeOK
  <1>4. /\ h.parts \in Seq({"a", "b", "c", "0", "1"})
        /\ x.of.parts \in Seq({"a", "b", "c", "0", "1"})
    BY <1>3 DEF Entry, Host
  <1>5. Len(h.parts) \in Nat /\ Len(x.of.parts) \in Nat
    BY <1>4, LenProperties
  <1>6. CASE h = x.of
    BY <1>2, <1>6 DEF Named
  <1>7. CASE /\ x.kind \in {"suffix", "wildcard"}
             /\ Len(h.parts) > Len(x.of.parts) /\ EndsWith(h.parts, x.of.parts)
    <2> DEFINE s == h.parts
               t == x.of.parts
    <2>1. /\ s \in Seq({"a", "b", "c", "0", "1"}) /\ t \in Seq({"a", "b", "c", "0", "1"})
          /\ t # <<>> /\ Len(s) > Len(t) /\ EndsWith(s, t)
      BY <1>3, <1>4, <1>7
    <2> HIDE DEF s, t
    <2>2. \E k \in 2..Len(s) : SubSeq(s, k, Len(s)) = t
      BY <2>1, SuffixBegins
    <2> QED
      BY <1>2, <1>3, <1>7, <2>2 DEF Named, s, t
  <1>8. CASE x.kind = "network" /\ h.ip /\ BeginsWith(h.parts, x.of.parts)
    <2>1. Len(x.of.parts) \in 0..Len(h.parts)
      BY <1>5, <1>8 DEF BeginsWith
    <2> QED
      BY <1>2, <1>8, <2>1 DEF Named, BeginsWith
  <1> QED
    BY <1>1, <1>6, <1>7, <1>8 DEF Exempts

-----------------------------------------------------------------------------
(* The steps                                                               *)

\* A step of one call keeps the invariant if it keeps what is said of that call:
\* no two calls share a map.
LEMMA BuilderStepPreserves ==
    ASSUME FactoryInv, NEW b \in Builder, environ' = environ,
           pc' \in [Builder -> {"idle", "construct", "built", "sent", "refused"}],
           ask' \in [Builder -> Ask], config' \in [Builder -> Config],
           maps' \in [Builder \cup {Shared} -> SUBSET OptionNames],
           client' \in [Builder -> Client \cup {None}],
           sent' \in [Builder -> Request \cup {None}],
           \A d \in Builder \ {b} :
              /\ pc'[d] = pc[d] /\ ask'[d] = ask[d] /\ config'[d] = config[d]
              /\ maps'[d] = maps[d] /\ client'[d] = client[d] /\ sent'[d] = sent[d],
           pc'[b] = "refused" =>
              ask'[b].exchange \notin supportedExchanges \/ config'[b].proxy = "socks5",
           BuilderInv(b)'
    PROVE  FactoryInv'
  <1>1. ASSUME NEW d \in Builder \ {b}
        PROVE  BuilderInv(d)'
    <2>1. /\ pc'[d] = pc[d] /\ ask'[d] = ask[d] /\ config'[d] = config[d]
          /\ maps'[d] = maps[d] /\ client'[d] = client[d] /\ sent'[d] = sent[d]
      OBVIOUS
    <2>2. BuilderInv(d)
      BY DEF FactoryInv
    <2>3. ProxyFromEnv' = ProxyFromEnv
      BY DEF ProxyFromEnv
    <2>4. Dial(client[d], sent[d].host)' <=> Dial(client[d], sent[d].host)
      BY <2>1 DEF Dial, shouldUseProxy, Exceptions
    <2> DEFINE isSandbox == ask[d].creds # None /\ ask[d].creds.sandbox
    <2>5. ASSUME pc'[d] # "idle"
          PROVE  /\ config'[d].key = IF ask'[d].creds = None THEN None ELSE ask'[d].creds.key
                 /\ config'[d].sandbox <=> isSandbox'
                 /\ config'[d].proxy = ProxyFromEnv' /\ config'[d].options = d
                 /\ "sandbox" \in maps'[d] <=> isSandbox'
                 /\ "sandboxMode" \in maps'[d] => isSandbox'
      <3>1. (isSandbox)' <=> isSandbox
        BY <2>1
      <3>2. /\ config[d].key = IF ask[d].creds = None THEN None ELSE ask[d].creds.key
            /\ config[d].sandbox <=> isSandbox
            /\ config[d].proxy = ProxyFromEnv /\ config[d].options = d
            /\ "sandbox" \in maps[d] <=> isSandbox
            /\ "sandboxMode" \in maps[d] => isSandbox
        BY <2>1, <2>2, <2>5, Zenon DEF BuilderInv
      <3> HIDE DEF isSandbox
      <3>3. config'[d].key = IF ask'[d].creds = None THEN None ELSE ask'[d].creds.key
        BY <2>1, <3>2
      <3>4. config'[d].sandbox <=> isSandbox'
        BY <2>1, <3>1, <3>2
      <3>5. config'[d].proxy = ProxyFromEnv' /\ config'[d].options = d
        BY <2>1, <2>3, <3>2
      <3>6. /\ "sandbox" \in maps'[d] <=> isSandbox'
            /\ "sandboxMode" \in maps'[d] => isSandbox'
        BY <2>1, <3>1, <3>2
      <3> QED
        BY <3>3, <3>4, <3>5, <3>6
    <2>6. ASSUME pc'[d] \in {"built", "sent"}
          PROVE  /\ client'[d] \in Client
                 /\ client'[d].key = config'[d].key /\ client'[d].options = d
                 /\ client'[d].transport = "default" <=> config'[d].proxy = ""
      BY <2>1, <2>2, <2>6 DEF BuilderInv
    <2>7. ASSUME pc'[d] = "sent"
          PROVE  /\ sent'[d].key = client'[d].key /\ sent'[d].options = maps'[d]
                 /\ sent'[d].host \in Hosts
                 /\ sent'[d].direct <=> Dial(client[d], sent[d].host)'
      BY <2>1, <2>2, <2>4, <2>7 DEF BuilderInv
    <2>8. pc'[d] # "sent" => sent'[d] = None
      BY <2>1, <2>2 DEF BuilderInv
    <2> QED
      BY <2>5, <2>6, <2>7, <2>8, Zenon DEF BuilderInv
  <1>2. \A d \in Builder : pc'[d] = "refused" =>
           ask'[d].exchange \notin supportedExchanges \/ config'[d].proxy = "socks5"
    BY DEF FactoryInv, TypeOK
  <1>3. TypeOK'
    BY <1>2 DEF FactoryInv, TypeOK, supportedExchanges
  <1> QED
    BY <1>1, <1>3 DEF FactoryInv

LEMMA NewClientPreserves ==
    ASSUME FactoryInv, NEW b \in Builder, NEW e \in Exchanges \cup {Unknown},
           NEW cr \in Creds \cup {None}, newClientForExchange(b, e, cr)
    PROVE  FactoryInv'
  <1> DEFINE isSandbox == cr # None /\ cr.sandbox
             key == IF cr = None THEN None ELSE cr.key
             options == {"recvWindow"} \cup IF isSandbox THEN {"sandbox"} ELSE {}
             conf == [key |-> key, sandbox |-> isSandbox, proxy |-> ProxyFromEnv,
                      options |-> b]
             asked == [exchange |-> e, creds |-> cr]
             next == IF e \in Exchanges THEN "construct" ELSE "refused"
  <1>1. /\ pc[b] = "idle" /\ UNCHANGED <<environ, client, sent>>
        /\ ask' = [ask EXCEPT ![b] = asked] /\ config' = [config EXCEPT ![b] = conf]
        /\ maps' = [maps EXCEPT ![b] = options] /\ pc' = [pc EXCEPT ![b] = next]
    BY DEF newClientForExchange
  <1>2. key \in Keys \cup {None} /\ isSandbox \in BOOLEAN /\ options \in SUBSET OptionNames
    BY DEF Creds, OptionNames
  <1>3. asked \in Ask /\ asked.exchange = e /\ asked.creds = cr
    BY DEF Ask
  <1>4. conf \in Config
    BY <1>2, ProxyIsAVariable DEF Config, FactoryInv
  <1>5. /\ "sandbox" \in options <=> isSandbox
        /\ "sandboxMode" \notin options
    OBVIOUS
  <1>6. next \in {"construct", "refused"} /\ (next = "refused" => e \notin supportedExchanges)
    BY DEF supportedExchanges, Exchanges
  <1>7. conf.key = key /\ conf.sandbox = isSandbox /\ conf.proxy = ProxyFromEnv /\ conf.options = b
    OBVIOUS
  <1> HIDE DEF options, conf, asked, next
  <1>8. ProxyFromEnv' = ProxyFromEnv /\ sent'[b] = None
    BY <1>1 DEF ProxyFromEnv, FactoryInv, BuilderInv
  <1>9. pc'[b] = next /\ ask'[b] = asked /\ config'[b] = conf /\ maps'[b] = options
    BY <1>1 DEF FactoryInv, TypeOK
  <1>10. BuilderInv(b)'
    BY <1>3, <1>5, <1>6, <1>7, <1>8, <1>9 DEF BuilderInv
  <1> HIDE DEF isSandbox, key
  <1> QED
    BY <1>1, <1>2, <1>3, <1>4, <1>6, <1>8, <1>9, <1>10, BuilderStepPreserves
    DEF FactoryInv, TypeOK

LEMMA ConstructPreserves ==
    ASSUME FactoryInv, NEW b \in Builder, NEW e, NEW type \in Types,
           NEW inSandbox \in SUBSET {"defaultType", "sandboxMode"},
           Construct(b, e, type, inSandbox)
    PROVE  FactoryInv'
  <1> DEFINE cr == ask[b].creds
             isSandbox == cr # None /\ cr.sandbox
             built == [type |-> type, key |-> config[b].key, options |-> config[b].options,
                       transport |-> CASE config[b].proxy = ""       -> "default"
                                       [] config[b].proxy = "socks5" -> "dialer"
                                       [] OTHER                      -> "proxy"]
  <1>1. /\ pc[b] = "construct" /\ UNCHANGED <<environ, ask, config, sent>>
        /\ maps' = IF config[b].sandbox
                   THEN [maps EXCEPT ![config[b].options] = @ \cup inSandbox] ELSE maps
        /\ \/ client' = [client EXCEPT ![b] = built] /\ pc' = [pc EXCEPT ![b] = "built"]
           \/ /\ config[b].proxy = "socks5" /\ pc' = [pc EXCEPT ![b] = "refused"]
              /\ UNCHANGED client
    BY DEF Construct
  <1>2. /\ config[b].key = IF cr = None THEN None ELSE cr.key
        /\ config[b].sandbox <=> isSandbox
        /\ config[b].proxy = ProxyFromEnv /\ config[b].options = b
        /\ "sandbox" \in maps[b] <=> isSandbox
        /\ "sandboxMode" \in maps[b] => isSandbox
        /\ sent[b] = None
    BY <1>1 DEF FactoryInv, BuilderInv
  <1>3. config[b].options = b /\ config[b] \in Config
    BY <1>2 DEF FactoryInv, TypeOK
  <1>4. built \in Client /\ (built.transport = "default" <=> config[b].proxy = "")
    BY <1>3 DEF Config, Client
  <1>5. built.key = config[b].key /\ built.options = b
    BY <1>3
  <1>6. /\ maps' \in [Builder \cup {Shared} -> SUBSET OptionNames]
        /\ \A d \in Builder \ {b} : maps'[d] = maps[d]
        /\ "sandbox" \in maps'[b] <=> isSandbox
        /\ "sandboxMode" \in maps'[b] => isSandbox
    BY <1>1, <1>2, <1>3 DEF FactoryInv, TypeOK, OptionNames
  <1> HIDE DEF built
  <1>7. ProxyFromEnv' = ProxyFromEnv /\ ask'[b] = ask[b] /\ config'[b] = config[b]
    BY <1>1 DEF ProxyFromEnv
  <1>8. CASE client' = [client EXCEPT ![b] = built] /\ pc' = [pc EXCEPT ![b] = "built"]
    <2>1. pc'[b] = "built" /\ client'[b] = built /\ sent'[b] = None
      BY <1>1, <1>2, <1>8 DEF FactoryInv, TypeOK
    <2>2. BuilderInv(b)'
      BY <1>2, <1>4, <1>5, <1>6, <1>7, <2>1 DEF BuilderInv
    <2> QED
      BY <1>1, <1>4, <1>6, <1>8, <2>1, <2>2, BuilderStepPreserves DEF FactoryInv, TypeOK
  <1>9. CASE /\ config[b].proxy = "socks5" /\ pc' = [pc EXCEPT ![b] = "refused"]
             /\ UNCHANGED client
    <2>1. pc'[b] = "refused" /\ sent'[b] = None
      BY <1>1, <1>2, <1>9 DEF FactoryInv, TypeOK
    <2>2. BuilderInv(b)'
      BY <1>2, <1>6, <1>7, <2>1 DEF BuilderInv
    <2> QED
      BY <1>1, <1>6, <1>7, <1>9, <2>1, <2>2, BuilderStepPreserves DEF FactoryInv, TypeOK
  <1> QED
    BY <1>1, <1>8, <1>9

LEMMA ConstructorPreserves ==
    ASSUME FactoryInv, NEW b \in Builder, Constructor(b)
    PROVE  FactoryInv'
  <1>1. PICK e \in Exchanges, type \in Types, inSandbox \in SUBSET {"defaultType", "sandboxMode"} :
           Construct(b, e, type, inSandbox)
    <2> USE DEF Exchanges, Types
    <2>1. CASE TokocryptoClient(b)
      BY <2>1 DEF TokocryptoClient
    <2>2. CASE BinanceClient(b)
      BY <2>2 DEF BinanceClient
    <2>3. CASE CoinbaseClient(b)
      BY <2>3 DEF CoinbaseClient
    <2>4. CASE IndodaxClient(b)
      BY <2>4 DEF IndodaxClient
    <2>5. CASE OKXClient(b)
      BY <2>5 DEF OKXClient
    <2>6. CASE CEXIOClient(b)
      BY <2>6 DEF CEXIOClient
    <2>7. CASE KuCoinClient(b)
      BY <2>7 DEF KuCoinClient
    <2>8. CASE CryptocomClient(b)
      BY <2>8 DEF CryptocomClient
    <2>9. CASE BybitClient(b)
      BY <2>9 DEF BybitClient
    <2>10. CASE BitgetClient(b)
      BY <2>10 DEF BitgetClient
    <2>11. CASE CoinexClient(b)
      BY <2>11 DEF CoinexClient
    <2>12. CASE HashkeyClient(b)
      BY <2>12 DEF HashkeyClient
    <2> QED
      BY <2>1, <2>2, <2>3, <2>4, <2>5, <2>6, <2>7, <2>8, <2>9, <2>10, <2>11, <2>12
      DEF Constructor
  <1> QED
    BY <1>1, ConstructPreserves

\* No client is refused for its type: the conversions know every type there is.
LEMMA EveryTypeIsAnExchange ==
    ASSUME NEW type \in Types
    PROVE  AsExchange(type) /\ AsStreamingExchange(type)
  BY DEF Types, AsExchange, AsStreamingExchange

LEMMA FetchPreserves ==
    ASSUME FactoryInv, NEW b \in Builder, NEW h \in Hosts, Fetch(b, h)
    PROVE  FactoryInv'
  <1> DEFINE request == [type |-> client[b].type, key |-> client[b].key,
                         options |-> maps[client[b].options], host |-> h,
                         direct |-> Dial(client[b], h)]
  <1>1. pc[b] = "built" /\ UNCHANGED <<environ, ask, config, maps, client>>
    BY DEF Fetch
  <1>2. BuilderInv(b) /\ client[b] \in Client /\ client[b].options = b
    BY <1>1 DEF FactoryInv, BuilderInv
  <1>3. /\ client[b].type \in Types /\ client[b].key \in Keys \cup {None}
        /\ maps[b] \in SUBSET OptionNames /\ Dial(client[b], h) \in BOOLEAN
    BY <1>2 DEF Client, FactoryInv, TypeOK, Dial
  <1>4. sent' = [sent EXCEPT ![b] = request] /\ pc' = [pc EXCEPT ![b] = "sent"]
    BY <1>3, EveryTypeIsAnExchange DEF Fetch
  <1>5. request \in Request
    BY <1>2, <1>3 DEF Request
  <1>6. /\ request.key = client[b].key /\ request.options = maps[b] /\ request.host = h
        /\ request.direct <=> Dial(client[b], h)
    BY <1>2
  <1> HIDE DEF request
  <1>7. pc'[b] = "sent" /\ sent'[b] = request
    BY <1>4 DEF FactoryInv, TypeOK
  <1>8. Dial(client[b], h)' <=> Dial(client[b], h)
    BY <1>1 DEF Dial, shouldUseProxy, Exceptions
  <1>9. BuilderInv(b)'
    <2>1. sent'[b].direct <=> Dial(client[b], sent[b].host)'
      BY <1>1, <1>6, <1>7, <1>8 DEF Dial, shouldUseProxy, Exceptions
    <2> QED
      BY <1>1, <1>2, <1>6, <1>7, <2>1 DEF BuilderInv, ProxyFromEnv
  <1> QED
    BY <1>1, <1>4, <1>5, <1>7, <1>9, BuilderStepPreserves DEF FactoryInv, TypeOK

LEMMA ReturnPreserves ==
    ASSUME FactoryInv, NEW b \in Builder, Return(b)
    PROVE  FactoryInv'
  <1>1. /\ environ' = environ /\ pc' = [pc EXCEPT ![b] = "idle"]
        /\ ask' = [ask EXCEPT ![b] = NoAsk] /\ config' = [config EXCEPT ![b] = NoConfig]
        /\ client' = [client EXCEPT ![b] = None] /\ sent' = [sent EXCEPT ![b] = None]
        /\ maps' = [maps EXCEPT ![b] = {}]
    BY DEF Return
  <1>2. NoAsk \in Ask /\ NoConfig \in Config
    BY DEF NoAsk, Ask, NoConfig, Config, Variable
  <1>3. pc'[b] = "idle" /\ sent'[b] = None
    BY <1>1 DEF FactoryInv, TypeOK
  <1>4. BuilderInv(b)'
    BY <1>3 DEF BuilderInv
  <1> QED
    BY <1>1, <1>2, <1>3, <1>4, BuilderStepPreserves DEF FactoryInv, TypeOK

-----------------------------------------------------------------------------
(* The theorems                                                            *)

LEMMA FactoryInvInit == Init => FactoryInv
  <1> SUFFICES ASSUME Init
               PROVE  FactoryInv
    OBVIOUS
  <1>1. NoAsk \in Ask /\ NoConfig \in Config
    BY DEF NoAsk, Ask, NoConfig, Config, Variable
  <1>2. TypeOK
    BY <1>1 DEF Init, TypeOK
  <1> QED
    BY <1>2 DEF Init, FactoryInv, BuilderInv

LEMMA FactoryInvStep == FactoryInv /\ [Next]_vars => FactoryInv'
  <1> SUFFICES ASSUME FactoryInv, [Next]_vars
               PROVE  FactoryInv'
    OBVIOUS
  <1>1. CASE UNCHANGED vars
    <2>1. UNCHANGED <<environ, pc, ask, config, maps, client, sent>>
      BY <1>1 DEF vars
    <2>2. TypeOK'
      BY <2>1 DEF FactoryInv, TypeOK
    <2>3. ASSUME NEW b \in Builder PROVE BuilderInv(b)'
      BY <2>1 DEF FactoryInv, BuilderInv, ProxyFromEnv, Dial, shouldUseProxy, Exceptions
    <2> QED
      BY <2>2, <2>3 DEF FactoryInv
  <1>2. CASE Next
    BY <1>2, NewClientPreserves, ConstructorPreserves, FetchPreserves, ReturnPreserves DEF Next
  <1> QED
    BY <1>1, <1>2

\* What is known of every call's configuration, map, client and request holds
\* for any number of calls at once (pool.go:142-215, client.go:41-107).
THEOREM FactoryInvariant == Spec => []FactoryInv
  BY FactoryInvInit, FactoryInvStep, PTL DEF Spec

\* Types; and a call is refused only for an exchange outside the enumeration or
\* a dialer that could not be set up (exchange.go:27-88, market_data.go:81-96).
THEOREM FactoryTypes == Spec => []TypeOK
  <1>1. FactoryInv => TypeOK
    BY DEF FactoryInv
  <1> QED
    BY <1>1, FactoryInvariant, PTL

\* A request is signed with its own call's key, and for the sandbox if and only
\* if the call's credentials are (pool.go:155-171, client.go:134-142).
THEOREM RequestsAlwaysMatchCredentials == Spec => []RequestsMatchCredentials
  <1>1. FactoryInv => RequestsMatchCredentials
    <2> SUFFICES ASSUME FactoryInv, NEW b \in Builder, sent[b] # None
                 PROVE  LET cr == ask[b].creds
                            isSandbox == cr # None /\ cr.sandbox
                        IN  /\ sent[b].key = IF cr = None THEN None ELSE cr.key
                            /\ "sandbox" \in sent[b].options <=> isSandbox
                            /\ "sandboxMode" \in sent[b].options => isSandbox
      BY DEF RequestsMatchCredentials
    <2>1. BuilderInv(b) /\ pc[b] = "sent"
      BY DEF FactoryInv, BuilderInv
    <2>2. sent[b].key = config[b].key /\ sent[b].options = maps[b]
      BY <2>1 DEF BuilderInv
    <2>3. config[b].key = IF ask[b].creds = None THEN None ELSE ask[b].creds.key
      BY <2>1 DEF BuilderInv
    <2> QED
      BY <2>1, <2>2, <2>3 DEF BuilderInv
  <1> QED
    BY <1>1, FactoryInvariant, PTL

\* No request gets round a proxy that is set and is one, unless NO_PROXY names
\* its host (client.go:85-91, proxy.go:9-61).
THEOREM AlwaysDirectOnlyIfNamed == Spec => []DirectOnlyIfNamed
  <1>1. FactoryInv => DirectOnlyIfNamed
    <2> SUFFICES ASSUME FactoryInv, NEW b \in Builder, sent[b] # None, sent[b].direct
                 PROVE  \/ environ.HTTPS_PROXY = "malformed"
                        \/ environ.HTTPS_PROXY = "" /\ environ.HTTP_PROXY \in {"", "malformed"}
                        \/ Named(sent[b].host)
      BY DEF DirectOnlyIfNamed
    <2>1. BuilderInv(b) /\ pc[b] = "sent"
      BY DEF FactoryInv, BuilderInv
    <2>2. sent[b].host \in Hosts /\ Dial(client[b], sent[b].host)
      BY <2>1 DEF BuilderInv
    <2>3. CASE client[b].transport = "default"
      <3>1. config[b].proxy = "" /\ config[b].proxy = ProxyFromEnv
        BY <2>1, <2>3 DEF BuilderInv
      <3> QED
        BY <3>1, ProxyIsAVariable DEF FactoryInv
    <2>4. CASE ~shouldUseProxy(sent[b].host)
      BY <2>2, <2>4, ExemptIsNamed DEF FactoryInv
    <2> QED
      BY <2>2, <2>3, <2>4 DEF Dial
  <1> QED
    BY <1>1, FactoryInvariant, PTL

=============================================================================
