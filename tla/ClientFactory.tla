---------------------------- MODULE ClientFactory ----------------------------
(***************************************************************************)
(* How an exchange client comes to be and where its requests go            *)
(* (internal/ccxt: newClientForExchange, the twelve constructors of        *)
(* client.go, ProxyFromEnv, shouldUseProxy, AsExchange and                 *)
(* AsStreamingExchange). Calls run concurrently, each with a client built  *)
(* for its exchange and its credentials. A client's options are a Go map,  *)
(* which the client refers to and the code writes into while it builds it; *)
(* its proxy is that of the environment, less the hosts of NO_PROXY.       *)
(***************************************************************************)
EXTENDS Naturals, Sequences

CONSTANTS Builder,       \* the calls, each by a goroutine
          Keys,          \* API keys
          None,          \* no key, no credentials, no client, no request
          Hosts,         \* hosts clients connect to
          Environments   \* the environments the process may have

Exchanges == {"TOKOCRYPTO", "BINANCE", "COINBASE", "CEXIO", "INDODAX", "OKX",
              "KUCOIN", "CRYPTOCOM", "BYBIT", "BITGET", "COINEX", "HASHKEY"}

\* Any other value of the enumeration.
Unknown == "13"

Creds == [key : Keys, sandbox : BOOLEAN]

\* A host: a name's labels, or an address's bytes. An entry of NO_PROXY: a host,
\* ".suffix", "*.suffix", or a network, which fixes an address's first bytes.
Host  == [ip : BOOLEAN, parts : Seq({"a", "b", "c", "0", "1"})]
Entry == [kind : {"host", "suffix", "wildcard", "network"}, of : Host]

\* A proxy variable: unset, not a URL, or a URL of some scheme.
Variable == {"", "malformed", "socks5", "http", "https"}
Environment == [HTTPS_PROXY : Variable, HTTP_PROXY : Variable,
                NO_PROXY : SUBSET Entry, no_proxy : SUBSET Entry]

ASSUME FactoryAssumption ==
    /\ None \notin Keys
    /\ \A h \in Hosts : h \in Host /\ h.parts # <<>>
    /\ \A env \in Environments :
          /\ env.HTTPS_PROXY \in Variable /\ env.HTTP_PROXY \in Variable
          /\ \A x \in env.NO_PROXY \cup env.no_proxy :
                x \in Entry /\ x.of.parts # <<>>

VARIABLES environ,  \* the environment
          pc,       \* where each call is
          ask,      \* its exchange and credentials
          config,   \* the ClientConfig newClientForExchange fills in
          maps,     \* the option maps, by who allocated them
          client,   \* the client built
          sent      \* the request the call made

vars == <<environ, pc, ask, config, maps, client, sent>>

\* The owner of a map nobody allocates in the code: a package's.
Shared == "shared"
OptionNames == {"recvWindow", "sandbox", "sandboxMode", "defaultType"}

Ask    == [exchange : Exchanges \cup {Unknown}, creds : Creds \cup {None}]
Config == [key : Keys \cup {None}, sandbox : BOOLEAN, proxy : Variable,
           options : Builder \cup {Shared}]
Types  == {"Tokocrypto", "Binance", "Coinbase", "Cex", "Indodax", "Okx", "Kucoin",
           "Cryptocom", "Bybit", "Bitget", "Coinex", "Hashkey"}
Client == [type : Types, key : Keys \cup {None}, options : Builder \cup {Shared},
           transport : {"default", "dialer", "proxy"}]
Request == [type : Types, key : Keys \cup {None}, options : SUBSET OptionNames,
            host : Hosts, direct : BOOLEAN]

NoAsk    == [exchange |-> Unknown, creds |-> None]
NoConfig == [key |-> None, sandbox |-> FALSE, proxy |-> "", options |-> Shared]

Init == /\ environ \in Environments
        /\ pc = [b \in Builder |-> "idle"]
        /\ ask = [b \in Builder |-> NoAsk]
        /\ config = [b \in Builder |-> NoConfig]
        /\ maps = [m \in Builder \cup {Shared} |-> {}]
        /\ client = [b \in Builder |-> None]
        /\ sent = [b \in Builder |-> None]

-----------------------------------------------------------------------------
(* The environment                                                         *)

\* HTTPS_PROXY, or HTTP_PROXY if it is not set. One that cannot be parsed
\* counts as none, even if the other could be.
ProxyFromEnv ==
    LET var == IF environ.HTTPS_PROXY = "" THEN environ.HTTP_PROXY ELSE environ.HTTPS_PROXY
    IN  IF var = "malformed" THEN "" ELSE var

EndsWith(s, t) == Len(s) >= Len(t) /\ SubSeq(s, Len(s) - Len(t) + 1, Len(s)) = t
BeginsWith(s, t) == Len(s) >= Len(t) /\ SubSeq(s, 1, Len(t)) = t

\* A mutant: the entry's leading dot is not insisted on.
Exempts_bareSuffix(x, h) ==
    \/ x.kind # "network" /\ EndsWith(h.parts, x.of.parts)
    \/ x.kind = "network" /\ h.ip /\ BeginsWith(h.parts, x.of.parts)

\* Whether an entry of NO_PROXY is about host h. The suffixes begin with a dot:
\* the host must have a label before it. They are compared as text, so ".0.1"
\* is also about the address 10.0.0.1.
Exempts(x, h) ==
    \/ x.kind = "host" /\ h = x.of
    \/ /\ x.kind \in {"suffix", "wildcard"}
       /\ Len(h.parts) > Len(x.of.parts) /\ EndsWith(h.parts, x.of.parts)
    \/ x.kind = "network" /\ h.ip /\ BeginsWith(h.parts, x.of.parts)

\* A mutant: no_proxy is read beside NO_PROXY.
Exceptions_both == environ.NO_PROXY \cup environ.no_proxy

\* no_proxy counts only if NO_PROXY is not set.
Exceptions == IF environ.NO_PROXY = {} THEN environ.no_proxy ELSE environ.NO_PROXY

\* Asked before every dial.
shouldUseProxy(h) == \A x \in Exceptions : ~Exempts(x, h)

-----------------------------------------------------------------------------
(* Building a client                                                       *)

\* A mutant: the options every client starts with are one map of the package.
newClientForExchange_oneMap(b, e, cr) ==
    /\ pc[b] = "idle"
    /\ ask' = [ask EXCEPT ![b] = [exchange |-> e, creds |-> cr]]
    /\ config' = [config EXCEPT ![b] =
          [key |-> IF cr = None THEN None ELSE cr.key,
           sandbox |-> cr # None /\ cr.sandbox,
           proxy |-> ProxyFromEnv, options |-> Shared]]
    /\ maps' = [maps EXCEPT ![Shared] = @ \cup {"recvWindow"}
                   \cup IF cr # None /\ cr.sandbox THEN {"sandbox"} ELSE {}]
    /\ pc' = [pc EXCEPT ![b] = IF e \in Exchanges THEN "construct" ELSE "refused"]
    /\ UNCHANGED <<environ, client, sent>>

\* The configuration of a new client, with a map of its own for the options; an
\* exchange that is not known gets nil.
newClientForExchange(b, e, cr) ==
    /\ pc[b] = "idle"
    /\ ask' = [ask EXCEPT ![b] = [exchange |-> e, creds |-> cr]]
    /\ config' = [config EXCEPT ![b] =
          [key |-> IF cr = None THEN None ELSE cr.key,
           sandbox |-> cr # None /\ cr.sandbox,
           proxy |-> ProxyFromEnv, options |-> b]]
    /\ maps' = [maps EXCEPT ![b] = {"recvWindow"}
                   \cup IF cr # None /\ cr.sandbox THEN {"sandbox"} ELSE {}]
    /\ pc' = [pc EXCEPT ![b] = IF e \in Exchanges THEN "construct" ELSE "refused"]
    /\ UNCHANGED <<environ, client, sent>>

\* A constructor: what it adds to the options for the sandbox, and the client it
\* returns. Setting up a SOCKS5 dialer may fail, which is the constructor's only
\* error.
Construct(b, e, type, inSandbox) ==
    /\ pc[b] = "construct" /\ ask[b].exchange = e
    /\ maps' = IF config[b].sandbox
               THEN [maps EXCEPT ![config[b].options] = @ \cup inSandbox]
               ELSE maps
    /\ \/ /\ client' = [client EXCEPT ![b] =
                [type |-> type, key |-> config[b].key, options |-> config[b].options,
                 transport |-> CASE config[b].proxy = ""       -> "default"
                                 [] config[b].proxy = "socks5" -> "dialer"
                                 [] OTHER                      -> "proxy"]]
          /\ pc' = [pc EXCEPT ![b] = "built"]
       \/ /\ config[b].proxy = "socks5"
          /\ pc' = [pc EXCEPT ![b] = "refused"]
          /\ UNCHANGED client
    /\ UNCHANGED <<environ, ask, config, sent>>

TokocryptoClient(b) == Construct(b, "TOKOCRYPTO", "Tokocrypto", {})
BinanceClient(b) == Construct(b, "BINANCE", "Binance", {"defaultType", "sandboxMode"})
CoinbaseClient(b) == Construct(b, "COINBASE", "Coinbase", {"sandboxMode"})
IndodaxClient(b) == Construct(b, "INDODAX", "Indodax", {})
OKXClient(b) == Construct(b, "OKX", "Okx", {"sandboxMode"})
CEXIOClient(b) == Construct(b, "CEXIO", "Cex", {})
KuCoinClient(b) == Construct(b, "KUCOIN", "Kucoin", {"sandboxMode"})
CryptocomClient(b) == Construct(b, "CRYPTOCOM", "Cryptocom", {"sandboxMode"})
BybitClient(b) == Construct(b, "BYBIT", "Bybit", {"sandboxMode"})
BitgetClient(b) == Construct(b, "BITGET", "Bitget", {"sandboxMode"})
CoinexClient(b) == Construct(b, "COINEX", "Coinex", {})
HashkeyClient(b) == Construct(b, "HASHKEY", "Hashkey", {"sandboxMode"})

Constructor(b) ==
    \/ TokocryptoClient(b) \/ BinanceClient(b) \/ CoinbaseClient(b)
    \/ IndodaxClient(b) \/ OKXClient(b) \/ CEXIOClient(b)
    \/ KuCoinClient(b) \/ CryptocomClient(b) \/ BybitClient(b)
    \/ BitgetClient(b) \/ CoinexClient(b) \/ HashkeyClient(b)

-----------------------------------------------------------------------------
(* Using it                                                                *)

\* What the caches are primed from at the start.
supportedExchanges ==
    {"TOKOCRYPTO", "BINANCE", "COINBASE", "CEXIO", "INDODAX", "OKX", "KUCOIN",
     "CRYPTOCOM", "BYBIT", "BITGET", "COINEX", "HASHKEY"}

\* A mutant: a type the switch has forgotten.
AsExchange_forgets(type) == type \in Types \ {"Hashkey"}

\* The types the two conversions have a case for; others become nil.
AsExchange(type) ==
    type \in {"Tokocrypto", "Binance", "Coinbase", "Cex", "Indodax", "Okx", "Kucoin",
              "Cryptocom", "Bybit", "Bitget", "Coinex", "Hashkey"}
AsStreamingExchange(type) ==
    type \in {"Tokocrypto", "Binance", "Coinbase", "Cex", "Indodax", "Okx", "Kucoin",
              "Cryptocom", "Bybit", "Bitget", "Coinex", "Hashkey"}

\* Whether a client's connection to h is direct: a SOCKS5 dialer asks
\* shouldUseProxy at every dial, an HTTP transport never does.
Dial(c, h) ==
    \/ c.transport = "default"
    \/ c.transport = "dialer" /\ ~shouldUseProxy(h)

\* The call's client is looked at as an exchange and makes an HTTP request; one
\* that is no exchange has the call answered Unimplemented. (The proxy is given
\* to the HTTP transport only: what a WatchTicker dials is not modelled.)
Fetch(b, h) ==
    /\ pc[b] = "built"
    /\ IF AsExchange(client[b].type) /\ AsStreamingExchange(client[b].type)
       THEN /\ sent' = [sent EXCEPT ![b] =
                  [type |-> client[b].type, key |-> client[b].key,
                   options |-> maps[client[b].options], host |-> h,
                   direct |-> Dial(client[b], h)]]
            /\ pc' = [pc EXCEPT ![b] = "sent"]
       ELSE pc' = [pc EXCEPT ![b] = "refused"] /\ UNCHANGED sent
    /\ UNCHANGED <<environ, ask, config, maps, client>>

\* The call is over; its client is garbage.
Return(b) ==
    /\ pc[b] \in {"sent", "refused"}
    /\ pc' = [pc EXCEPT ![b] = "idle"]
    /\ ask' = [ask EXCEPT ![b] = NoAsk]
    /\ config' = [config EXCEPT ![b] = NoConfig]
    /\ client' = [client EXCEPT ![b] = None]
    /\ sent' = [sent EXCEPT ![b] = None]
    /\ maps' = [maps EXCEPT ![b] = {}]
    /\ UNCHANGED environ

Next ==
    \E b \in Builder :
        \/ \E e \in Exchanges \cup {Unknown}, cr \in Creds \cup {None} :
              newClientForExchange(b, e, cr)
        \/ Constructor(b)
        \/ \E h \in Hosts : Fetch(b, h)
        \/ Return(b)

Spec == Init /\ [][Next]_vars

-----------------------------------------------------------------------------
(* Properties                                                              *)

\* Types; and the lists agree: a call is refused only for an exchange outside
\* the enumeration, never for want of a constructor or a conversion, or because
\* a dialer could not be set up (exchange.go:27-88, market_data.go:81-96).
TypeOK ==
    /\ environ \in Environments
    /\ pc \in [Builder -> {"idle", "construct", "built", "sent", "refused"}]
    /\ ask \in [Builder -> Ask]
    /\ config \in [Builder -> Config]
    /\ maps \in [Builder \cup {Shared} -> SUBSET OptionNames]
    /\ client \in [Builder -> Client \cup {None}]
    /\ sent \in [Builder -> Request \cup {None}]
    /\ \A b \in Builder : pc[b] = "refused" =>
          ask[b].exchange \notin supportedExchanges \/ config[b].proxy = "socks5"

\* A request goes out as its own call asked, whatever clients others build and
\* use meanwhile: signed with the call's key, and for the sandbox if and only
\* if the call's credentials are for it, although the option maps are written
\* to after they have been handed on (pool.go:155-171, client.go:134-142).
RequestsMatchCredentials ==
    \A b \in Builder : sent[b] # None =>
        LET cr == ask[b].creds
            isSandbox == cr # None /\ cr.sandbox
        IN  /\ sent[b].key = IF cr = None THEN None ELSE cr.key
            /\ "sandbox" \in sent[b].options <=> isSandbox
            /\ "sandboxMode" \in sent[b].options => isSandbox

\* NO_PROXY names h: it is in the list, or ends in a suffix that is, or lies in
\* a network that is; and likewise no_proxy, where there is no NO_PROXY.
Named(h) ==
    \E x \in environ.NO_PROXY \cup environ.no_proxy :
        /\ x \in environ.NO_PROXY \/ environ.NO_PROXY = {}
        /\ \/ h = x.of
           \/ x.kind \in {"suffix", "wildcard"}
              /\ \E i \in 2..Len(h.parts) : SubSeq(h.parts, i, Len(h.parts)) = x.of.parts
           \/ x.kind = "network" /\ h.ip
              /\ \E i \in 0..Len(h.parts) : SubSeq(h.parts, 1, i) = x.of.parts

\* No request gets round a proxy that is set: it is direct only if the proxy's
\* URL is not one, or NO_PROXY names its host; no_proxy has no say beside it
\* (client.go:85-91, proxy.go:9-61).
DirectOnlyIfNamed ==
    \A b \in Builder : sent[b] # None /\ sent[b].direct =>
        \/ environ.HTTPS_PROXY = "malformed"
        \/ environ.HTTPS_PROXY = "" /\ environ.HTTP_PROXY \in {"", "malformed"}
        \/ Named(sent[b].host)

\* What the above rests on, call by call: from the start on its configuration and
\* its map are what it asked for and its own; its client has them, and a proxy
\* or not as the environment says; its request is its client's.
BuilderInv(b) ==
    LET cr == ask[b].creds
        isSandbox == cr # None /\ cr.sandbox
    IN  /\ pc[b] # "idle" =>
              /\ config[b].key = IF cr = None THEN None ELSE cr.key
              /\ config[b].sandbox <=> isSandbox
              /\ config[b].proxy = ProxyFromEnv /\ config[b].options = b
              /\ "sandbox" \in maps[b] <=> isSandbox
              /\ "sandboxMode" \in maps[b] => isSandbox
        /\ pc[b] \in {"built", "sent"} =>
              /\ client[b] \in Client
              /\ client[b].key = config[b].key /\ client[b].options = b
              /\ client[b].transport = "default" <=> config[b].proxy = ""
        /\ pc[b] = "sent" =>
              /\ sent[b].key = client[b].key /\ sent[b].options = maps[b]
              /\ sent[b].host \in Hosts
              /\ sent[b].direct <=> Dial(client[b], sent[b].host)
        /\ pc[b] # "sent" => sent[b] = None

FactoryInv == TypeOK /\ \A b \in Builder : BuilderInv(b)

\* README.md:51 says of NO_PROXY "Comma-separated list of hosts to bypass proxy".
NamedHostsBypassProxy ==
    \A b \in Builder :
        /\ sent[b] # None
        /\ [kind |-> "host", of |-> sent[b].host] \in environ.NO_PROXY
        => sent[b].direct

=============================================================================
