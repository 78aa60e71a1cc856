# cegw: a verification development

cegw is a gateway between trading clients and crypto exchanges: one Go process
that serves gRPC, a REST gateway in front of it and two WebSocket endpoints,
and calls the exchanges through the CCXT library. This directory holds TLA+
models of its stateful parts, the TLC configurations that check them on small
instances, and TLAPS proofs. Paths below are relative to `src/`; a module's
name is a file of this directory.

## Inventory

| component | state | operations | interacts with |
|---|---|---|---|
| client pool, `internal/ccxt/pool.go`, `util.go` | a map exchange -> (client, count of long-lived references) under one mutex | `Acquire`, `Release`, `Borrow`, `NewClientForExchange` | every handler; the factory, under the mutex |
| client factory, `internal/ccxt/client.go`, `proxy.go`, `exchange.go` | none; each client keeps a reference to a map of options | `newClientForExchange`, twelve constructors, `ProxyFromEnv`, `shouldUseProxy`, `AsExchange` | environment variables; every request a client makes |
| market cache, `internal/service/market_data.go` | per exchange: list, `loadedAt`, `loadInProg`, under an RWMutex; a singleflight group | `ensureCache`, `cacheMarkets`, `loadMarketsInto`, `markLoading`, `snapshotCache` | the pool; the exchange |
| streams, `internal/server/websocket.go`, `market_data.go` | per session: context, connection, two goroutines | watch loop, poll loop, reader goroutine | the pool; the exchange; the peer |
| market data requests, `market_data.go` | per call | `GetQuotes` (batches), `GetCurrentPrice`, `GetOrderBook`, `ListMarkets` | the pool; the exchange; the market cache |
| ticker search, `market_data.go` | none | `rankTickerMatches`, `classifyMatch` | the market cache |
| trading, `internal/service/trading.go` | none here; orders at the exchange | nine unary handlers | a private client; the exchange |
| monitoring, `internal/service/monitoring.go` | a price cache per call | `CheckPriceAlerts` | the pool; the exchange |
| process and servers, `cmd/cegw/main.go`, `internal/server/grpc.go`, `http.go` | what main waits for, two listeners, a channel of errors | start, fail to start, signal, `GracefulStop`, `Shutdown`, exit | each other, through the root context |
| REST gateway, `gen/cegw/v1/*.pb.gw.go` | a gRPC connection per service, to the same process | decode a request, forward it, translate the answer | both servers |
| HTTP authentication, `internal/middleware/auth.go` | none | `AuthMiddleware`: basic, OAuth2, or a setting it does not know | the token's issuer |
| logging and metrics, `internal/middleware`, `internal/metrics`, `internal/logger` | none that the rest depends on | read the body, log, count, pass on | every call |
| configuration, generated messages and stubs, `pkg/client` | none that the rest depends on | | |

What is hard about it, and what makes each part correct:

* **Pool.** Streams are counted, requests are not; `Release` names an exchange
  and not a client; the factory can fail or return nil. Correct means: the count
  is the number of streams that owe a Release, nobody's Release takes a client
  away from another stream, a client that signs for a user is never shared.
* **Market cache.** Two kinds of callback run under one singleflight key, two
  snapshots are taken outside it, and a flag must be cleared on four ways out.
  Correct means: loads do not overlap, the flag tells the truth, a request that
  cannot answer from a fresh list answers only after an attempt, always answers,
  and a failed load costs nothing that was there.
* **Streams.** A session can end in a dozen ways, in two goroutines, and the
  exchange calls do not know its context. Correct means: what was acquired is
  released exactly once, calls go to the client the pool has, one error at most
  is reported and is the last message, and a peer that leaves is noticed.
* **Requests, trading, monitoring.** Long sequential handlers whose loops,
  limits and error answers must agree with what the exchange did.
* **Factory.** Option maps are written to after they were handed on, and proxy
  exceptions are matched by hand. Correct means: a request is signed and routed to the
  environment its own credentials ask for, and none gets round a proxy unless named.
* **Search.** The list comes in the order of a Go map, another one after every load.
  Correct means: that order never shows, and the limit cuts off the worst.
* **Servers and gateway.** Shutdown is started by one goroutine and waited for by
  none. A REST call can be lost on two connections, before or after it acted.
  Correct means: a call that is let in ends, its status says nothing false about
  what happened, a refused one does nothing, and the process stops when told to.

## Modules

* `SharedClient`: what a stream is promised. It takes the client of an exchange
  and drops it; while somebody holds an exchange's client everybody who takes it
  gets the same one.
* `ClientPool`: the pool and its consumers. `clients` is `ClientPool.clients`
  (`Absent` for a key that is not there), `live` the instances built, `owed` and
  `held` a stream's deferred Release and its `client`, `borrowed` and `asked` a
  request's client and credentials. One action per entry point: `Acquire`,
  `Release`, `NewClientForExchange`, and `EndCall` for the return of a request
  (which tells nobody). `getOrCreate` and `Release` hold the mutex throughout, so
  each is one step. `Promise` is the refinement of `SharedClient`.
* `MarketCache`: one exchange's cache (entries, and singleflight keys, of
  different exchanges are independent), the requests on it and the priming
  goroutine. Every access under `cacheMux` is a step, the read of the entry's
  fields after `RUnlock` is a step of its own, `LoadMarkets` is a step with three
  outcomes. `singleflight` is modelled from its use: the callback runs in the
  caller that finds nobody running, others wait until it returns.
* `StreamSessions`: price WebSocket, order-book WebSocket and gRPC
  `StreamCurrentPrice` sessions over `ClientPool`'s state and operations
  (`Pool == INSTANCE ClientPool WITH owed <- owed, held <- held`). `pc` names the
  place in the handler; `owed` and `held` are computed from it, so that the sessions
  keep the pool's protocol is checked (`SessionsUseThePool`) and not assumed.
  `setting` is the configuration: which exchanges can be watched, and which poll
  interval is zero, where `time.NewTicker` panics. `up` turns false when that happens
  in a gRPC handler, where nothing recovers it. `sent` is the last message to the peer
  and the number of errors reported. Any watch may end in an error, and any write may
  fail, whether or not the peer has gone.
* `Quotes`: `GetQuotes`. One action per call to the exchange: `FetchLatest` for a
  request without a start, `FetchBatch` for one turn of the paging loop, with the
  exchange adding candles (`NewCandle`) between two turns. A candle is its opening
  time; `since` is `shiftedStart`, `merged` is `mergedKlines`; `pageSize` is the most
  this exchange returns in one call, which need not be a batch. Candles may be missing,
  or closer together than the interval.
* `Trading`: the nine handlers of `trading.go` on one account. What they share
  (checks, client, the switch on the side, error mapping) is `Call`, `NewClient`,
  `MapError`; what differs is one action per handler, at `pc = "exchange"`. A call
  to the exchange fails before or after its effect; `GiveUp` is a caller who leaves,
  whose handler goes on because no handler passes its context to the exchange. An order
  has a `state` at the exchange; what CCXT calls that state is one of `WordsOf`, each
  case of `mapOrderStatus` among them. The account has one order placed elsewhere. The
  count in the answer of `CancelAllOrders` (trading.go:585-589) is the length of
  whatever list the exchange returned; it is not modelled.
* `PriceAlerts`: `CheckPriceAlerts`, one action per way through the loop's body
  (`Reuse`, `FetchTicker`, `FetchFails`), with the market moving between them.
* `CallPromise`: what the caller of a handler may count on, whatever is lost on the
  way: the call acts at most once, who is told it did is told the truth, and who is
  told it did not may send it again. `Trading` implements it for its nine handlers,
  with `acts` and `told` computed from the account and the answer; `Gateway`
  implements it for callers of the REST API, with handlers known only by what
  `CallPromise` says of them.
* `ClientFactory`: concurrent builds and what becomes of the clients. `config` is the
  `ClientConfig`, `maps` the option maps by who allocated them, `client` the client
  with the transport its constructor chose. One action per constructor (each is
  `Construct` with its exchange, type and sandbox options); `Fetch` converts the
  client and dials. Hosts are sequences of labels, or of an address's bytes. Only HTTP
  requests are modelled: the proxy is given to `httpClient.Transport` (client.go:97-101),
  and what the WebSocket of a `WatchTicker` dials is CCXT's.
* `MarketRequests`: `SearchTicker` and `ListMarkets` on a list in any order,
  `GetCurrentPrice` and `GetOrderBook`, and beside them what the streams make of the
  same ticker and the same book. Every handler may also refuse, because its request
  lacks something or asks too much or because the cache, the client or the exchange
  fails; the order-book stream's limit has a default and an upper bound. What
  `strings.HasPrefix` and `Contains` say of a symbol and a query is the constant
  `Facts`. A loop that appends what passes a test is `Kept`, with a round for each
  element; `sort.SliceStable` is `Sorted`, the one sequence of the matches that is in
  order. Its variables and its specification have names of their own (`RequestsSpec`),
  because its proofs stand beside those of `Quotes`.
* `HttpAuth`: `AuthMiddleware` as operators on a header, the settings and the key set
  the issuer returned. `Gateway` extends it. The paths auth.go:31-35 lets pass unasked
  lead to no handler of a service and are left out.
* `Gateway`: `main`, the two servers, the connection of each service, and REST calls
  from `Arrive` to their answer. `main` is where `main()` is, `errs` the channel
  `errChan`, `conn` the connection `Register...HandlerFromEndpoint` dials, `pc` where
  the HTTP server is with a call and `srv` where the gRPC server is with it: the two
  part when a caller or a connection goes. `End` is the end of the process, which cuts
  off whatever is under way.
* `MC*`: the instances TLC checks.
* `ClientPoolProofs`, `MarketCacheProofs`, `StreamSessionsProofs`, `TradingProofs`,
  `PriceAlertsProofs`, `ClientFactoryProofs`, `GatewayProofs`: the theorems about the
  module each is named after; `MarketDataProofs`: those about `Quotes` and
  `MarketRequests`. `StreamSessionsProofs` uses those of `ClientPoolProofs` through an
  instance.

Operators whose name has a suffix (`GetOrCreate_storesNil`) are wrong on purpose:
each differs from the definition below it by one plausible slip and shows that a
property notices it. They are used nowhere else.

The modules do not share variables, except `StreamSessions`, which is the handlers
over `ClientPool`'s state. That is how the code is: a trading call has a client of
its own, `GetQuotes` and `CheckPriceAlerts` borrow one and, as `ClientPool` shows,
nothing another consumer does takes a borrowed client away. Where modules meet
otherwise, one relies on what the other is shown to implement: streams on
`SharedClient`, the gateway on `CallPromise`.
A `NewClient` step of those modules therefore has only the outcomes
`NewClientForExchange` has there: a client, none, or an error.

## What the runs check

| run | shows | bounds |
|---|---|---|
| `pool` | `refs` is the number of streams that owe a Release; all streams of an exchange share the pool's one client; credentials stay with their request; the pool implements `SharedClient` | 2 exchanges and an unsupported one, 3 streams, 2 callers, 2 pairs of credentials, at most `MaxClients` = 3 instances built |
| `cache` | loads do not overlap, priming included; the in-progress flag is up only during a load; a request loads only what is stale, and answers after an attempt; failed loads lose nothing; every request is answered | 2 requests, each made again and again, and the priming goroutine |
| `sessions` | whatever ends a session, panics included, the pool is given back what was taken (the sessions implement `ClientPool`), one error at most is reported and nothing after it, a session whose peer left ends, and so does its reading goroutine | a WebSocket session of either kind, a gRPC stream and a unary caller; a known and an unsupported exchange; settings where watching works, where it does not, and where the price interval is zero besides |
| `quotes` | no candle is skipped or doubled between pages, the limit holds, no closed candle is missing but for the three reasons below, paging ends | batches of 2; exchanges that return 1 or 2 candles at once; 6 opening times, some closer than the interval; any start, end and limit of small sets |
| `trading` | the handlers implement `CallPromise`: at most one order per call, a definite code means nothing happened and nothing will; effects as asked for, OK is true, a status told is true and a final one stays so | 2 calls of any handler, 2 symbols, an order placed elsewhere, all words of `mapOrderStatus` and others |
| `alerts` | each alert answered once and in its place; one price of the call explains the alerts of a symbol; the call ends | up to 3 alerts of 2 symbols, 2 prices and none |
| `factory` | a request is signed with its own call's key and goes to the sandbox exactly if its credentials say so, whatever is built meanwhile; no request gets round a proxy unless its host is named in the list that counts; the lists of exchanges agree | 2 builders, the 12 exchanges and an unknown one, 2 keys, 3 hosts, each kind of exception, in NO_PROXY, in no_proxy alone and in both, proxies of each scheme and a malformed one |
| `search` | the answer is the best matches, best first, whatever order the list came in; book levels keep their order and limit, and unary answer and stream agree | 4 symbols listed in all orders and subsets, 2 queries that meet every rank, limits around both bounds, books of up to 3 levels, streams of at most 2 |
| `gateway` | a REST caller may count on what a gRPC caller may (the gateway implements `CallPromise`), through starts, lost connections and the end of the process; no handler runs for a caller who is not who it should be; no call is lost for want of a connection once the service was reached; what was let in ends; the process stops when told | 2 calls of 3 requests, one service, 4 authentication settings, 3 key sets, 4 codes, connections that age |

The bounds are small because what can go wrong is local. In the pool two streams
and one borrower on one exchange already give every order of a last Release, a new
Acquire and a request in flight; the run has one more of each, and the proofs remove
the bound. In the cache one process loads, another waits for it or comes after it, and
the primer is a third; again the proofs remove the bound. Two sessions share an
exchange or use different ones, and a reader concerns its own session only. Two batches
of two candles let a page boundary fall on a candle, in a gap and at the newest candle;
a third page adds no new case; candles two milliseconds apart where the interval is three
are the short month. Two concurrent trading calls suffice because a handler
shares nothing with another but the account. Three alerts let one fail, one fetch and
one reuse. A builder could be disturbed only through a map, and one other builder is
enough for that. A search compares symbols in pairs; four of them fill three ranks and
still leave one to be cut. Two REST calls meet on one connection; connections of
different services are independent.

`EveryClosedCandle` names the three reasons for which a call with a start may lack a
closed candle, and the run meets each: the limit cut the answer; the exchange returns
less than a batch at once, so that the answer is one whole page of it (a page shorter
than 1000 ends the call, market_data.go:357); or two candles of the range are closer than
the interval, as in a short month (a month counts as 30 days, util.go:137), when the
division at market_data.go:321 can ask for too few. Leaving out either of the last two
gives a counterexample.

These runs expect a violation, each of a statement the repository makes:

| run | the repository says | the code does |
|---|---|---|
| `trading_sandbox` | README.md:49 SANDBOX_MODE "Enable sandbox/test mode" | the flag is logged; only the credentials' flag is used |
| `factory_no_proxy` | README.md:51 NO_PROXY "Comma-separated list of hosts to bypass proxy" | only the SOCKS5 dialer looks at it; with an HTTP proxy a host that is in the list goes through it |
| `gateway_graceful` | main.go:74 "Received signal, shutting down gracefully" | main returns after `cancel()`; nothing waits for `GracefulStop` or for `Shutdown` and its ten seconds, and a call under way is cut off |

Other disagreements were met while reading and need no run to be seen.

* pool.go:22 says that only one client instance exists per exchange; a borrower
  outlives the last Release, and the next consumer builds a second. pool.go:115 says
  the dropped client is closed; it is only removed.
* market_data.go:24-25 says a stale list is refreshed in the background; the request
  that meets it waits for the refresh. market_data.go:64-65 says a cache is loaded
  exactly once via singleflight; the priming callback does not look again, and loads a
  list a request has just loaded.
* market_data.go:228 speaks of batching; a page shorter than 1000, the exchange's own
  limit perhaps, ends the call (line 357), and months of less than 30 days can make it
  ask for too few. No end is an upper bound of the answer.
* `GetCurrentPrice` answers 0 for a ticker without a close (market_data.go:431); the
  streams take the last price then (605-609). A book level of one number is skipped in
  the unary answer and null in the stream's. In monitoring.go:100 a missing close is
  the price 0 and triggers LESS_THAN, where monitoring.proto:20 has "current market
  prices".
* monitoring.go:96 logs "keeping alert pending"; line 97 echoes the alert with the
  status it came with.
* trading.go:793-797 has an answer for `codes.PermissionDenied`, which `MapError`
  (error.go:21-36) never returns.
* A malformed HTTPS_PROXY counts as no proxy at all, even if HTTP_PROXY is good.
* `getPublicKey` reads the numbers of a standard JWK as PEM bodies, so that a token
  signed by such a key is never accepted; only a key set that carries PEM works.

## What is assumed

* **Steps.** Code under one mutex is one step; so is a call to the exchange, which
  takes effect at some moment between its start and its end. The read of a cache
  entry's fields outside its mutex (market_data.go:213) is a step of its own.
* **Fairness.** Weak fairness for each goroutine's steps: the Go scheduler runs a
  goroutine that can run. Calls to the exchange end in `MarketCache`, `Quotes`,
  `PriceAlerts` and the fetches of `StreamSessions`, because CCXT's HTTP client has
  timeouts; `WatchTicker` is only assumed to return when the exchange sends or fails.
  The select at websocket.go:265 gets strong fairness for its context branch: Go picks
  among ready branches at random, so a branch that is ready again and again is taken.
  In `Gateway` a handler returns or is stuck for ever, and properties that depend on
  it say so; `Forward` is strongly fair, because a call that waits for a connection is
  woken whenever the connection's state changes. A caller's body, the issuer's key set
  (fetched without a time limit), `GracefulStop` and the start of the servers get no
  fairness. Peers, callers and TTLs owe nothing. `pool`, `trading`, `factory` and
  `search` have safety properties only and no fairness.
* **Time.** `Expire` lets a list turn stale at any moment outside the few statements
  between a load's end and the snapshot that answers from it, which take far less than
  the TTL of 15 minutes. `Quotes` counts milliseconds, with an interval of more than one.
* **The exchange.** After an error of `Trading!Refusals` nothing happened at the
  exchange; after any other something may have. A credential's sandbox flag reaches
  the exchange's test environment. An order that is filled, cancelled or refused stays
  so (`Becomes`), and CCXT says so of an order only if it is (`WordsOf`). Without a start
  CCXT returns no more candles than it is asked for: the code does not cut that answer
  (market_data.go:291-310).
* **Environment.** `singleflight`, the WebSocket and gRPC peers, CCXT calls and the
  market are modelled from how the code uses them; so is the gRPC library, of which the
  gateway relies on this: a connection is made when a call needs it, a call waits while
  it is being made, fails at once if it could not be, and is sent again if the server
  turned it away unseen. `jwt` checks the signature, the method's type and the expiry.
* **NO_PROXY.** It is parsed into entries, none of them empty. Suffixes are compared as
  text, also with addresses: `.0.1` exempts 10.0.0.1 (proxy.go:36, 43), and the model
  counts that as named.
* **Acting.** In `Gateway` a handler that returns OK has acted once, whatever it does;
  for one that only reads, having acted means having been served.

## What is proved

For every value of the constants that satisfies `PoolAssumption`, `ClientPoolProofs`
proves `TypeOK`, `RefsCountHolders`, `HoldersUsePooledClient`,
`CredentialsStayPrivate` and that `ClientPool` implements `SharedClient`. None of
these is inductive alone. `PoolInv` is their conjunction with three facts: a stream
that owes nothing has no client; an exchange without a client is never in the pool,
and whoever acquired it has none; a pooled client belongs to the exchange it is filed
under. The first two are what makes `Release` by exchange harmless for a stream whose
Acquire brought nil. Each action has a lemma; counting holders rests on the facts
about cardinality of `FiniteSetTheorems`, as one stream joins or leaves.

For every set of requests (`CacheAssumption` only asks that the process names differ),
`MarketCacheProofs` proves `TypeOK`, `CallbacksDoNotOverlap`, `FlagMeansLoading`,
`RequestsLoadOnlyStale`, `AnswersAfterAnAttempt` and the action property
`ListSurvivesFailures`, from `CacheInv`. It ties every place inside the callback to
holding the singleflight key, the flag to being past `MarkLoading`, and a place to
what was seen on the way to it. One conjunct, that a request unmarks only after a failed
load, TLC does not miss on small instances, because no reachable state breaks it;
the induction does, because without it `UnmarkLoading` could throw a good list away.

`StreamSessionsProofs` proves that the sessions implement `ClientPool`
(`SessionsUseThePool`): every step of a session is one of the pool's operations or
leaves the pool alone. `SessionInv` adds what that needs, that only a session in the
middle of streaming has a client and that an error is sent on the way out only. The
pool's invariant holds along with it, by the pool's own lemmas, so that
`RefsCountHolders`, `HoldersUsePooledClient` and `CredentialsStayPrivate` hold of the
pool as the real sessions use it (`PoolIsRightUnderSessions`). `NothingAfterError`,
that the errors reported are one at most and the last message, is inductive only with
the conjunct that whoever has reported one is on the way out. Assumed: the kinds of
session are distinct, and the sessions' constants satisfy `PoolAssumption`.

`TradingProofs` proves `EffectsAreAskedFor`, `OkIsTrue`, `FinalStaysTrue` and that the
nine handlers implement `CallPromise`, for any number of calls, symbols, orders and
prices. `TradingInv` has two parts. For each call (`CallInv`) it ties the place in the
handler to the request, to what the call has done to the account and to the answer: no
effect until the handler is done, at most one order, none if the answer is definite.
For the account, an order that is open has not been cut by anybody. `FinalStaysTrue`
goes from the words CCXT may report through all cases of `mapOrderStatus` to the
status told (`StatusIsTrue`), and on through whatever becomes of the order
(`SaidStays`). The refinement rests on two facts: what a call did is of one kind, an
order or cancellations (`OneKindOfEffect`), and no step takes an effect or an answer
back (`StepsOnlyAdd`). Assumed: a request lacks a symbol exactly if it names none, and
`None` is nothing else.

`GatewayProofs` proves that the gateway implements `CallPromise` for REST callers
(`RestPromise`), `NoCallLost`, and types that include who may reach a handler.
`GatewayInv` says of each call which places its two sides can be in together, what the
server has answered and what the caller has been told, and of the servers that one that
serves has been started and has its connection. Assumed of the issuer: its key set holds
its own keys only. That no handler runs for an unauthenticated caller is a theorem of its
own, `OnlyTheAuthenticEverAct`, for any settings, tokens and key sets; the run checks it
in `TypeOK`. Its proof unfolds `HttpAuth` (`OnlyTheAuthenticPass`) and then follows the
call: a handler starts only for a call that was let in, and a call keeps its request.

`PriceAlertsProofs` proves `AlertsKeepTheirPlace` and `OnePriceExplains` for requests of
any length: `AlertsInv` says that the answers so far are those of the alerts so far,
judged by the cached price, or echoed if the fetch failed, and that a cached price is
one the market had during the call.

`ClientFactoryProofs` proves `RequestsMatchCredentials` and `DirectOnlyIfNamed` for
any number of concurrent builds, hosts and NO_PROXY lists. `FactoryInv` says that each
configuration and client refers to its own builder's map, that the map says sandbox
only for a call that does, and that a request's way out is what `Dial` said. `Named`
is worded without the operators the code is modelled by, and says on its own which of
the two lists counts.

`MarketDataProofs` proves of `Quotes` `AnswerIsARun` and `EveryClosedCandle` for any
batch, page sizes and opening times. `QuotesInv` says that the candles collected are a
run of the exchange's and that the next page begins exactly where it ends, also after
the exchange has added candles; and that paging never goes on with an exchange that
returns less than a batch. The exceptions of `EveryClosedCandle` are visible in the
proof: a short page is the last of the series, or whole (`FetchBatchMissesNone`), and the
division in `BatchSize` asks for enough if no two candles are too close
(`ShortPageIsTheLast`).

Of `MarketRequests` it proves `RequestsTypeOK`, which says what the levels of a book come
to in the unary answer and in the stream, within the bounds of each, and that a refusal
brings nothing, and `SearchIsRight`, for any symbols, facts
about them, books, queries and limits. The two are inductive together, because an answer
depends on the list and on nothing earlier; the work is in what the operators return for
every sequence. Theorems of induction cannot be cited with a formula as their parameter,
so each such lemma supposes the set of sizes for which it fails, takes the least of it
(`LeastOf`) and looks at one round less:

* `KeptPicks`: what a loop of `Kept` has appended are the elements that pass the test, all
  of them, at the increasing places where they were. That the loop has a value at all is
  `LoopHasAValue`.
* `AllCanBeArranged`: symbols that all differ can be put in the order of `Before`, by
  finding the place of one more among those arranged. So there is something to choose in
  `Sorted`, and `SortedArranges` says what it is.
* `RankedRight` puts the two together with the cut: what is left out for the limit stands
  behind the cut in the sorted list, and is worse for that. `BeforeIsBetter` relates the
  rank of the code to what makes a match better, and is where that a prefix is also
  contained is needed.
* `UnarySent` and `StreamSent` do the same for a side of a book.

Assumed: an exchange lists finitely many symbols, each once (in the code the list comes
from a map); what begins with a query contains it; a level's place in the book is its
index; null is not a level, nor a query.

`TradingInv`, `GatewayInv`, `SessionInv`, `AlertsInv`, `FactoryInv` and `QuotesInv` held
on the instances above before they were proved. All invariants are established by the
proofs; the runs check what follows from them.

Only model-checked:

* All liveness: `EveryRequestAnswered`, `SessionEndsAfterPeer`, `ReaderDoesNotLeak`,
  `StopsWhenTold`, `CallsEnd` and the two `CallEnds`. Fairness and ENABLED are out of the
  prover's reach.
* The three expected violations: each is a trace.

## What is not modelled, and why

* Text: symbols, messages, JSON and protobuf conversions, the content of logs. The
  prices, times and balances in trading answers.
* `/healthz`, `/readyz`, `/metrics`, `/docs` and the examples page: each answers from
  what it asks at that moment and changes nothing (`/readyz` probes the gRPC server over
  a connection of its own). The origin check of the WebSocket upgrade.
* What logging and metrics record: nothing reads it. What they do to a call is in
  `Gateway`: the body is read before the caller is authenticated, answers pass through.
* The gRPC port's own callers in `Gateway`: that port asks nobody who he is
  (`AuthMiddleware` is the HTTP server's), and what its callers may count on is `Trading`
  and `CallPromise`. `OnlyTheAuthenticEverAct` is about REST calls.
* Configuration: it is read once, and what it may be are constants of the modules.
* Generated messages and stubs, and the `local_request_*` functions and
  `...HandlerServer` registrations of the gateway, which the program does not use.
* `pkg/client`: it wraps the stubs and keeps a connection.
* CCXT and the exchanges, except as environment.

## Plan

The nine passing and three violation runs each answer a question of their own, and every
safety property they check is proved. What could be added:

1. The reading of lists and rules in `ClientFactory` from text (`NO_PROXY` with its ports
   and blanks), of which only the parsed form is modelled.
2. `pkg/client`, once it does more than keep a connection.
