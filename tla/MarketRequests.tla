---------------------------- MODULE MarketRequests ----------------------------
(***************************************************************************)
(* The market-data requests that are one step (internal/service/           *)
(* market_data.go): SearchTicker and ListMarkets, which answer from the    *)
(* cached market list, and GetCurrentPrice and GetOrderBook, which fetch.  *)
(* The list is filled by ranging over a Go map, so that every load has its *)
(* own order. Beside the last two stand what the streams make of the same  *)
(* ticker and the same book (websocket.go, StreamCurrentPrice); how a      *)
(* stream fails once it runs is StreamSessions'.                           *)
(*                                                                         *)
(* How the cache is loaded is MarketCache's; GetQuotes has a module of its *)
(* own. Symbols are numbers in alphabetical order.                         *)
(***************************************************************************)
EXTENDS Integers, Sequences, FiniteSets

CONSTANTS Symbols,       \* the symbols an exchange lists, some at a time
          Queries,       \* the queries asked, lowercased and trimmed
          Facts,         \* what strings.HasPrefix and Contains say of them
          DefaultLimit,  \* defaultSearchLimit, 50 in the code
          MaxLimit,      \* maxSearchLimit, 500
          DefaultDepth,  \* the levels a stream sends if not told, 20
          MaxDepth,      \* the most it may be asked for, 100
          AskedLimits,   \* the limits asked
          Books,         \* the sides of a book the exchange may return
          Prices,        \* prices; 0 stands for none
          None           \* no query, no limit; a level that is null

\* What may hold of a symbol and a query.
Fact == {"hasPrefix", "contains", "baseContains", "quoteContains"}

\* A level of a book: its place, and how many numbers the exchange gave for it.
Level == [place : Nat, numbers : Nat]

ASSUME RequestsAssumption ==
    /\ Symbols \subseteq Nat /\ IsFiniteSet(Symbols)
    /\ AskedLimits \subseteq Int /\ Prices \subseteq Nat
    /\ DefaultLimit \in Nat \ {0} /\ MaxLimit \in Nat \ {0}
    /\ MaxDepth \in Nat /\ DefaultDepth \in 1..MaxDepth
    /\ Facts \in [Symbols -> [Queries -> SUBSET Fact]]
    /\ \A s \in Symbols, q \in Queries :
          "hasPrefix" \in Facts[s][q] => "contains" \in Facts[s][q]
    /\ Books \subseteq Seq(Level) /\ \A b \in Books : \A i \in 1..Len(b) : b[i].place = i
    /\ None \notin Queries \cup Level

VARIABLES cached,  \* the list: the tickers of the last load, in its order
          answer   \* the last answer, with what it answers

requestVars == <<cached, answer>>

Ops == {"none", "SearchTicker", "ListMarkets", "GetOrderBook", "OrderBookWebSocket",
        "GetCurrentPrice", "StreamCurrentPrice"}

\* An answer: to which operation, query and limit, from which list or book; the
\* symbols found, the levels and the price in it.
Blank == [op |-> "none", ok |-> TRUE, query |-> None, limit |-> 0, list |-> <<>>,
          book |-> <<>>, symbols |-> <<>>, levels |-> <<>>, price |-> 0]

\* The answer of an operation that failed: an error and nothing else.
Refusal(op) == [Blank EXCEPT !.op = op, !.ok = FALSE]

Orders == UNION {{s \in [1..Cardinality(S) -> S] :
                    \A i, j \in DOMAIN s : i # j => s[i] # s[j]} : S \in SUBSET Symbols}

RequestsInit == cached \in Orders /\ answer = Blank

\* loadMarketsInto: a load brings what the exchange lists now, in any order.
Load == cached' \in Orders /\ UNCHANGED answer

-----------------------------------------------------------------------------
(* The list                                                                *)

\* The rank of a symbol for a query: the switch's first case that holds.
classifyMatch(s, q) ==
    CASE "hasPrefix" \in Facts[s][q]                    -> 3
      [] "hasPrefix" \notin Facts[s][q]
            /\ "contains" \in Facts[s][q]                -> 2
      [] "contains" \notin Facts[s][q]
            /\ Facts[s][q] # {}                                 -> 1
      [] OTHER                                                  -> 0

FirstOf(s, n) == SubSeq(s, 1, IF Len(s) > n THEN n ELSE Len(s))

Before(q, s, t) ==
    \/ classifyMatch(s, q) > classifyMatch(t, q)
    \/ classifyMatch(s, q) = classifyMatch(t, q) /\ s < t

\* sort.SliceStable: the matches, which all differ, in the order of Before.
Sorted(matches, q) ==
    LET found == {matches[i] : i \in 1..Len(matches)}
    IN  CHOOSE t \in [1..Len(matches) -> found] :
            /\ \A s \in found : \E i \in 1..Len(matches) : t[i] = s
            /\ \A i, j \in 1..Len(matches) : i < j => Before(q, t[i], t[j])

\* The elements of a sequence that are in S: for, if, append.
Kept(s, S) ==
    LET kept[i \in 0..Len(s)] ==
            IF i = 0 THEN <<>>
            ELSE IF s[i] \in S THEN Append(kept[i - 1], s[i]) ELSE kept[i - 1]
    IN  kept[Len(s)]

Matching(q) == {s \in Symbols : classifyMatch(s, q) # 0}

\* A mutant: the scan stops when it has found enough.
rankTickerMatches_scansUntilLimit(list, q, limit) ==
    Sorted(FirstOf(Kept(list, Matching(q)), limit), q)

\* All matches, the better before the worse, and in a rank by symbol; as many
\* of them as the limit allows.
rankTickerMatches(list, q, limit) == FirstOf(Sorted(Kept(list, Matching(q)), q), limit)

SearchLimit(n) ==
    LET asked == IF n = 0 THEN DefaultLimit ELSE n
    IN  IF asked > MaxLimit THEN MaxLimit ELSE asked

\* A request is refused without an exchange or a query or with a negative limit,
\* and when the cache is unavailable.
SearchTicker ==
    /\ \/ \E q \in Queries, n \in AskedLimits :
             /\ n >= 0
             /\ answer' =
                   [Blank EXCEPT !.op = "SearchTicker", !.query = q, !.limit = n,
                                 !.list = cached,
                                 !.symbols = rankTickerMatches(cached, q, SearchLimit(n))]
       \/ answer' = Refusal("SearchTicker")
    /\ UNCHANGED cached

\* The list as it is; refused without an exchange, and when the cache is
\* unavailable.
ListMarkets ==
    /\ answer' \in {[Blank EXCEPT !.op = "ListMarkets", !.symbols = cached],
                    Refusal("ListMarkets")}
    /\ UNCHANGED cached

-----------------------------------------------------------------------------
(* Book and price                                                          *)

Cut(levels, n) == IF n > 0 THEN FirstOf(levels, n) ELSE levels

\* A mutant: levels without an amount are answered too.
orderBookLevelsToProto_keepsAll(levels, n) == Cut(levels, n)

\* The unary answer: cut to the limit, then rid of levels without an amount.
orderBookLevelsToProto(levels, n) ==
    Kept(Cut(levels, n), {l \in Level : l.numbers >= 2})

\* The WebSocket's: cut to the limit, with null for such a level.
convertOrderBookSide(levels, n) ==
    [i \in 1..Len(Cut(levels, n)) |-> IF levels[i].numbers >= 2 THEN levels[i] ELSE None]

\* One side of the book, whatever the exchange made of the limit it was asked.
\* Refused without an exchange or a symbol or with a negative limit, and when
\* there is no client or the exchange fails.
GetOrderBook ==
    /\ \/ \E b \in Books, n \in AskedLimits :
             /\ n >= 0
             /\ answer' = [Blank EXCEPT !.op = "GetOrderBook", !.limit = n, !.book = b,
                                        !.levels = orderBookLevelsToProto(b, n)]
       \/ answer' = Refusal("GetOrderBook")
    /\ UNCHANGED cached

\* The limit a stream goes by, if the one asked, or none, is not refused.
parseOrderBookWebsocketRequest(n) ==
    IF n = None THEN {DefaultDepth} ELSE {n} \cap 1..MaxDepth

\* What the order-book stream sends of a book; refused, before the connection is
\* upgraded, without an exchange or a symbol or with any other limit.
OrderBookWebSocket ==
    /\ \/ \E b \in Books, asked \in AskedLimits \cup {None} :
          \E n \in parseOrderBookWebsocketRequest(asked) :
             answer' = [Blank EXCEPT !.op = "OrderBookWebSocket", !.limit = n, !.book = b,
                                     !.levels = convertOrderBookSide(b, n)]
       \/ answer' = Refusal("OrderBookWebSocket")
    /\ UNCHANGED cached

\* The price of a ticker that may lack its close: the unary answer is the close
\* alone, 0 if there is none. Refused without an exchange or a symbol, and when
\* there is no client or the exchange fails.
GetCurrentPrice ==
    /\ \/ \E close \in Prices :
             answer' = [Blank EXCEPT !.op = "GetCurrentPrice", !.price = close]
       \/ answer' = Refusal("GetCurrentPrice")
    /\ UNCHANGED cached

\* tickerToCurrentPriceResponse: the streams take the last price instead.
StreamCurrentPrice ==
    /\ \E close, last \in Prices :
          answer' = [Blank EXCEPT !.op = "StreamCurrentPrice",
                                  !.price = IF close = 0 THEN last ELSE close]
    /\ UNCHANGED cached

RequestsNext == \/ Load \/ SearchTicker \/ ListMarkets
                \/ GetOrderBook \/ OrderBookWebSocket
                \/ GetCurrentPrice \/ StreamCurrentPrice

RequestsSpec == RequestsInit /\ [][RequestsNext]_requestVars

-----------------------------------------------------------------------------
(* Properties                                                              *)

\* Types; and the levels answered are the book's, in its order, from its top and
\* within the limit. The unary answer has only levels with an amount, and the
\* stream's is the same once its nulls are left out; a stream sends no more than
\* MaxDepth levels, and a refusal none (market_data.go:619-635,
\* websocket.go:349-361, 467-485).
RequestsTypeOK ==
    /\ cached \in Orders
    /\ answer.op \in Ops /\ answer.price \in Prices \cup {0}
    /\ ~answer.ok => answer.symbols = <<>>
    /\ LET sent  == answer.levels
           whole == {i \in 1..Len(sent) : sent[i] # None}
       IN  /\ answer.op # "OrderBookWebSocket" => whole = 1..Len(sent)
           /\ answer.op = "OrderBookWebSocket" => Len(sent) <= MaxDepth
           /\ ~answer.ok => sent = <<>>
           /\ answer.ok /\ answer.op \in {"GetOrderBook", "OrderBookWebSocket"} =>
                 /\ answer.limit > 0 => Len(sent) <= answer.limit
                 /\ \A i \in whole : sent[i].numbers >= 2
                 /\ \A i, j \in whole : i < j => sent[i].place < sent[j].place
                 /\ {sent[i] : i \in whole} =
                       {l \in {answer.book[i] : i \in 1..Len(answer.book)} :
                           /\ l.numbers >= 2
                           /\ answer.limit > 0 => l.place <= answer.limit}

\* What makes a match of a symbol better than another.
Strength(s, q) == Facts[s][q] \cap {"hasPrefix", "contains"}

Better(s, t, q) ==
    \/ Strength(t, q) \subseteq Strength(s, q) /\ Strength(t, q) # Strength(s, q)
    \/ Strength(s, q) = Strength(t, q) /\ s < t

\* A search finds the best matches, best first: all that is found matches, what
\* comes earlier is better, and what was left out for the limit is worse than
\* all that was not. So the order the list was loaded in does not show
\* (market_data.go:637-640, 705-739).
SearchIsRight ==
    answer.op = "SearchTicker" /\ answer.ok =>
        LET found == answer.symbols
            match == {s \in {answer.list[i] : i \in 1..Len(answer.list)} :
                         Facts[s][answer.query] # {}}
            left  == match \ {found[i] : i \in 1..Len(found)}
        IN  /\ \A i \in 1..Len(found) : found[i] \in match
            /\ \A i, j \in 1..Len(found) : i < j => Better(found[i], found[j], answer.query)
            /\ \A i \in 1..Len(found), s \in left : Better(found[i], s, answer.query)
            /\ Len(found) <= MaxLimit
            /\ Len(found) <= IF answer.limit = 0 THEN DefaultLimit ELSE answer.limit
            /\ \/ left = {}
               \/ Len(found) \in {answer.limit, MaxLimit}
               \/ answer.limit = 0 /\ Len(found) = DefaultLimit

=============================================================================
