-------------------------------- MODULE Quotes --------------------------------
(***************************************************************************)
(* GetQuotes (internal/service/market_data.go): one call pages through an  *)
(* exchange's candles, at most a batch at a time, each page starting one   *)
(* millisecond after the last candle of the page before, while the         *)
(* exchange goes on adding candles. A candle is its opening time; candles  *)
(* may be missing, where nothing was traded, or begin sooner after one     *)
(* another than Dur, as months do that are shorter than the 30 days the    *)
(* code counts (util.go:137). An exchange returns the candles asked for,   *)
(* first ones first, but no more than a page size of its own, which may be *)
(* less than a batch. Times are milliseconds, and Dur is more than one.    *)
(***************************************************************************)
EXTENDS Integers, Sequences

CONSTANTS BatchLimit,  \* batchLimit, 1000 in the code
          PageSizes,   \* the most candles an exchange may return in one call
          Dur,         \* IntervalDuration of the interval asked for
          Slots,       \* bound: the opening times a candle may have
          Times,       \* the values a request's start and end may have
          Limits,      \* the values of its limit
          NoTime       \* no start, or no end

ASSUME QuotesAssumption ==
    /\ BatchLimit \in Nat \ {0} /\ PageSizes \subseteq Nat \ {0} /\ Dur \in Nat \ {0, 1}
    /\ Slots \subseteq Nat /\ Times \subseteq Nat /\ Limits \subseteq Int /\ 0 \in Limits
    /\ NoTime \notin Int

VARIABLES series,    \* the exchange's candles, in order of time
          pageSize,  \* the most it returns in one call
          req,       \* the request
          since,     \* shiftedStart
          merged,    \* mergedKlines
          pc         \* "latest", "batch", or how the call ended

exchange == <<series, pageSize>>
vars     == <<exchange, req, since, merged, pc>>

Increasing(s) == \A i, j \in 1..Len(s) : i < j => s[i] < s[j]
Request == [start : Times \cup {NoTime}, end : Times \cup {NoTime}, limit : Limits]

MinOf(a, b) == IF a < b THEN a ELSE b
MaxOf(a, b) == IF a > b THEN a ELSE b

Init ==
    /\ \E n \in 0..3 : series \in {s \in [1..n -> Slots] : Increasing(s)}
    /\ pageSize \in PageSizes
    /\ req = [start |-> NoTime, end |-> NoTime, limit |-> 0]
    /\ since = NoTime /\ merged = <<>> /\ pc = "refused"

Running == pc \in {"latest", "batch"}

\* A mutant: paging goes on where the last call stopped.
GetQuotes_keepsSince ==
    /\ ~Running
    /\ req' \in Request
    /\ pc' = IF req'.start = NoTime THEN "latest" ELSE "batch"
    /\ since' = since
    /\ merged' = <<>>
    /\ UNCHANGED exchange

\* A request that passes the checks: the latest candles when it has no start.
GetQuotes ==
    /\ ~Running
    /\ req' \in Request
    /\ pc' = IF req'.start = NoTime THEN "latest" ELSE "batch"
    /\ since' = req'.start
    /\ merged' = <<>>
    /\ UNCHANGED exchange

\* One that does not: no exchange or symbol, an interval the exchange does
\* not support, or no client for the exchange.
Refuse ==
    /\ ~Running
    /\ pc' = "refused" /\ merged' = <<>>
    /\ UNCHANGED <<exchange, req, since>>

\* FetchOHLCV with a since: the first candles from there on.
From(t, n) ==
    LET at == {i \in 1..Len(series) : series[i] >= t}
        k  == CHOOSE i \in at : \A j \in at : i <= j
    IN  IF at = {} THEN <<>> ELSE SubSeq(series, k, MinOf(Len(series), k + n - 1))

\* FetchOHLCV without one: the last candles.
Last(n) == SubSeq(series, MaxOf(1, Len(series) - n + 1), Len(series))

HasLimit == req.limit > 0

\* The call without a start: one page, no longer than the limit, which is left
\* to the exchange: the code does not cut this answer.
FetchLatest ==
    /\ pc = "latest"
    /\ merged' = Last(MinOf(pageSize, IF HasLimit THEN MinOf(req.limit, BatchLimit)
                                  ELSE BatchLimit))
    /\ pc' = "answered"
    /\ UNCHANGED <<exchange, req, since>>

\* A mutant: one candle too few is asked for.
BatchSize_short(t) ==
    IF req.end # NoTime /\ req.end > t
    THEN MinOf(BatchLimit, MaxOf(1, (req.end - t) \div Dur - 1))
    ELSE BatchLimit

\* How many candles to ask for from t: those that close by the end, but at
\* least one, and a whole batch if t is at or past the end.
BatchSize(t) ==
    IF req.end # NoTime /\ req.end > t
    THEN MinOf(BatchLimit, MaxOf(1, (req.end - t) \div Dur))
    ELSE BatchLimit

\* What is answered of the candles collected.
Truncate(s) == IF HasLimit /\ Len(s) > req.limit THEN SubSeq(s, 1, req.limit) ELSE s

\* A mutant: the next page begins with the last candle of this one.
After_same(page) == page[Len(page)]

\* Where the next page begins.
After(page) == page[Len(page)] + 1

\* A mutant: a short page does not end the call, not even an empty one.
FetchBatch_shortGoesOn ==
    /\ pc = "batch"
    /\ LET page == From(since, MinOf(pageSize, BatchSize(since)))
           all  == merged \o page
           next == IF page = <<>> THEN since ELSE After(page)
       IN  IF \/ HasLimit /\ Len(all) >= req.limit
              \/ req.end # NoTime /\ next > req.end
           THEN pc' = "answered" /\ merged' = Truncate(all) /\ UNCHANGED since
           ELSE since' = next /\ merged' = all /\ UNCHANGED pc
    /\ UNCHANGED <<exchange, req>>

\* One turn of the loop: a page is fetched and appended; the limit reached, a
\* page shorter than BatchLimit, or a next page past the end ends the call.
FetchBatch ==
    /\ pc = "batch"
    /\ LET page == From(since, MinOf(pageSize, BatchSize(since)))
           all  == merged \o page
           next == After(page)
       IN  IF \/ HasLimit /\ Len(all) >= req.limit
              \/ Len(page) < BatchLimit
              \/ req.end # NoTime /\ next > req.end
           THEN /\ pc' = "answered"
                /\ merged' = Truncate(all)
                /\ UNCHANGED since
           ELSE /\ since' = next
                /\ merged' = all
                /\ UNCHANGED pc
    /\ UNCHANGED <<exchange, req>>

\* FetchOHLCV fails: the candles collected are thrown away with the call.
FetchFails ==
    /\ Running
    /\ pc' = "failed" /\ merged' = <<>>
    /\ UNCHANGED <<exchange, req, since>>

\* The exchange adds a candle.
NewCandle ==
    /\ Running
    /\ \E t \in Slots : /\ \A i \in 1..Len(series) : series[i] < t
                        /\ series' = Append(series, t)
    /\ UNCHANGED <<pageSize, req, since, merged, pc>>

Next == GetQuotes \/ Refuse \/ FetchLatest \/ FetchBatch \/ FetchFails \/ NewCandle

\* The exchange answers every call.
Fairness == WF_vars(FetchLatest \/ FetchBatch)

Spec == Init /\ [][Next]_vars /\ Fairness

-----------------------------------------------------------------------------
(* Properties                                                              *)

\* Types: candles come in order, and a page always begins inside the request.
TypeOK ==
    /\ series \in Seq(Slots) /\ Increasing(series)
    /\ pageSize \in PageSizes
    /\ req \in Request
    /\ since \in Nat \cup {NoTime}
    /\ merged \in Seq(Slots)
    /\ pc \in {"latest", "batch", "answered", "refused", "failed"}
    /\ pc = "batch" => req.start # NoTime /\ since # NoTime /\ since >= req.start

\* The candles answered are a run of the exchange's: in order, none twice, none
\* skipped between two pages although more arrive meanwhile. With a start it
\* is the run that begins with the first candle from there on. And a limit is
\* never exceeded, however many candles the last page brought
\* (market_data.go:352-371).
AnswerIsARun ==
    /\ pc = "answered" /\ HasLimit => Len(merged) <= req.limit
    /\ \E k \in 1..Len(series) + 1 :
          /\ k + Len(merged) - 1 <= Len(series)
          /\ merged = SubSeq(series, k, k + Len(merged) - 1)
          /\ merged # <<>> /\ req.start # NoTime =>
                \A i \in 1..Len(series) : i < k <=> series[i] < req.start

\* Two candles of the range asked for begin within one interval.
ShortInterval ==
    \E i \in 1..Len(series) - 1 :
       /\ series[i] >= req.start
       /\ req.end # NoTime /\ series[i + 1] + Dur <= req.end
       /\ series[i + 1] - series[i] < Dur

\* Nothing is missing without a reason: a call with a start answers with every
\* candle the exchange has from the start on that closed by the end, in however
\* many batches (market_data.go:228, 311-366), unless its limit cut it, the
\* exchange returns less than a batch at once, when the answer is one whole page
\* (market_data.go:357), or two candles of the range are closer than the
\* interval, when too few may have been asked for (util.go:137).
EveryClosedCandle ==
    pc = "answered" /\ req.start # NoTime =>
        \/ HasLimit /\ Len(merged) = req.limit
        \/ pageSize < BatchLimit /\ Len(merged) = pageSize
        \/ ShortInterval
        \/ \A i \in 1..Len(series) :
              /\ series[i] >= req.start
              /\ req.end = NoTime \/ series[i] + Dur <= req.end
              => \E j \in 1..Len(merged) : merged[j] = series[i]

\* What the above rests on. The candles collected are those from the k-th on;
\* with a start, the k-th is the first one from there on. Between two pages they
\* are those before since, and since is the start until there are any.
RunFrom(k) ==
    /\ k \in 1..Len(series) + 1 /\ k + Len(merged) - 1 <= Len(series)
    /\ \A j \in 1..Len(merged) : merged[j] = series[k + j - 1]
    /\ merged # <<>> /\ req.start # NoTime =>
          \A i \in 1..Len(series) : i < k <=> series[i] < req.start

QuotesInv ==
    /\ TypeOK
    /\ pc = "latest" => req.start = NoTime
    /\ pc = "batch" /\ pageSize < BatchLimit => merged = <<>>
    /\ pc \notin {"batch", "answered"} => merged = <<>>
    /\ pc = "answered" => /\ HasLimit => Len(merged) <= req.limit
                          /\ \E k \in 1..Len(series) + 1 : RunFrom(k)
    /\ pc = "batch" =>
          /\ since = IF merged = <<>> THEN req.start ELSE merged[Len(merged)] + 1
          /\ \E k \in 1..Len(series) + 1 :
                /\ RunFrom(k)
                /\ \A i \in 1..Len(series) : /\ i < k <=> series[i] < req.start
                                             /\ i < k + Len(merged) <=> series[i] < since

\* The paging ends: each page begins later than the one before it.
CallEnds == Running ~> ~Running

=============================================================================
