----------------------------- MODULE MarketDataProofs -----------------------------
(***************************************************************************)
(* Proofs about Quotes and MarketRequests. About Quotes, for any sizes of  *)
(* batches and pages, any interval, opening times, starts, ends and        *)
(* limits: an answer is a run of the exchange's candles, and, where a page *)
(* is at least a batch, it misses none that had closed. About              *)
(* MarketRequests, for any symbols, queries, lists and books: a search     *)
(* answers with the best matches in order, whatever order the list has,    *)
(* and both views of a book have its levels.                               *)
(***************************************************************************)
EXTENDS Quotes, MarketRequests, SequenceTheorems, FiniteSetTheorems, WellFoundedInduction,
        NaturalsInduction, TLAPS

-----------------------------------------------------------------------------
(* Sequences, and what the exchange returns                                *)

\* A set of numbers that has any has a least one.
LEMMA LeastOf ==
    ASSUME NEW S \in SUBSET Nat, S # {}
    PROVE  \E x \in S : \A y \in S : x <= y
  <1> DEFINE less == {ss \in Nat \X Nat : ss[1] < ss[2]}
  <1>1. IsWellFoundedOn(less, Nat)
    BY NatLessThanWellFounded, Zenon DEF OpToRel
  <1>2. \A x, y \in Nat : <<y, x>> \in less <=> y < x
    OBVIOUS
  <1> HIDE DEF less
  <1>3. PICK x \in S : \A y \in S : <<y, x>> \notin less
    BY <1>1, WFMin
  <1>4. ASSUME NEW y \in S PROVE x <= y
    <2>1. x \in Nat /\ y \in Nat /\ <<y, x>> \notin less
      BY <1>3
    <2> QED
      BY <1>2, <2>1
  <1> QED
    BY <1>4

\* The candles are numbers, in order.
LEMMA SeriesFacts ==
    ASSUME TypeOK
    PROVE  /\ series \in Seq(Slots) /\ Len(series) \in Nat
           /\ merged \in Seq(Slots) /\ Len(merged) \in Nat /\ (merged = <<>> <=> Len(merged) = 0)
           /\ \A i \in 1..Len(series) : series[i] \in Slots /\ series[i] \in Nat
           /\ \A i \in 1..Len(merged) : merged[i] \in Slots /\ merged[i] \in Nat
           /\ \A i, j \in 1..Len(series) : i < j => series[i] < series[j]
  <1>1. series \in Seq(Slots) /\ merged \in Seq(Slots) /\ Increasing(series)
    BY DEF TypeOK
  <1>2. Len(series) \in Nat /\ Len(merged) \in Nat /\ (merged = <<>> <=> Len(merged) = 0)
    BY <1>1, LenProperties, EmptySeq
  <1>3. /\ \A i \in 1..Len(series) : series[i] \in Slots
        /\ \A i \in 1..Len(merged) : merged[i] \in Slots
    BY <1>1, ElementOfSeq
  <1>4. Slots \subseteq Nat
    BY QuotesAssumption
  <1> QED
    BY <1>1, <1>2, <1>3, <1>4 DEF Increasing

\* In a series in order every time has a place: after the candles before it.
LEMMA PlaceInOrder ==
    ASSUME TypeOK, NEW t \in Nat
    PROVE  \E k \in 1..Len(series) + 1 : \A i \in 1..Len(series) : i < k <=> series[i] < t
  <1> DEFINE at == {i \in 1..Len(series) : series[i] >= t}
  <1>1. CASE at = {}
    <2>1. \A i \in 1..Len(series) : i < Len(series) + 1 /\ series[i] < t
      BY <1>1, SeriesFacts
    <2>2. Len(series) + 1 \in 1..Len(series) + 1
      BY SeriesFacts
    <2> QED
      BY <2>1, <2>2
  <1>2. CASE at # {}
    <2>1. at \in SUBSET Nat
      BY SeriesFacts
    <2>2. PICK k \in at : \A i \in at : k <= i
      BY <1>2, <2>1, LeastOf
    <2>3. ASSUME NEW i \in 1..Len(series)
          PROVE  i < k <=> series[i] < t
      <3>1. /\ k \in 1..Len(series) /\ series[k] >= t /\ i \in Nat /\ k \in Nat
            /\ series[i] \in Nat /\ series[k] \in Nat
        BY SeriesFacts
      <3>2. CASE i < k
        <4>1. i \notin at
          BY <2>2, <3>1, <3>2
        <4> QED
          BY <3>1, <3>2, <4>1
      <3>3. CASE i = k
        BY <3>1, <3>3
      <3>4. CASE i > k
        <4>1. series[k] < series[i]
          BY <3>1, <3>4, SeriesFacts
        <4> QED
          BY <3>1, <3>4, <4>1
      <3> QED
        BY <3>1, <3>2, <3>3, <3>4
    <2> QED
      BY <2>3, SeriesFacts
  <1> QED
    BY <1>1, <1>2

\* The candles from place m to place n.
LEMMA CandlesBetween ==
    ASSUME TypeOK, NEW m \in 1..Len(series) + 1, NEW n \in Nat, n <= Len(series), m <= n + 1
    PROVE  /\ SubSeq(series, m, n) \in Seq(Slots)
           /\ Len(SubSeq(series, m, n)) = n - m + 1
           /\ \A j \in 1..(n - m + 1) : SubSeq(series, m, n)[j] = series[m + j - 1]
  <1>1. \A i \in m..n : series[i] \in Slots
    BY SeriesFacts
  <1>2. m \in Int /\ n \in Int
    BY SeriesFacts
  <1>3. /\ SubSeq(series, m, n) \in Seq(Slots)
        /\ Len(SubSeq(series, m, n)) = IF m <= n THEN n - m + 1 ELSE 0
        /\ \A i \in 1..n - m + 1 : SubSeq(series, m, n)[i] = series[m + i - 1]
    BY <1>1, <1>2, SubSeqProperties
  <1> QED
    BY <1>2, <1>3

\* A page from time t on, where the candles before place m are those before t,
\* begins at place m and is as long as asked for, if there are as many.
LEMMA PageIsARun ==
    ASSUME TypeOK, NEW t \in Nat, NEW n \in Nat \ {0}, NEW m \in 1..Len(series) + 1,
           \A i \in 1..Len(series) : i < m <=> series[i] < t
    PROVE  /\ From(t, n) \in Seq(Slots)
           /\ Len(From(t, n)) = MinOf(n, Len(series) - m + 1)
           /\ \A j \in 1..Len(From(t, n)) : From(t, n)[j] = series[m + j - 1]
  <1> DEFINE at == {i \in 1..Len(series) : series[i] >= t}
             first == CHOOSE i \in at : \A j \in at : i <= j
             last == MinOf(Len(series), m + n - 1)
  <1>1. at = m..Len(series)
    BY SeriesFacts
  <1>2. CASE m = Len(series) + 1
    <2>1. at = {}
      BY <1>1, <1>2, SeriesFacts
    <2>2. From(t, n) = <<>>
      BY <2>1 DEF From
    <2>3. <<>> \in Seq(Slots) /\ Len(<<>>) = 0
      BY EmptySeq
    <2> QED
      BY <1>2, <2>2, <2>3, SeriesFacts DEF MinOf
  <1>3. CASE m # Len(series) + 1
    <2>1. m \in at /\ \A j \in at : m <= j
      BY <1>1, <1>3, SeriesFacts
    <2>2. \A i \in at : i \in Int
      BY SeriesFacts
    <2>3. first \in at /\ \A j \in at : first <= j
      BY <2>1
    <2>4. first = m
      BY <2>1, <2>2, <2>3
    <2>5. From(t, n) = SubSeq(series, m, last)
      BY <2>1, <2>4 DEF From
    <2>6. last \in Nat /\ last <= Len(series) /\ m <= last + 1
          /\ last - m + 1 = MinOf(n, Len(series) - m + 1)
      <3>1. Len(series) \in Nat /\ m \in 1..Len(series)
        BY <1>3, SeriesFacts
      <3>2. CASE m + n - 1 <= Len(series)
        <4>1. last = m + n - 1 /\ MinOf(n, Len(series) - m + 1) = n
          BY <3>1, <3>2 DEF MinOf
        <4> HIDE DEF last
        <4> QED
          BY <3>1, <3>2, <4>1
      <3>3. CASE m + n - 1 > Len(series)
        <4>1. /\ last = Len(series)
              /\ MinOf(n, Len(series) - m + 1) = Len(series) - m + 1
          BY <3>1, <3>3 DEF MinOf
        <4> HIDE DEF last
        <4> QED
          BY <3>1, <3>3, <4>1
      <3> QED
        BY <3>1, <3>2, <3>3
    <2> HIDE DEF last
    <2> QED
      BY <2>5, <2>6, CandlesBetween
  <1> QED
    BY <1>2, <1>3

\* A page never has more than asked for, and at least one is asked for.
LEMMA BatchSizeFacts ==
    ASSUME TypeOK, NEW t \in Nat
    PROVE  /\ BatchSize(t) \in Nat \ {0} /\ BatchSize(t) <= BatchLimit
           /\ MinOf(pageSize, BatchSize(t)) \in Nat \ {0}
  <1>1. /\ BatchLimit \in Nat \ {0} /\ pageSize \in Nat \ {0} /\ Dur \in Nat \ {0}
        /\ req.end \in Nat \cup {NoTime}
    BY QuotesAssumption DEF TypeOK, Request
  <1>2. ASSUME req.end # NoTime
        PROVE  (req.end - t) \div Dur \in Int
    BY <1>1, <1>2
  <1> QED
    BY <1>1, <1>2 DEF BatchSize, MinOf, MaxOf

\* What is answered of the candles collected is their beginning, no longer than
\* the limit.
LEMMA TruncateFacts ==
    ASSUME TypeOK, NEW s \in Seq(Slots)
    PROVE  /\ Truncate(s) \in Seq(Slots)
           /\ Len(Truncate(s)) \in Nat /\ Len(Truncate(s)) <= Len(s)
           /\ \A j \in 1..Len(Truncate(s)) : Truncate(s)[j] = s[j]
           /\ HasLimit => Len(Truncate(s)) <= req.limit
           /\ HasLimit /\ Len(s) >= req.limit => Len(Truncate(s)) = req.limit
           /\ ~(HasLimit /\ Len(s) >= req.limit) => Truncate(s) = s
  <1>1. Len(s) \in Nat /\ req.limit \in Int
    BY LenProperties, QuotesAssumption DEF TypeOK, Request
  <1>2. CASE HasLimit /\ Len(s) > req.limit
    <2>1. Truncate(s) = SubSeq(s, 1, req.limit) /\ req.limit \in Nat \ {0}
      BY <1>1, <1>2 DEF Truncate, HasLimit
    <2>2. \A i \in 1..req.limit : s[i] \in Slots
      BY <1>1, <1>2, <2>1, ElementOfSeq
    <2>3. /\ SubSeq(s, 1, req.limit) \in Seq(Slots)
          /\ Len(SubSeq(s, 1, req.limit)) =
                IF 1 <= req.limit THEN req.limit - 1 + 1 ELSE 0
          /\ \A i \in 1..req.limit - 1 + 1 : SubSeq(s, 1, req.limit)[i] = s[1 + i - 1]
      BY <2>1, <2>2, SubSeqProperties
    <2> HIDE DEF HasLimit
    <2>4. Len(Truncate(s)) = req.limit /\ Truncate(s) \in Seq(Slots)
      BY <2>1, <2>3
    <2>5. \A j \in 1..Len(Truncate(s)) : Truncate(s)[j] = s[j]
      BY <2>1, <2>3, <2>4
    <2> QED
      BY <1>1, <1>2, <2>1, <2>4, <2>5
  <1>3. CASE ~(HasLimit /\ Len(s) > req.limit)
    <2>1. Truncate(s) = s
      BY <1>3 DEF Truncate
    <2> QED
      BY <1>1, <1>3, <2>1 DEF HasLimit
  <1> QED
    BY <1>2, <1>3

-----------------------------------------------------------------------------
(* The steps                                                               *)

\* Where the loop is between two pages.
Collected(k) ==
    /\ RunFrom(k)
    /\ \A i \in 1..Len(series) : /\ i < k <=> series[i] < req.start
                                 /\ i < k + Len(merged) <=> series[i] < since

\* Another page extends the run.
LEMMA PageExtendsRun ==
    ASSUME TypeOK, pc = "batch", NEW k \in 1..Len(series) + 1, Collected(k),
           NEW n \in Nat \ {0}
    PROVE  LET page == From(since, n)
               all  == merged \o page
           IN  /\ page \in Seq(Slots) /\ all \in Seq(Slots)
               /\ Len(page) \in Nat /\ Len(all) = Len(merged) + Len(page)
               /\ Len(page) = MinOf(n, Len(series) - (k + Len(merged)) + 1)
               /\ k + Len(all) - 1 <= Len(series)
               /\ \A j \in 1..Len(all) : all[j] = series[k + j - 1]
               /\ page # <<>> => page[Len(page)] = series[k + Len(all) - 1]
  <1> DEFINE page == From(since, n)
             all == merged \o page
             m == k + Len(merged)
  <1>1. /\ Len(series) \in Nat /\ Len(merged) \in Nat /\ merged \in Seq(Slots)
        /\ since \in Nat /\ m \in 1..Len(series) + 1
    BY SeriesFacts DEF TypeOK, Collected, RunFrom
  <1>2. \A i \in 1..Len(series) : i < m <=> series[i] < since
    BY DEF Collected
  <1> HIDE DEF m
  <1>3. /\ page \in Seq(Slots) /\ Len(page) = MinOf(n, Len(series) - m + 1)
        /\ \A j \in 1..Len(page) : page[j] = series[m + j - 1]
    BY <1>1, <1>2, PageIsARun
  <1>4. Len(page) \in Nat /\ Len(page) <= Len(series) - m + 1 /\ (page = <<>> <=> Len(page) = 0)
    BY <1>1, <1>3, LenProperties, EmptySeq DEF MinOf
  <1> HIDE DEF page
  <1>5. /\ all \in Seq(Slots) /\ Len(all) = Len(merged) + Len(page)
        /\ \A i \in 1..Len(merged) + Len(page) :
              all[i] = IF i <= Len(merged) THEN merged[i] ELSE page[i - Len(merged)]
    BY <1>1, <1>3, ConcatProperties
  <1> HIDE DEF all
  <1>6. m = k + Len(merged) /\ \A j \in 1..Len(merged) : merged[j] = series[k + j - 1]
    BY DEF m, Collected, RunFrom
  <1>7. ASSUME NEW j \in 1..Len(all)
        PROVE  all[j] = series[k + j - 1]
    <2>1. CASE j <= Len(merged)
      <3>1. j \in 1..Len(merged) /\ all[j] = merged[j]
        BY <1>1, <1>4, <1>5, <2>1
      <3> QED
        BY <1>6, <3>1
    <2>2. CASE j > Len(merged)
      <3>1. j - Len(merged) \in 1..Len(page) /\ all[j] = page[j - Len(merged)]
        BY <1>1, <1>4, <1>5, <2>2
      <3>2. m + (j - Len(merged)) - 1 = k + j - 1
        BY <1>1, <1>4, <1>5, <1>6, <2>2
      <3> QED
        BY <1>3, <3>1, <3>2
    <2>3. j <= Len(merged) \/ j > Len(merged)
      BY <1>1, <1>4, <1>5
    <2> QED
      BY <2>1, <2>2, <2>3, Zenon
  <1>8. k + Len(all) - 1 <= Len(series)
    BY <1>1, <1>4, <1>5, <1>6
  <1>9. page # <<>> => page[Len(page)] = series[k + Len(all) - 1]
    <2>1. ASSUME page # <<>>
          PROVE  Len(page) \in 1..Len(page) /\ m + Len(page) - 1 = k + Len(all) - 1
      BY <1>1, <1>4, <1>5, <1>6, <2>1
    <2> QED
      BY <1>3, <2>1
  <1> QED
    BY <1>3, <1>4, <1>5, <1>6, <1>7, <1>8, <1>9 DEF all, page

LEMMA BatchIsCollected ==
    ASSUME QuotesInv, pc = "batch"
    PROVE  /\ since \in Nat /\ req.start \in Nat /\ since >= req.start
           /\ \E k \in 1..Len(series) + 1 : Collected(k)
  BY QuotesAssumption DEF QuotesInv, TypeOK, Request, Collected

LEMMA FetchBatchPreserves ==
    ASSUME QuotesInv, FetchBatch
    PROVE  QuotesInv'
  <1> DEFINE n == MinOf(pageSize, BatchSize(since))
             page == From(since, n)
             all == merged \o page
             next == After(page)
             ends == \/ HasLimit /\ Len(all) >= req.limit
                     \/ Len(page) < BatchLimit
                     \/ req.end # NoTime /\ next > req.end
  <1>1. /\ pc = "batch" /\ UNCHANGED <<series, pageSize, req>>
        /\ IF ends THEN pc' = "answered" /\ merged' = Truncate(all) /\ UNCHANGED since
           ELSE since' = next /\ merged' = all /\ UNCHANGED pc
    BY DEF FetchBatch, exchange
  <1>2. TypeOK /\ since \in Nat /\ req.start \in Nat /\ since >= req.start
    BY <1>1, BatchIsCollected DEF QuotesInv
  <1>3. PICK k \in 1..Len(series) + 1 : Collected(k)
    BY <1>1, BatchIsCollected
  <1>4. n \in Nat \ {0} /\ n <= pageSize
    BY <1>2, BatchSizeFacts, QuotesAssumption DEF MinOf, TypeOK
  <1> HIDE DEF n
  <1>5. /\ page \in Seq(Slots) /\ all \in Seq(Slots)
        /\ Len(page) \in Nat /\ Len(all) = Len(merged) + Len(page)
        /\ k + Len(all) - 1 <= Len(series)
        /\ \A j \in 1..Len(all) : all[j] = series[k + j - 1]
        /\ page # <<>> => page[Len(page)] = series[k + Len(all) - 1]
    BY <1>1, <1>2, <1>3, <1>4, PageExtendsRun
  <1>11. Len(page) = MinOf(n, Len(series) - (k + Len(merged)) + 1)
    BY <1>1, <1>2, <1>3, <1>4, PageExtendsRun
  <1>6. next = page[Len(page)] + 1 /\ (~ends => Len(page) >= BatchLimit)
    BY <1>5, QuotesAssumption DEF After
  <1> HIDE DEF page, all, next, ends
  <1>7. Len(series) \in Nat /\ Len(merged) \in Nat /\ Len(all) \in Nat
    BY <1>2, <1>5, SeriesFacts
  <1>8. \A i \in 1..Len(series) : i < k <=> series[i] < req.start
    BY <1>3 DEF Collected
  <1>9. CASE ends
    <2>1. pc' = "answered" /\ merged' = Truncate(all) /\ UNCHANGED <<series, pageSize, req, since>>
      BY <1>1, <1>9
    <2>2. /\ merged' \in Seq(Slots) /\ Len(merged') \in Nat /\ Len(merged') <= Len(all)
          /\ \A j \in 1..Len(merged') : merged'[j] = all[j]
          /\ HasLimit => Len(merged') <= req.limit
      BY <1>2, <1>5, <2>1, TruncateFacts
    <2>3. k + Len(merged') - 1 <= Len(series)
      BY <1>5, <1>7, <2>2
    <2>4. \A j \in 1..Len(merged') : merged'[j] = series[k + j - 1]
      BY <1>5, <1>7, <2>2
    <2>5. RunFrom(k)'
      BY <1>8, <2>1, <2>3, <2>4 DEF RunFrom
    <2>6. TypeOK'
      BY <1>2, <2>1, <2>2 DEF TypeOK, Increasing
    <2>7. HasLimit' <=> HasLimit
      BY <2>1 DEF HasLimit
    <2> QED
      BY <2>1, <2>2, <2>5, <2>6, <2>7 DEF QuotesInv
  <1>10. CASE ~ends
    <2>1. since' = next /\ merged' = all /\ UNCHANGED <<series, pageSize, req, pc>>
      BY <1>1, <1>10
    <2>2. page # <<>> /\ Len(page) # 0
      BY <1>5, <1>6, <1>10, QuotesAssumption, EmptySeq
    <2> DEFINE m == k + Len(all) - 1
    <2>3. m \in 1..Len(series) /\ k <= m /\ Len(all) # 0
      BY <1>5, <1>7, <2>2
    <2>4. /\ next = series[m] + 1 /\ series[m] \in Nat
          /\ all[Len(all)] = series[m]
      BY <1>2, <1>5, <1>6, <1>7, <2>2, <2>3, SeriesFacts
    <2>5. ASSUME NEW i \in 1..Len(series)
          PROVE  /\ i <= m => series[i] <= series[m]
                 /\ i > m => series[i] > series[m]
      <3> HIDE DEF m
      <3>1. m \in Nat /\ series[i] \in Nat
        BY <1>2, <1>7, <2>3, SeriesFacts
      <3>2. CASE i < m
        BY <1>2, <2>3, <2>4, <3>1, <3>2, SeriesFacts
      <3>3. CASE i = m
        BY <2>4, <3>3
      <3>4. CASE i > m
        BY <1>2, <2>3, <3>1, <3>4, SeriesFacts
      <3>5. i < m \/ i = m \/ i > m
        BY <3>1
      <3> QED
        BY <3>2, <3>3, <3>4, <3>5, Zenon
    <2>6. series[m] >= req.start
      <3>1. ~(series[m] < req.start)
        BY <1>8, <2>3
      <3> QED
        BY <1>2, <2>4, <3>1
    <2>7. \A i \in 1..Len(series) : i < k + Len(all) <=> series[i] < next
      <3>1. \A i \in 1..Len(series) : series[i] \in Nat /\ (i < k + Len(all) <=> i <= m)
        BY <1>2, <1>7, SeriesFacts
      <3> HIDE DEF m
      <3> QED
        BY <2>3, <2>4, <2>5, <3>1
    <2>8. all # <<>> /\ since' = all[Len(all)] + 1
      BY <2>1, <2>3, <2>4, EmptySeq
    <2>9. RunFrom(k)'
      BY <1>5, <1>8, <2>1 DEF RunFrom
    <2>10. TypeOK'
      <3>1. since' \in Nat /\ since' >= req.start
        BY <1>2, <2>1, <2>4, <2>6
      <3>2. series' \in Seq(Slots) /\ Increasing(series')
        BY <1>2, <2>1 DEF TypeOK
      <3> QED
        BY <1>1, <1>2, <1>5, <2>1, <3>1, <3>2, QuotesAssumption DEF TypeOK
    <2>11. ~(pageSize < BatchLimit)
      <3>1. Len(page) >= BatchLimit
        BY <1>6, <1>10
      <3>2. Len(page) <= n
        BY <1>3, <1>4, <1>5, <1>7, <1>11 DEF MinOf
      <3> QED
        BY <1>2, <1>4, <1>5, <3>1, <3>2, QuotesAssumption DEF TypeOK
    <2> HIDE DEF m
    <2> QED
      BY <1>1, <1>8, <2>1, <2>7, <2>8, <2>9, <2>10, <2>11 DEF QuotesInv
  <1> QED
    BY <1>9, <1>10

LEMMA FetchLatestPreserves ==
    ASSUME QuotesInv, FetchLatest
    PROVE  QuotesInv'
  <1> DEFINE n == MinOf(pageSize, IF HasLimit THEN MinOf(req.limit, BatchLimit) ELSE BatchLimit)
             first == MaxOf(1, Len(series) - n + 1)
  <1>1. /\ pc = "latest" /\ merged' = SubSeq(series, first, Len(series)) /\ pc' = "answered"
        /\ UNCHANGED <<series, pageSize, req, since>>
    BY DEF FetchLatest, Last, exchange
  <1>2. TypeOK /\ req.start = NoTime /\ req.limit \in Int /\ Len(series) \in Nat
    BY <1>1, SeriesFacts, QuotesAssumption DEF QuotesInv, TypeOK, Request
  <1>3. n \in Nat \ {0} /\ (HasLimit => n <= req.limit)
    <2> pageSize \in Nat \ {0}
      BY <1>2, QuotesAssumption DEF TypeOK
    <2> QED
      BY <1>2, QuotesAssumption DEF MinOf, HasLimit
  <1> HIDE DEF n
  <1>4. first \in 1..Len(series) + 1 /\ Len(series) - first + 1 <= n
    BY <1>2, <1>3 DEF MaxOf
  <1> HIDE DEF first
  <1> PICK k \in 1..Len(series) + 1 : k = first
    BY <1>4
  <1>5. /\ merged' \in Seq(Slots) /\ Len(merged') = Len(series) - k + 1
        /\ \A j \in 1..(Len(series) - k + 1) : merged'[j] = series[k + j - 1]
    BY <1>1, <1>2, <1>4, CandlesBetween
  <1>6. RunFrom(k)'
    BY <1>1, <1>2, <1>4, <1>5 DEF RunFrom
  <1>7. TypeOK'
    BY <1>1, <1>2, <1>5 DEF TypeOK, Increasing
  <1>8. HasLimit' => Len(merged') <= req'.limit
    BY <1>1, <1>2, <1>3, <1>4, <1>5 DEF HasLimit
  <1> QED
    BY <1>1, <1>4, <1>6, <1>7, <1>8 DEF QuotesInv

\* A new candle is the newest; what was collected before it stays the run it was.
LEMMA NewCandlePreserves ==
    ASSUME QuotesInv, NewCandle
    PROVE  QuotesInv'
  <1>1. UNCHANGED <<pageSize, req, since, merged, pc>> /\ pc \in {"latest", "batch"}
    BY DEF NewCandle, Running
  <1>2. PICK t \in Slots : /\ \A i \in 1..Len(series) : series[i] < t
                           /\ series' = Append(series, t)
    BY DEF NewCandle
  <1>3. TypeOK /\ Len(series) \in Nat /\ Len(merged) \in Nat /\ t \in Nat
    BY SeriesFacts, QuotesAssumption DEF QuotesInv
  <1>4. /\ series' \in Seq(Slots) /\ Len(series') = Len(series) + 1
        /\ \A i \in 1..Len(series) : series'[i] = series[i]
        /\ series'[Len(series) + 1] = t
    BY <1>2, <1>3, AppendProperties DEF TypeOK
  <1>5. Increasing(series')
    <2>1. ASSUME NEW i \in 1..Len(series'), NEW j \in 1..Len(series'), i < j
          PROVE  series'[i] < series'[j]
      <3>1. i \in 1..Len(series) /\ (j \in 1..Len(series) \/ j = Len(series) + 1)
        BY <1>3, <1>4, <2>1
      <3>2. CASE j \in 1..Len(series)
        BY <1>3, <1>4, <2>1, <3>1, <3>2, SeriesFacts
      <3>3. CASE j = Len(series) + 1
        BY <1>2, <1>4, <3>1, <3>3
      <3> QED
        BY <3>1, <3>2, <3>3
    <2> QED
      BY <2>1 DEF Increasing
  <1>6. TypeOK'
    BY <1>1, <1>3, <1>4, <1>5 DEF TypeOK
  <1>7. CASE pc = "latest"
    BY <1>1, <1>6, <1>7 DEF QuotesInv
  <1>8. CASE pc = "batch"
    <2>1. /\ since = IF merged = <<>> THEN req.start ELSE merged[Len(merged)] + 1
          /\ since \in Nat /\ req.start \in Nat
      BY <1>8, BatchIsCollected DEF QuotesInv
    <2>2. PICK k \in 1..Len(series) + 1 : Collected(k)
      BY <1>8, BatchIsCollected
    <2>3. /\ k + Len(merged) - 1 <= Len(series)
          /\ \A j \in 1..Len(merged) : merged[j] = series[k + j - 1]
          /\ \A i \in 1..Len(series) : /\ i < k <=> series[i] < req.start
                                       /\ i < k + Len(merged) <=> series[i] < since
      BY <2>2 DEF Collected, RunFrom
    <2>4. \A j \in 1..Len(merged) : merged[j] = series'[k + j - 1]
      BY <1>3, <1>4, <2>3
    <2>5. ASSUME NEW l \in 1..Len(series') + 1,
                 l + Len(merged) - 1 <= Len(series'),
                 \A j \in 1..Len(merged) : merged[j] = series'[l + j - 1],
                 \A i \in 1..Len(series') : /\ i < l <=> series'[i] < req.start
                                            /\ i < l + Len(merged) <=> series'[i] < since
          PROVE  QuotesInv'
      <3>1. RunFrom(l)'
        BY <1>1, <2>5 DEF RunFrom
      <3> QED
        BY <1>1, <1>6, <1>8, <2>1, <2>5, <3>1 DEF QuotesInv
    <2>6. CASE merged = <<>> /\ t < req.start
      <3>1. since = req.start /\ Len(merged) = 0
        BY <1>3, <2>1, <2>6, SeriesFacts
      <3> DEFINE l == Len(series) + 2
      <3>2. \A i \in 1..Len(series') : series'[i] < req.start
        <4>1. ASSUME NEW i \in 1..Len(series') PROVE series'[i] < req.start
          <5>1. i \in 1..Len(series) \/ i = Len(series) + 1
            BY <1>3, <1>4
          <5>2. CASE i \in 1..Len(series)
            <6>1. series'[i] = series[i] /\ series[i] \in Nat /\ series[i] < t
              BY <1>2, <1>3, <1>4, <5>2, SeriesFacts
            <6> QED
              BY <1>3, <2>1, <2>6, <6>1
          <5>3. CASE i = Len(series) + 1
            BY <1>4, <2>6, <5>3
          <5> QED
            BY <5>1, <5>2, <5>3
        <4> QED
          BY <4>1
      <3>3. /\ l \in 1..Len(series') + 1 /\ l + Len(merged) - 1 <= Len(series')
            /\ \A i \in 1..Len(series') : i < l /\ i < l + Len(merged)
        BY <1>3, <1>4, <3>1
      <3>4. \A j \in 1..Len(merged) : merged[j] = series'[l + j - 1]
        BY <3>1
      <3> HIDE DEF l
      <3> PICK x \in 1..Len(series') + 1 : x = l
        BY <3>3
      <3> QED
        BY <2>5, <3>1, <3>2, <3>3, <3>4
    <2>7. CASE ~(merged = <<>> /\ t < req.start)
      <3>1. t >= req.start /\ t >= since
        <4>1. CASE merged = <<>>
          BY <1>3, <2>1, <2>7, <4>1
        <4>2. CASE merged # <<>>
          <5> DEFINE last == k + Len(merged) - 1
          <5>1. /\ last \in 1..Len(series) /\ k \in 1..Len(series)
                /\ merged[Len(merged)] = series[last]
            BY <1>3, <2>3, <4>2, SeriesFacts
          <5> HIDE DEF last
          <5>2. series[last] \in Nat /\ series[k] \in Nat /\ series[last] < t /\ series[k] < t
            BY <1>2, <1>3, <5>1, SeriesFacts
          <5>3. ~(series[k] < req.start)
            BY <2>3, <5>1
          <5>4. since = series[last] + 1
            BY <2>1, <4>2, <5>1
          <5> QED
            BY <1>3, <2>1, <5>2, <5>3, <5>4
        <4> QED
          BY <4>1, <4>2
      <3>2. k \in 1..Len(series') + 1 /\ k + Len(merged) - 1 <= Len(series')
        BY <1>3, <1>4, <2>3
      <3>3. ASSUME NEW i \in 1..Len(series')
            PROVE  /\ i < k <=> series'[i] < req.start
                   /\ i < k + Len(merged) <=> series'[i] < since
        <4>1. i \in 1..Len(series) \/ i = Len(series) + 1
          BY <1>3, <1>4
        <4>2. CASE i \in 1..Len(series)
          BY <1>4, <2>3, <4>2
        <4>3. CASE i = Len(series) + 1
          <5>1. ~(i < k) /\ ~(i < k + Len(merged))
            BY <1>3, <2>3, <4>3
          <5>2. ~(series'[i] < req.start) /\ ~(series'[i] < since)
            BY <1>3, <1>4, <2>1, <3>1, <4>3
          <5> QED
            BY <5>1, <5>2
        <4> QED
          BY <4>1, <4>2, <4>3
      <3> QED
        BY <2>4, <2>5, <3>2, <3>3
    <2> QED
      BY <2>6, <2>7
  <1> QED
    BY <1>1, <1>7, <1>8

LEMMA OthersPreserve ==
    ASSUME QuotesInv, GetQuotes \/ Refuse \/ FetchFails
    PROVE  QuotesInv'
  <1>1. TypeOK /\ Len(series) \in Nat
    BY SeriesFacts DEF QuotesInv
  <1>2. /\ merged' = <<>> /\ merged' \in Seq(Slots) /\ Len(merged') = 0
        /\ series' = series /\ pageSize' = pageSize
    BY EmptySeq DEF GetQuotes, Refuse, FetchFails, exchange
  <1>3. CASE GetQuotes
    <2>1. /\ req' \in Request /\ since' = req'.start
          /\ pc' = IF req'.start = NoTime THEN "latest" ELSE "batch"
      BY <1>3 DEF GetQuotes
    <2>2. req'.start \in Nat \cup {NoTime}
      BY <2>1, QuotesAssumption DEF Request
    <2>3. TypeOK'
      BY <1>1, <1>2, <2>1, <2>2 DEF TypeOK, Increasing
    <2>4. CASE req'.start = NoTime
      BY <1>2, <2>1, <2>3, <2>4 DEF QuotesInv
    <2>5. CASE req'.start # NoTime
      <3>1. req'.start \in Nat /\ pc' = "batch"
        BY <2>1, <2>2, <2>5
      <3>2. PICK k \in 1..Len(series) + 1 :
               \A i \in 1..Len(series) : i < k <=> series[i] < req'.start
        BY <1>1, <3>1, PlaceInOrder
      <3>3. RunFrom(k)'
        BY <1>1, <1>2, <3>2 DEF RunFrom
      <3> QED
        BY <1>1, <1>2, <2>1, <2>3, <3>1, <3>2, <3>3 DEF QuotesInv
    <2> QED
      BY <2>4, <2>5
  <1>4. CASE Refuse \/ FetchFails
    <2>1. pc' \in {"refused", "failed"} /\ UNCHANGED <<req, since>>
      BY <1>4 DEF Refuse, FetchFails, exchange
    <2>2. TypeOK'
      BY <1>1, <1>2, <2>1 DEF TypeOK, Increasing
    <2> QED
      BY <1>2, <2>1, <2>2 DEF QuotesInv
  <1> QED
    BY <1>3, <1>4

LEMMA InitHoldsQuotesInv ==
    ASSUME Init
    PROVE  QuotesInv
  <1>1. /\ \E n \in 0..3 : series \in [1..n -> Slots] /\ Increasing(series)
        /\ pageSize \in PageSizes
    BY DEF Init
  <1>2. series \in Seq(Slots) /\ Increasing(series)
    <2> PICK n \in 0..3 : series \in [1..n -> Slots] /\ Increasing(series)
      BY <1>1
    <2>1. n \in Nat
      OBVIOUS
    <2> QED
      BY <2>1, SeqDef
  <1>3. /\ req = [start |-> NoTime, end |-> NoTime, limit |-> 0]
        /\ since = NoTime /\ merged = <<>> /\ pc = "refused"
    BY DEF Init
  <1>4. req \in Request
    BY <1>3, QuotesAssumption DEF Request
  <1>5. merged \in Seq(Slots)
    BY <1>3, EmptySeq
  <1> QED
    BY <1>1, <1>2, <1>3, <1>4, <1>5 DEF QuotesInv, TypeOK

\* The invariant that the theorems below rest on: the candles collected are a
\* run of the exchange's, and the next page begins where it ends
\* (market_data.go:311-366).
THEOREM QuotesInvariant == Spec => []QuotesInv
  <1>1. Init => QuotesInv
    BY InitHoldsQuotesInv
  <1>2. QuotesInv /\ [Next]_vars => QuotesInv'
    <2> SUFFICES ASSUME QuotesInv, [Next]_vars PROVE QuotesInv'
      OBVIOUS
    <2>1. CASE FetchLatest
      BY <2>1, FetchLatestPreserves
    <2>2. CASE FetchBatch
      BY <2>2, FetchBatchPreserves
    <2>3. CASE NewCandle
      BY <2>3, NewCandlePreserves
    <2>4. CASE GetQuotes \/ Refuse \/ FetchFails
      BY <2>4, OthersPreserve
    <2>5. CASE UNCHANGED vars
      BY <2>5 DEF vars, exchange, QuotesInv, TypeOK, Increasing, RunFrom, HasLimit
    <2> QED
      BY <2>1, <2>2, <2>3, <2>4, <2>5 DEF Next
  <1> QED
    BY <1>1, <1>2, PTL DEF Spec

\* The types, for every size of batches and pages and every request
\* (market_data.go:228-371).
THEOREM QuotesTypes == Spec => []TypeOK
  <1>1. QuotesInv => TypeOK
    BY DEF QuotesInv
  <1> QED
    BY <1>1, QuotesInvariant, PTL

\* A run is the stretch of the series that begins at its place.
LEMMA RunIsASubSeq ==
    ASSUME TypeOK, NEW k \in 1..Len(series) + 1, RunFrom(k)
    PROVE  merged = SubSeq(series, k, k + Len(merged) - 1)
  <1> DEFINE n == k + Len(merged) - 1
             run == SubSeq(series, k, n)
  <1>1. /\ Len(series) \in Nat /\ Len(merged) \in Nat /\ merged \in Seq(Slots)
        /\ n \in Nat /\ n <= Len(series) /\ k <= n + 1 /\ n - k + 1 = Len(merged)
    BY SeriesFacts DEF RunFrom
  <1> HIDE DEF n
  <1>2. /\ run \in Seq(Slots) /\ Len(run) = n - k + 1
        /\ \A j \in 1..(n - k + 1) : run[j] = series[k + j - 1]
    BY <1>1, CandlesBetween
  <1>3. \A j \in 1..Len(merged) : merged[j] = run[j]
    BY <1>1, <1>2 DEF RunFrom
  <1> HIDE DEF run
  <1>4. merged = run
    BY <1>1, <1>2, <1>3, SeqEqual
  <1> QED
    BY <1>4 DEF run, n

LEMMA SomeRun ==
    ASSUME QuotesInv
    PROVE  \E k \in 1..Len(series) + 1 : RunFrom(k)
  <1>1. CASE pc \in {"batch", "answered"}
    BY <1>1 DEF QuotesInv
  <1>2. CASE pc \notin {"batch", "answered"}
    <2>1. merged = <<>> /\ Len(merged) = 0 /\ Len(series) \in Nat
      BY <1>2, SeriesFacts DEF QuotesInv
    <2>2. RunFrom(1) /\ 1 \in 1..Len(series) + 1
      BY <2>1 DEF RunFrom
    <2> QED
      BY <2>2
  <1> QED
    BY <1>1, <1>2

\* The candles answered are always a run of the exchange's, for every size of
\* batches and pages: in order, none twice, none skipped between two pages
\* although more arrive meanwhile, and no more than the limit
\* (market_data.go:352-371).
THEOREM AnswerIsAlwaysARun == Spec => []AnswerIsARun
  <1>1. QuotesInv => AnswerIsARun
    <2> SUFFICES ASSUME QuotesInv PROVE AnswerIsARun
      OBVIOUS
    <2>1. PICK k \in 1..Len(series) + 1 : RunFrom(k)
      BY SomeRun
    <2>2. merged = SubSeq(series, k, k + Len(merged) - 1)
      BY <2>1, RunIsASubSeq DEF QuotesInv
    <2>3. pc = "answered" /\ HasLimit => Len(merged) <= req.limit
      BY DEF QuotesInv
    <2>4. /\ k + Len(merged) - 1 <= Len(series)
          /\ merged # <<>> /\ req.start # NoTime =>
                \A i \in 1..Len(series) : i < k <=> series[i] < req.start
      BY <2>1 DEF RunFrom
    <2> QED
      BY <2>2, <2>3, <2>4, Zenon DEF AnswerIsARun
  <1> QED
    BY <1>1, QuotesInvariant, PTL

-----------------------------------------------------------------------------
(* No closed candle is missing                                             *)

LEMMA Quotient ==
    ASSUME NEW x \in Nat, NEW d \in Nat \ {0}
    PROVE  x \div d \in Nat /\ x < (x \div d) * d + d
  BY SMTT(30)

LEMMA MoreTimes ==
    ASSUME NEW a \in Nat, NEW b \in Nat, NEW d \in Nat, a >= b
    PROVE  a * d >= b * d
  BY SMT

LEMMA OnceMore ==
    ASSUME NEW a \in Nat, NEW d \in Nat
    PROVE  (a - 1) * d + d = a * d /\ a * d \in Nat
  BY SMT

LEMMA DistancesAdd ==
    ASSUME NEW a \in Nat, NEW b \in Nat, NEW c \in Nat, NEW m \in Nat, NEW n \in Nat,
           b - a >= m, c - b >= n
    PROVE  ~(c - a < m + n)
  OBVIOUS

LEMMA PastTheEnd ==
    ASSUME NEW t \in Nat, NEW a \in Nat, NEW b \in Nat, NEW end \in Nat,
           NEW m \in Nat, NEW n \in Nat, NEW d \in Nat,
           a >= t, b - a >= m, m >= n, end - t < n + d
    PROVE  b + d > end
  OBVIOUS

\* Where no two neighbours of a run of candles begin within one interval, there
\* are d intervals between a candle of it and the d-th after it.
LEMMA SeriesApart ==
    ASSUME TypeOK,
           NEW i \in 1..Len(series), NEW d \in Nat, i + d <= Len(series),
           \A j \in 1..Len(series) - 1 :
              j >= i /\ j + 1 <= i + d => series[j + 1] - series[j] >= Dur
    PROVE  series[i + d] - series[i] >= d * Dur
  <1> DEFINE close == {x \in Nat : x <= d /\ series[i + x] - series[i] < x * Dur}
  <1>1. Len(series) \in Nat /\ Dur \in Nat /\ i \in Nat
        /\ \A j \in 1..Len(series) : series[j] \in Nat
    BY SeriesFacts, QuotesAssumption
  <1>2. close = {}
    <2> SUFFICES ASSUME close # {} PROVE FALSE
      OBVIOUS
    <2>1. close \in SUBSET Nat
      OBVIOUS
    <2>2. PICK x \in close : \A y \in close : x <= y
      BY <2>1, LeastOf
    <2>3. x \in Nat /\ x <= d /\ i + x <= Len(series) /\ series[i + x] - series[i] < x * Dur
      OBVIOUS
    <2>4. CASE x = 0
      BY <1>1, <2>3, <2>4
    <2>5. CASE x # 0
      <3>1. /\ x - 1 \in Nat /\ i + (x - 1) \in 1..Len(series) /\ i + x \in 1..Len(series)
            /\ i + (x - 1) < i + x /\ ~(x <= x - 1)
        BY <1>1, <2>3, <2>5
      <3>2. x - 1 \notin close
        BY <2>2, <3>1
      <3>3. /\ series[i + x] \in Nat /\ series[i + (x - 1)] \in Nat /\ series[i] \in Nat
        BY <1>1, <3>1
      <3> DEFINE before == (x - 1) * Dur
                 least  == x * Dur
      <3>4. before + Dur = least /\ least \in Nat /\ before \in Nat
        BY <1>1, <2>3, <3>1, OnceMore
      <3>5. series[i + (x - 1)] - series[i] >= before
        <4>1. ~(series[i + (x - 1)] - series[i] < (x - 1) * Dur)
          BY <3>1, <3>2
        <4> HIDE DEF before
        <4>2. ~(series[i + (x - 1)] - series[i] < before)
          BY <4>1 DEF before
        <4> QED
          BY <3>3, <3>4, <4>2
      <3>6. /\ i + (x - 1) \in 1..Len(series) - 1 /\ i + (x - 1) >= i
            /\ (i + (x - 1)) + 1 = i + x /\ i + x <= i + d
        BY <1>1, <2>3, <3>1
      <3>7. series[i + x] - series[i + (x - 1)] >= Dur
        <4> DEFINE l == i + (x - 1)
        <4>1. /\ l \in 1..Len(series) - 1 /\ l >= i /\ l + 1 = i + x /\ l + 1 <= i + d
          BY <3>6
        <4> HIDE DEF l
        <4>2. series[l + 1] - series[l] >= Dur
          BY <4>1
        <4>3. series[i + x] - series[l] >= Dur
          BY <4>1, <4>2
        <4> QED
          BY <4>3 DEF l
      <3>8. series[i + x] - series[i] < least
        BY <2>3
      <3> HIDE DEF before, least
      <3> HIDE DEF close
      <3>9. ~(series[i + x] - series[i] < before + Dur)
        BY <1>1, <3>3, <3>4, <3>5, <3>7, DistancesAdd
      <3> QED
        BY <3>4, <3>8, <3>9
    <2> QED
      BY <2>4, <2>5
  <1>3. d \notin close
    BY <1>2
  <1>4. series[i + d] \in Nat /\ series[i] \in Nat /\ d * Dur \in Nat
    BY <1>1, OnceMore
  <1>5. ~(series[i + d] - series[i] < d * Dur)
    BY <1>3
  <1> QED
    BY <1>4, <1>5

\* Where no two candles of the range are closer than the interval, a page of less
\* than a batch asked for all the candles that close by the end.
LEMMA ShortPageIsTheLast ==
    ASSUME TypeOK, NEW t \in Nat, BatchSize(t) < BatchLimit, ~ShortInterval,
           req.start \in Nat, t >= req.start,
           NEW m \in 1..Len(series), series[m] >= t,
           NEW i \in 1..Len(series), i >= m + BatchSize(t)
    PROVE  req.end # NoTime /\ series[i] + Dur > req.end
  <1>1. /\ BatchLimit \in Nat \ {0} /\ Dur \in Nat \ {0} /\ BatchSize(t) \in Nat \ {0}
        /\ req.end \in Nat \cup {NoTime}
    BY BatchSizeFacts, QuotesAssumption DEF TypeOK, Request
  <1>2. /\ req.end # NoTime /\ req.end > t
        /\ BatchSize(t) = MinOf(BatchLimit, MaxOf(1, (req.end - t) \div Dur))
    BY <1>1 DEF BatchSize
  <1> DEFINE q == (req.end - t) \div Dur
  <1>3. req.end - t \in Nat
    BY <1>1, <1>2
  <1>4. q \in Nat /\ req.end - t < q * Dur + Dur
    BY <1>1, <1>3, Quotient
  <1> HIDE DEF q
  <1>5. BatchSize(t) >= q
    BY <1>1, <1>2, <1>4 DEF MinOf, MaxOf, q
  <1>6. /\ Len(series) \in Nat /\ series[m] \in Nat /\ series[i] \in Nat
        /\ i - m \in Nat /\ i - m >= q /\ m + (i - m) = i
    BY <1>1, <1>4, <1>5, SeriesFacts
  <1> DEFINE apart == (i - m) * Dur
             asked == q * Dur
  <1> SUFFICES ASSUME series[i] + Dur <= req.end PROVE FALSE
    BY <1>1, <1>2, <1>6
  <1>7. series[i] - series[m] >= apart
    <2>1. m + (i - m) <= Len(series)
      BY <1>6
    <2>2. ASSUME NEW j \in 1..Len(series) - 1, j >= m, j + 1 <= m + (i - m)
          PROVE  series[j + 1] - series[j] >= Dur
      <3>1. /\ j \in 1..Len(series) /\ j + 1 \in 1..Len(series) /\ j + 1 <= i
        BY <1>6, <2>2
      <3>2. series[j] \in Nat /\ series[j + 1] \in Nat
        BY <3>1, SeriesFacts
      <3>3. series[j] >= series[m]
        BY <1>6, <2>2, <3>1, <3>2, SeriesFacts
      <3>4. series[j + 1] <= series[i]
        BY <1>6, <3>1, <3>2, SeriesFacts
      <3>5. series[j] >= req.start
        BY <1>6, <3>2, <3>3
      <3>6. series[j + 1] + Dur <= req.end
        <4> PICK x \in Nat : x = series[j + 1]
          BY <3>2
        <4> PICK y \in Nat : y = series[i]
          BY <1>6
        <4> PICK d \in Nat : d = Dur
          BY <1>1
        <4> PICK e \in Nat : e = req.end
          BY <1>1, <1>2
        <4>1. x <= y
          BY <3>4
        <4>2. y + d <= e
          OBVIOUS
        <4>3. x + d <= e
          BY <4>1, <4>2
        <4> QED
          BY <4>3
      <3>7. ~(series[j + 1] - series[j] < Dur)
        BY <1>2, <3>5, <3>6 DEF ShortInterval
      <3> QED
        BY <1>1, <3>2, <3>7
    <2>3. series[m + (i - m)] - series[m] >= (i - m) * Dur
      BY <1>6, <2>1, <2>2, SeriesApart
    <2> QED
      BY <1>6, <2>3
  <1>8. apart >= asked /\ apart \in Nat /\ asked \in Nat
    BY <1>1, <1>4, <1>6, MoreTimes, OnceMore
  <1> HIDE DEF apart
  <1>9. series[i] + Dur > req.end
    <2>1. req.end - t < asked + Dur
      BY <1>4
    <2> HIDE DEF asked
    <2> QED
      BY <1>1, <1>2, <1>6, <1>7, <1>8, <2>1, PastTheEnd
  <1> QED
    BY <1>1, <1>2, <1>6, <1>9

LEMMA FetchBatchMissesNone ==
    ASSUME QuotesInv, FetchBatch
    PROVE  EveryClosedCandle'
  <1> DEFINE n == MinOf(pageSize, BatchSize(since))
             page == From(since, n)
             all == merged \o page
             next == After(page)
             full == HasLimit /\ Len(all) >= req.limit
             past == req.end # NoTime /\ next > req.end
             ends == full \/ Len(page) < BatchLimit \/ past
  <1>1. /\ pc = "batch" /\ UNCHANGED <<series, pageSize, req>>
        /\ IF ends THEN pc' = "answered" /\ merged' = Truncate(all) /\ UNCHANGED since
           ELSE since' = next /\ merged' = all /\ UNCHANGED pc
    BY DEF FetchBatch, exchange
  <1>2. /\ TypeOK /\ since \in Nat /\ req.start \in Nat /\ Len(series) \in Nat
        /\ Len(merged) \in Nat /\ req.end \in Nat \cup {NoTime}
    BY <1>1, BatchIsCollected, SeriesFacts, QuotesAssumption DEF QuotesInv, TypeOK, Request
  <1>3. PICK k \in 1..Len(series) + 1 : Collected(k)
    BY <1>1, BatchIsCollected
  <1>4. /\ BatchSize(since) \in Nat \ {0} /\ BatchSize(since) <= BatchLimit
        /\ n \in Nat \ {0} /\ n \in {pageSize, BatchSize(since)}
        /\ n <= pageSize /\ n <= BatchSize(since)
        /\ pageSize \in Nat /\ BatchLimit \in Nat \ {0} /\ Dur \in Nat \ {0}
    <2>1. /\ BatchSize(since) \in Nat \ {0} /\ BatchSize(since) <= BatchLimit
          /\ n \in Nat \ {0}
      BY <1>2, BatchSizeFacts
    <2>2. pageSize \in Nat /\ BatchLimit \in Nat \ {0} /\ Dur \in Nat \ {0}
      BY <1>2, QuotesAssumption DEF TypeOK
    <2> QED
      BY <2>1, <2>2 DEF MinOf
  <1> HIDE DEF n
  <1>5. /\ page \in Seq(Slots) /\ all \in Seq(Slots)
        /\ Len(page) \in Nat /\ Len(all) = Len(merged) + Len(page)
        /\ Len(page) = MinOf(n, Len(series) - (k + Len(merged)) + 1)
        /\ k + Len(all) - 1 <= Len(series)
        /\ \A j \in 1..Len(all) : all[j] = series[k + j - 1]
        /\ page # <<>> => page[Len(page)] = series[k + Len(all) - 1]
        /\ page = <<>> <=> Len(page) = 0
    BY <1>1, <1>2, <1>3, <1>4, PageExtendsRun, EmptySeq
  <1>6. next = page[Len(page)] + 1
    BY DEF After
  <1> HIDE DEF page, all, next
  <1>7. \A i \in 1..Len(series) : /\ i < k <=> series[i] < req.start
                                  /\ i < k + Len(merged) <=> series[i] < since
    BY <1>3 DEF Collected
  <1>8. CASE ~ends
    BY <1>1, <1>8 DEF EveryClosedCandle
  <1>9. CASE full
    <2>1. HasLimit' /\ req' = req /\ Len(merged') = req.limit
      BY <1>1, <1>2, <1>5, <1>9, TruncateFacts DEF HasLimit
    <2> QED
      BY <2>1 DEF EveryClosedCandle
  <1>10. CASE ends /\ ~full
    <2>1. merged' = all /\ UNCHANGED <<series, pageSize, req>>
      BY <1>1, <1>2, <1>5, <1>10, TruncateFacts
    <2>4. SUFFICES ASSUME ~(pageSize < BatchLimit /\ Len(all) = pageSize), ~ShortInterval
          PROVE  EveryClosedCandle'
      BY <2>1 DEF EveryClosedCandle, ShortInterval
    <2>2. ASSUME NEW i \in 1..Len(series), i >= k + Len(all)
          PROVE  req.end # NoTime /\ series[i] + Dur > req.end
      <3>1. i \in Nat /\ k \in Nat /\ Len(all) \in Nat /\ series[i] \in Nat
        BY <1>2, <1>5, SeriesFacts
      <3>2. CASE Len(page) < BatchLimit
        <4> DEFINE m == k + Len(merged)
        <4>1. Len(page) # Len(series) - m + 1
          BY <1>2, <1>5, <2>2, <3>1
        <4>7. Len(page) = n
          BY <1>5, <4>1 DEF MinOf
        <4>2. Len(page) = BatchSize(since)
          <5> SUFFICES ASSUME Len(page) = pageSize PROVE FALSE
            BY <1>4, <4>7
          <5>1. merged = <<>>
            BY <1>1, <3>2 DEF QuotesInv
          <5> QED
            BY <1>5, <2>4, <3>2, <5>1, EmptySeq
        <4>3. BatchSize(since) < BatchLimit /\ i >= m + BatchSize(since)
          BY <1>2, <1>4, <1>5, <2>2, <3>1, <3>2, <4>2
        <4>4. m \in 1..Len(series) /\ ~(m < k + Len(merged))
          BY <1>2, <1>4, <2>2, <3>1, <4>3
        <4> HIDE DEF m
        <4>5. series[m] >= since
          <5>1. ~(series[m] < since) /\ series[m] \in Nat
            BY <1>2, <1>7, <4>4, SeriesFacts
          <5> QED
            BY <1>2, <5>1
        <4>6. since >= req.start
          BY <1>1, BatchIsCollected
        <4> QED
          BY <1>2, <4>3, <4>4, <4>5, <4>6, <2>4, ShortPageIsTheLast
      <3>3. CASE Len(page) >= BatchLimit /\ past
        <4> DEFINE last == k + Len(all) - 1
        <4>1. page # <<>> /\ Len(page) \in Nat \ {0}
          BY <1>4, <1>5, <3>3
        <4>2. last \in 1..Len(series) /\ last < i
          <5>1. k >= 1 /\ Len(all) >= 1
            BY <1>2, <1>5, <3>1, <4>1
          <5>2. last <= Len(series)
            BY <1>5
          <5>3. last < i
            BY <2>2, <3>1
          <5>4. last \in Nat /\ last >= 1
            BY <3>1, <5>1
          <5> HIDE DEF last
          <5> QED
            BY <1>2, <5>2, <5>3, <5>4
        <4>3. next = series[last] + 1
          BY <1>5, <1>6, <4>1
        <4> HIDE DEF last
        <4>4. series[last] \in Nat /\ series[last] < series[i]
          BY <1>2, <4>2, SeriesFacts
        <4>5. req.end # NoTime /\ req.end \in Nat /\ next > req.end
          BY <1>2, <3>3
        <4> QED
          BY <1>4, <3>1, <4>3, <4>4, <4>5
      <3> QED
        BY <1>4, <1>5, <1>10, <3>2, <3>3
    <2>3. ASSUME NEW i \in 1..Len(series), series[i] >= req.start,
                 req.end = NoTime \/ series[i] + Dur <= req.end
          PROVE  \E j \in 1..Len(all) : all[j] = series[i]
      <3>1. i \in Nat /\ k \in Nat /\ Len(all) \in Nat /\ series[i] \in Nat
        BY <1>2, <1>5, SeriesFacts
      <3>2. ~(i < k)
        BY <1>2, <1>7, <2>3, <3>1
      <3>3. i < k + Len(all)
        <4>1. ~(i >= k + Len(all))
          <5> SUFFICES ASSUME i >= k + Len(all) PROVE FALSE
            OBVIOUS
          <5>1. req.end # NoTime /\ series[i] + Dur > req.end
            BY <2>2
          <5>2. req.end \in Nat /\ series[i] + Dur <= req.end
            BY <1>2, <2>3, <5>1
          <5> QED
            BY <1>4, <3>1, <5>1, <5>2
        <4> QED
          BY <3>1, <4>1
      <3>4. i - k + 1 \in 1..Len(all) /\ k + (i - k + 1) - 1 = i
        BY <3>1, <3>2, <3>3
      <3>5. all[i - k + 1] = series[i]
        BY <1>5, <3>4
      <3> QED
        BY <3>4, <3>5
    <2> QED
      BY <2>1, <2>3 DEF EveryClosedCandle
  <1> QED
    BY <1>8, <1>9, <1>10

\* A call with a start that its limit did not cut answers with every candle from
\* the start on that closed by the end, for every size of batches, every request
\* and every exchange, but for one whole page of an exchange that returns less
\* than a batch, and where candles of the range are closer than the interval
\* (market_data.go:228, 311-366).
THEOREM EveryClosedCandleAlways == Spec => []EveryClosedCandle
  <1>1. Init => EveryClosedCandle
    BY DEF Init, EveryClosedCandle
  <1>2. QuotesInv /\ EveryClosedCandle /\ [Next]_vars => EveryClosedCandle'
    <2> SUFFICES ASSUME QuotesInv, EveryClosedCandle, [Next]_vars PROVE EveryClosedCandle'
      OBVIOUS
    <2>1. CASE FetchBatch
      BY <2>1, FetchBatchMissesNone
    <2>2. CASE FetchLatest
      BY <2>2 DEF QuotesInv, FetchLatest, EveryClosedCandle
    <2>3. CASE GetQuotes \/ Refuse \/ FetchFails \/ NewCandle
      <3>1. pc' # "answered"
        BY <2>3 DEF GetQuotes, Refuse, FetchFails, NewCandle, Running
      <3> QED
        BY <3>1 DEF EveryClosedCandle
    <2>4. CASE UNCHANGED vars
      BY <2>4 DEF vars, exchange, EveryClosedCandle, ShortInterval, HasLimit
    <2> QED
      BY <2>1, <2>2, <2>3, <2>4 DEF Next
  <1> QED
    BY <1>1, <1>2, QuotesInvariant, PTL DEF Spec

-----------------------------------------------------------------------------
(* MarketRequests: the elements kept                                       *)

\* k is what is kept of the first n elements of s: at[j] is where the j-th of
\* them was.
Picks(k, s, S, n) ==
    \E at \in [1..Len(k) -> 1..n] :
        /\ \A i, j \in 1..Len(k) : i < j => at[i] < at[j]
        /\ \A j \in 1..Len(k) : s[at[j]] \in S /\ k[j] = s[at[j]]
        /\ \A i \in 1..n : s[i] \in S => \E j \in 1..Len(k) : at[j] = i

LEMMA PicksNone ==
    ASSUME NEW A, NEW S, NEW s \in Seq(A)
    PROVE  <<>> \in Seq(A) /\ Picks(<<>>, s, S, 0)
  <1>1. <<>> \in Seq(A) /\ Len(<<>>) = 0
    BY EmptySeq
  <1>2. PICK at : at = [j \in 1..0 |-> 0]
    OBVIOUS
  <1>3. at \in [1..0 -> 1..0] /\ \A j \in 1..0 : FALSE
    BY <1>2
  <1>4. at \in [1..Len(<<>>) -> 1..0] /\ \A j \in 1..Len(<<>>) : FALSE
    BY <1>1, <1>3
  <1> QED
    BY <1>1, <1>3, <1>4, Zenon DEF Picks

LEMMA PicksOneMore ==
    ASSUME NEW A, NEW S, NEW s \in Seq(A), NEW n \in 1..Len(s), NEW k \in Seq(A),
           Picks(k, s, S, n - 1), s[n] \in S
    PROVE  Append(k, s[n]) \in Seq(A) /\ Picks(Append(k, s[n]), s, S, n)
  <1>1. PICK at \in [1..Len(k) -> 1..(n - 1)] :
            /\ \A i, j \in 1..Len(k) : i < j => at[i] < at[j]
            /\ \A j \in 1..Len(k) : s[at[j]] \in S /\ k[j] = s[at[j]]
            /\ \A i \in 1..(n - 1) : s[i] \in S => \E j \in 1..Len(k) : at[j] = i
    BY DEF Picks
  <1> DEFINE l == Append(k, s[n])
             m == Len(k)
             bt == [j \in 1..(m + 1) |-> IF j = m + 1 THEN n ELSE at[j]]
  <1>2. m \in Nat /\ Len(s) \in Nat /\ n \in Nat
    BY LenProperties
  <1>3. s[n] \in A
    BY ElementOfSeq
  <1>4. /\ l \in Seq(A) /\ Len(l) = m + 1 /\ l[m + 1] = s[n]
        /\ \A j \in 1..m : l[j] = k[j]
    BY <1>3, AppendProperties
  <1> HIDE DEF l, m
  <1>5. bt \in [1..(m + 1) -> 1..n]
    BY <1>1, <1>2 DEF m
  <1>6. bt[m + 1] = n /\ \A j \in 1..m : bt[j] = at[j] /\ at[j] \in 1..(n - 1)
    <2>1. m + 1 \in 1..(m + 1) /\ \A j \in 1..m : j \in 1..(m + 1) /\ j # m + 1
      BY <1>2
    <2>2. \A j \in 1..m : at[j] \in 1..(n - 1)
      BY <1>1 DEF m
    <2> QED
      BY <2>1, <2>2
  <1> HIDE DEF bt
  <1>7. ASSUME NEW i \in 1..(m + 1), NEW j \in 1..(m + 1), i < j
        PROVE  bt[i] < bt[j]
    <2>1. i \in 1..m /\ (j \in 1..m \/ j = m + 1)
      BY <1>2, <1>7
    <2>2. CASE j \in 1..m
      BY <1>1, <1>6, <1>7, <2>1, <2>2 DEF m
    <2>3. CASE j = m + 1
      BY <1>2, <1>6, <2>1, <2>3
    <2> QED
      BY <2>1, <2>2, <2>3
  <1>8. ASSUME NEW j \in 1..(m + 1)
        PROVE  s[bt[j]] \in S /\ l[j] = s[bt[j]]
    <2>1. j \in 1..m \/ j = m + 1
      BY <1>2
    <2>2. CASE j \in 1..m
      BY <1>1, <1>4, <1>6, <2>2 DEF m
    <2>3. CASE j = m + 1
      BY <1>4, <1>6, <2>3
    <2> QED
      BY <2>1, <2>2, <2>3
  <1>9. ASSUME NEW i \in 1..n, s[i] \in S
        PROVE  \E j \in 1..(m + 1) : bt[j] = i
    <2>1. CASE i = n
      BY <1>2, <1>6, <2>1
    <2>2. CASE i # n
      <3>1. i \in 1..(n - 1)
        BY <1>2, <2>2
      <3>2. PICK j \in 1..m : at[j] = i
        BY <1>1, <1>9, <3>1 DEF m
      <3>3. j \in 1..(m + 1) /\ bt[j] = i
        BY <1>2, <1>6, <3>2
      <3> QED
        BY <3>3
    <2> QED
      BY <2>1, <2>2
  <1>10. Picks(l, s, S, n)
    <2>1. bt \in [1..Len(l) -> 1..n]
      BY <1>4, <1>5
    <2>2. /\ \A i, j \in 1..Len(l) : i < j => bt[i] < bt[j]
          /\ \A j \in 1..Len(l) : s[bt[j]] \in S /\ l[j] = s[bt[j]]
          /\ \A i \in 1..n : s[i] \in S => \E j \in 1..Len(l) : bt[j] = i
      BY <1>4, <1>7, <1>8, <1>9
    <2> QED
      BY <2>1, <2>2, Zenon DEF Picks
  <1> QED
    BY <1>4, <1>10 DEF l

LEMMA PicksNoMore ==
    ASSUME NEW A, NEW S, NEW s \in Seq(A), NEW n \in 1..Len(s), NEW k \in Seq(A),
           Picks(k, s, S, n - 1), s[n] \notin S
    PROVE  Picks(k, s, S, n)
  <1>1. PICK at \in [1..Len(k) -> 1..(n - 1)] :
            /\ \A i, j \in 1..Len(k) : i < j => at[i] < at[j]
            /\ \A j \in 1..Len(k) : s[at[j]] \in S /\ k[j] = s[at[j]]
            /\ \A i \in 1..(n - 1) : s[i] \in S => \E j \in 1..Len(k) : at[j] = i
    BY DEF Picks
  <1>2. Len(s) \in Nat /\ n \in Nat
    BY LenProperties
  <1>3. at \in [1..Len(k) -> 1..n]
    BY <1>1, <1>2
  <1>4. \A i \in 1..n : s[i] \in S => i \in 1..(n - 1)
    BY <1>2
  <1>5. \A i \in 1..n : s[i] \in S => \E j \in 1..Len(k) : at[j] = i
    BY <1>1, <1>4
  <1> QED
    BY <1>1, <1>3, <1>5 DEF Picks

\* The loop of Kept is well defined: it has a value after every round.
LoopOf(f, s, S, n) ==
    f = [i \in 0..n |-> IF i = 0 THEN <<>>
                        ELSE IF s[i] \in S THEN Append(f[i - 1], s[i]) ELSE f[i - 1]]

LEMMA LoopHasAValue ==
    ASSUME NEW A, NEW S, NEW s \in Seq(A), NEW n \in Nat
    PROVE  \E f : LoopOf(f, s, S, n)
  <1> DEFINE bad == {x \in Nat : ~\E f : LoopOf(f, s, S, x)}
  <1>1. bad = {}
    <2> SUFFICES ASSUME bad # {} PROVE FALSE
      OBVIOUS
    <2>1. PICK x \in bad : \A y \in bad : x <= y
      BY LeastOf
    <2>2. x \in Nat /\ ~\E f : LoopOf(f, s, S, x)
      OBVIOUS
    <2>3. CASE x = 0
      <3> DEFINE f == [i \in 0..0 |-> <<>>]
      <3>1. LoopOf(f, s, S, 0)
        BY DEF LoopOf
      <3> QED
        BY <2>2, <2>3, <3>1
    <2>4. CASE x # 0
      <3>1. x - 1 \in Nat /\ ~(x <= x - 1)
        BY <2>2, <2>4
      <3>2. x - 1 \notin bad
        BY <2>1, <3>1
      <3>3. PICK f : LoopOf(f, s, S, x - 1)
        BY <3>1, <3>2
      <3> DEFINE next == IF s[x] \in S THEN Append(f[x - 1], s[x]) ELSE f[x - 1]
                 g == [i \in 0..x |-> IF i = x THEN next ELSE f[i]]
                 round(h, i) == IF i = 0 THEN <<>>
                                ELSE IF s[i] \in S THEN Append(h[i - 1], s[i]) ELSE h[i - 1]
      <3>4. \A i \in 0..(x - 1) : f[i] = round(f, i)
        BY <3>3 DEF LoopOf
      <3>5. \A i \in 0..(x - 1) : g[i] = f[i]
        <4>1. \A i \in 0..(x - 1) : i \in 0..x /\ i # x
          BY <2>2
        <4> QED
          BY <4>1
      <3>6. \A i \in 0..x : i = x \/ i \in 0..(x - 1)
        BY <2>2
      <3>7. ASSUME NEW i \in 0..x
            PROVE  g[i] = round(g, i)
        <4>1. CASE i = x
          <5>1. g[i] = next /\ g[i - 1] = f[i - 1]
            BY <2>4, <3>1, <3>5, <4>1
          <5> QED
            BY <2>4, <4>1, <5>1
        <4>2. CASE i \in 0..(x - 1) /\ i # 0
          <5>1. i - 1 \in 0..(x - 1)
            BY <2>2, <4>2
          <5> QED
            BY <3>4, <3>5, <4>2, <5>1
        <4>3. CASE i = 0
          BY <3>1, <3>4, <3>5, <4>3
        <4> QED
          BY <3>6, <4>1, <4>2, <4>3
      <3>8. g = [i \in 0..x |-> g[i]]
        OBVIOUS
      <3> HIDE DEF g
      <3>9. LoopOf(g, s, S, x)
        BY <3>7, <3>8 DEF LoopOf
      <3> QED
        BY <2>2, <3>9
    <2> QED
      BY <2>3, <2>4
  <1> QED
    BY <1>1

\* What is kept of a sequence: all its elements that are in S, in their order.
LEMMA KeptPicks ==
    ASSUME NEW A, NEW S, NEW s \in Seq(A)
    PROVE  Kept(s, S) \in Seq(A) /\ Picks(Kept(s, S), s, S, Len(s))
  <1> DEFINE kept == CHOOSE f : LoopOf(f, s, S, Len(s))
  <1>1. Len(s) \in Nat
    BY LenProperties
  <1>2. LoopOf(kept, s, S, Len(s))
    BY <1>1, LoopHasAValue
  <1>3. Kept(s, S) = kept[Len(s)]
    BY Zenon DEF Kept, LoopOf
  <1> HIDE DEF kept
  <1>4. \A i \in 0..Len(s) : kept[i] = IF i = 0 THEN <<>>
                                       ELSE IF s[i] \in S THEN Append(kept[i - 1], s[i])
                                       ELSE kept[i - 1]
    BY <1>2 DEF LoopOf
  <1> DEFINE bad == {x \in Nat : x <= Len(s) /\ ~(kept[x] \in Seq(A) /\ Picks(kept[x], s, S, x))}
  <1>5. bad = {}
    <2> SUFFICES ASSUME bad # {} PROVE FALSE
      OBVIOUS
    <2>1. PICK x \in bad : \A y \in bad : x <= y
      BY LeastOf
    <2>2. x \in Nat /\ x <= Len(s) /\ ~(kept[x] \in Seq(A) /\ Picks(kept[x], s, S, x))
      OBVIOUS
    <2>3. CASE x = 0
      <3>1. kept[0] = <<>>
        BY <1>1, <1>4
      <3> QED
        BY <2>2, <2>3, <3>1, PicksNone
    <2>4. CASE x # 0
      <3>1. /\ x - 1 \in Nat /\ ~(x <= x - 1) /\ x - 1 <= Len(s)
            /\ x \in 1..Len(s) /\ x \in 0..Len(s)
        BY <1>1, <2>2, <2>4
      <3>2. x - 1 \notin bad
        BY <2>1, <3>1
      <3>3. kept[x - 1] \in Seq(A) /\ Picks(kept[x - 1], s, S, x - 1)
        BY <3>1, <3>2
      <3>4. CASE s[x] \in S
        <4>1. kept[x] = Append(kept[x - 1], s[x])
          BY <1>4, <2>4, <3>1, <3>4
        <4> QED
          BY <2>2, <3>1, <3>3, <3>4, <4>1, PicksOneMore
      <3>5. CASE s[x] \notin S
        <4>1. kept[x] = kept[x - 1]
          BY <1>4, <2>4, <3>1, <3>5
        <4> QED
          BY <2>2, <3>1, <3>3, <3>5, <4>1, PicksNoMore
      <3> QED
        BY <3>4, <3>5
    <2> QED
      BY <2>3, <2>4
  <1>6. Len(s) \notin bad
    BY <1>5
  <1> QED
    BY <1>1, <1>3, <1>6

-----------------------------------------------------------------------------
(* The order of the matches                                                *)

\* Before puts any two symbols in an order.
LEMMA BeforeIsAnOrder ==
    ASSUME NEW q \in Queries
    PROVE  /\ \A s \in Symbols : ~Before(q, s, s)
           /\ \A s, t \in Symbols : s # t => Before(q, s, t) \/ Before(q, t, s)
           /\ \A s, t, u \in Symbols : Before(q, s, t) /\ Before(q, t, u) => Before(q, s, u)
  <1>1. \A s \in Symbols : s \in Nat
    BY RequestsAssumption
  <1>2. \A s \in Symbols : classifyMatch(s, q) \in 0..3
    BY DEF classifyMatch
  <1> QED
    BY <1>1, <1>2 DEF Before

Distinct(m, n) == \A i, j \in 1..n : i # j => m[i] # m[j]

\* t has the elements of m, which has n, in the order of Before.
Arranges(t, m, q, n) ==
    LET found == {m[i] : i \in 1..n}
    IN  /\ t \in [1..n -> found]
        /\ \A s \in found : \E i \in 1..n : t[i] = s
        /\ \A i, j \in 1..n : i < j => Before(q, t[i], t[j])

\* One symbol more has its place among those arranged.
LEMMA OneMoreIsArranged ==
    ASSUME NEW q \in Queries, NEW n \in Nat \ {0}, NEW m \in [1..n -> Symbols],
           Distinct(m, n), NEW t, Arranges(t, [i \in 1..(n - 1) |-> m[i]], q, n - 1)
    PROVE  \E u : Arranges(u, m, q, n)
  <1> DEFINE r == [i \in 1..(n - 1) |-> m[i]]
             x == m[n]
  <1>1. n - 1 \in Nat /\ n \in 1..n /\ x \in Symbols /\ \A i \in 1..(n - 1) : i \in 1..n /\ i # n
    OBVIOUS
  <1>2. \A i \in 1..(n - 1) : r[i] = m[i] /\ m[i] \in Symbols /\ m[i] # x
    BY <1>1 DEF Distinct
  <1>3. /\ t \in [1..(n - 1) -> {r[i] : i \in 1..(n - 1)}]
        /\ \A s \in {r[i] : i \in 1..(n - 1)} : \E i \in 1..(n - 1) : t[i] = s
        /\ \A i, j \in 1..(n - 1) : i < j => Before(q, t[i], t[j])
    BY Zenon DEF Arranges
  <1> HIDE DEF r, x
  <1>4. \A i \in 1..(n - 1) : /\ t[i] \in Symbols /\ t[i] # x
                              /\ \E j \in 1..(n - 1) : t[i] = m[j]
    <2> TAKE i \in 1..(n - 1)
    <2>1. t[i] \in {r[j] : j \in 1..(n - 1)}
      BY <1>3
    <2>2. PICK j \in 1..(n - 1) : t[i] = r[j]
      BY <2>1
    <2> QED
      BY <1>2, <2>2
  <1>5. \A j \in 1..(n - 1) : \E i \in 1..(n - 1) : t[i] = m[j]
    <2> TAKE j \in 1..(n - 1)
    <2>1. r[j] \in {r[i] : i \in 1..(n - 1)}
      OBVIOUS
    <2>2. \E i \in 1..(n - 1) : t[i] = r[j]
      BY <1>3, <2>1
    <2> QED
      BY <1>2, <2>2
  \* the first place whose symbol comes after x, or the end
  <1> DEFINE after == {i \in 1..(n - 1) : Before(q, x, t[i])} \cup {n}
  <1>6. PICK k \in after : \A i \in after : k <= i
    <2>1. after \in SUBSET Nat /\ after # {}
      BY <1>1
    <2> HIDE DEF after
    <2> QED
      BY <2>1, LeastOf
  <1>7. /\ k \in 1..n /\ k \in Nat
        /\ \A i \in 1..(n - 1) : i < k => Before(q, t[i], x)
        /\ \A i \in 1..(n - 1) : i >= k => Before(q, x, t[i])
    <2>1. k \in 1..n
      BY <1>1
    <2>2. ASSUME NEW i \in 1..(n - 1), i < k
          PROVE  Before(q, t[i], x)
      <3>1. i \notin after
        BY <1>6, <2>1, <2>2
      <3>2. ~Before(q, x, t[i])
        BY <3>1
      <3> QED
        BY <1>1, <1>4, <3>2, BeforeIsAnOrder
    <2>3. ASSUME NEW i \in 1..(n - 1), i >= k
          PROVE  Before(q, x, t[i])
      <3>1. k \in 1..(n - 1) /\ k # n
        BY <2>1, <2>3
      <3>2. Before(q, x, t[k])
        BY <1>6, <3>1
      <3>3. CASE i = k
        BY <3>2, <3>3
      <3>4. CASE i > k
        <4>1. Before(q, t[k], t[i])
          BY <1>3, <3>1, <3>4
        <4>2. t[k] \in Symbols /\ t[i] \in Symbols
          BY <1>4, <3>1
        <4> QED
          BY <1>1, <3>2, <4>1, <4>2, BeforeIsAnOrder
      <3>5. i = k \/ i > k
        BY <2>1, <2>3
      <3> QED
        BY <3>3, <3>4, <3>5, Zenon
    <2> QED
      BY <2>1, <2>2, <2>3
  <1> HIDE DEF after
  <1> DEFINE u == [i \in 1..n |-> IF i < k THEN t[i] ELSE IF i = k THEN x ELSE t[i - 1]]
             found == {m[i] : i \in 1..n}
  <1>8. /\ u[k] = x
        /\ \A i \in 1..n : i < k => u[i] = t[i] /\ i \in 1..(n - 1)
        /\ \A i \in 1..n : i > k => u[i] = t[i - 1] /\ i - 1 \in 1..(n - 1) /\ i - 1 >= k
    BY <1>7
  <1>9. \A i \in 1..n : i < k \/ i = k \/ i > k
    BY <1>7
  <1>10. u = [i \in 1..n |-> u[i]]
    OBVIOUS
  <1> HIDE DEF u
  <1>11. x \in found /\ \A i \in 1..(n - 1) : t[i] \in found
    BY <1>1, <1>4 DEF x
  <1>12. u \in [1..n -> found]
    <2>1. \A i \in 1..n : u[i] \in found
      BY <1>8, <1>9, <1>11
    <2> HIDE DEF found
    <2> QED
      BY <1>10, <2>1
  <1>13. ASSUME NEW s \in found
         PROVE  \E i \in 1..n : u[i] = s
    <2>1. PICK j \in 1..n : s = m[j]
      OBVIOUS
    <2>2. CASE j = n
      BY <1>7, <1>8, <2>1, <2>2 DEF x
    <2>3. CASE j # n
      <3>1. j \in 1..(n - 1)
        BY <2>3
      <3>2. PICK i \in 1..(n - 1) : t[i] = s
        BY <1>5, <2>1, <3>1
      <3>3. CASE i < k
        BY <1>1, <1>8, <3>2, <3>3
      <3>4. CASE i >= k
        <4>1. i + 1 \in 1..n /\ i + 1 > k /\ (i + 1) - 1 = i
          BY <1>7, <3>4
        <4>2. u[i + 1] = t[i]
          BY <1>8, <4>1
        <4> QED
          BY <3>2, <4>1, <4>2
      <3>5. i < k \/ i >= k
        BY <1>7
      <3> QED
        BY <3>3, <3>4, <3>5, Zenon
    <2> QED
      BY <2>2, <2>3
  <1>14. ASSUME NEW i \in 1..n, NEW j \in 1..n, i < j
         PROVE  Before(q, u[i], u[j])
    <2>1. CASE j < k
      <3>1. i < k
        BY <1>7, <1>14, <2>1
      <3> QED
        BY <1>3, <1>8, <1>14, <2>1, <3>1
    <2>2. CASE j = k
      <3>1. i < k
        BY <1>7, <1>14, <2>2
      <3> QED
        BY <1>7, <1>8, <2>2, <3>1
    <2>3. CASE j > k
      <3>1. u[j] = t[j - 1] /\ j - 1 \in 1..(n - 1) /\ j - 1 >= k
        BY <1>8, <2>3
      <3>2. CASE i < k
        <4>1. u[i] = t[i] /\ i \in 1..(n - 1)
          BY <1>8, <3>2
        <4>2. i < j - 1
          BY <1>7, <3>1, <3>2
        <4> QED
          BY <1>3, <3>1, <4>1, <4>2
      <3>3. CASE i = k
        BY <1>7, <1>8, <3>1, <3>3
      <3>4. CASE i > k
        <4>1. u[i] = t[i - 1] /\ i - 1 \in 1..(n - 1)
          BY <1>8, <3>4
        <4>2. i - 1 < j - 1
          BY <1>14
        <4> QED
          BY <1>3, <3>1, <4>1, <4>2
      <3> QED
        BY <1>9, <3>2, <3>3, <3>4, Zenon
    <2> QED
      BY <1>9, <2>1, <2>2, <2>3, Zenon
  <1> QED
    BY <1>12, <1>13, <1>14, Zenon DEF Arranges

\* So any number of them can be arranged.
LEMMA AllCanBeArranged ==
    ASSUME NEW q \in Queries, NEW n \in Nat
    PROVE  \A m \in [1..n -> Symbols] : Distinct(m, n) => \E t : Arranges(t, m, q, n)
  <1> DEFINE can(x) == \A m \in [1..x -> Symbols] : Distinct(m, x) => \E t : Arranges(t, m, q, x)
             bad == {x \in Nat : ~can(x)}
  <1>1. bad = {}
    <2> SUFFICES ASSUME bad # {} PROVE FALSE
      OBVIOUS
    <2>1. bad \in SUBSET Nat
      OBVIOUS
    <2> HIDE DEF bad
    <2>2. PICK x \in bad : \A y \in bad : x <= y
      BY <2>1, LeastOf
    <2>3. x \in Nat /\ ~can(x)
      BY DEF bad
    <2>4. CASE x = 0
      <3>1. ASSUME NEW m \in [1..0 -> Symbols]
            PROVE  Arranges(m, m, q, 0)
        <4>1. \A i \in 1..0 : FALSE
          OBVIOUS
        <4>2. m = [i \in 1..0 |-> m[i]]
          OBVIOUS
        <4>3. m \in [1..0 -> {m[i] : i \in 1..0}]
          BY <4>1, <4>2
        <4> QED
          BY <4>1, <4>3, Zenon DEF Arranges
      <3> QED
        BY <2>3, <2>4, <3>1, Zenon
    <2>5. CASE x # 0
      <3>1. x \in Nat \ {0} /\ x - 1 \in Nat /\ ~(x <= x - 1)
        BY <2>3, <2>5
      <3>2. can(x - 1)
        BY <2>2, <3>1 DEF bad
      <3>3. ASSUME NEW m \in [1..x -> Symbols], Distinct(m, x)
            PROVE  \E t : Arranges(t, m, q, x)
        <4> DEFINE r == [i \in 1..(x - 1) |-> m[i]]
        <4>1. \A i \in 1..(x - 1) : i \in 1..x
          BY <3>1
        <4>2. r \in [1..(x - 1) -> Symbols] /\ Distinct(r, x - 1)
          BY <3>3, <4>1 DEF Distinct
        <4>3. PICK t : Arranges(t, r, q, x - 1)
          <5> HIDE DEF r
          <5> QED
            BY <3>2, <4>2, Zenon
        <4> QED
          BY <3>1, <3>3, <4>3, OneMoreIsArranged
      <3> QED
        BY <2>3, <3>3, Zenon
    <2> QED
      BY <2>4, <2>5
  <1>2. n \notin bad
    BY <1>1, Zenon
  <1> HIDE DEF can
  <1>3. can(n)
    BY <1>2
  <1> QED
    BY <1>3 DEF can

\* What sorting returns: the matches, all of them, the better before the worse.
LEMMA SortedArranges ==
    ASSUME NEW q \in Queries, NEW m \in Seq(Symbols), Distinct(m, Len(m))
    PROVE  Sorted(m, q) \in Seq(Symbols) /\ Arranges(Sorted(m, q), m, q, Len(m))
  <1> DEFINE n == Len(m)
             found == {m[i] : i \in 1..n}
  <1>1. n \in Nat /\ m \in [1..n -> Symbols]
    BY LenProperties
  <1>2. PICK t : Arranges(t, m, q, n)
    BY <1>1, AllCanBeArranged
  <1>3. /\ Sorted(m, q) \in [1..n -> found]
        /\ \A s \in found : \E i \in 1..n : Sorted(m, q)[i] = s
        /\ \A i, j \in 1..n : i < j => Before(q, Sorted(m, q)[i], Sorted(m, q)[j])
    BY <1>2, Zenon DEF Arranges, Sorted
  <1>4. Arranges(Sorted(m, q), m, q, n)
    BY <1>3, Zenon DEF Arranges
  <1>5. found \subseteq Symbols
    BY <1>1
  <1> HIDE DEF n, found
  <1>6. Sorted(m, q) \in [1..n -> Symbols]
    BY <1>3, <1>5
  <1>7. Sorted(m, q) \in Seq(Symbols)
    BY <1>1, <1>6, SeqDef
  <1> QED
    BY <1>4, <1>7 DEF n

-----------------------------------------------------------------------------
(* The search                                                              *)

\* A symbol has a rank for a query when anything holds of the two.
LEMMA ClassifyFacts ==
    ASSUME NEW q \in Queries, NEW s \in Symbols
    PROVE  classifyMatch(s, q) # 0 <=> Facts[s][q] # {}
  <1>1. Facts[s][q] \subseteq Fact
    BY RequestsAssumption
  <1>2. "hasPrefix" \in Facts[s][q] => "contains" \in Facts[s][q]
    BY RequestsAssumption
  <1> QED
    BY <1>1, <1>2 DEF classifyMatch

\* Of two matches, that the rank puts one before the other means it is better.
LEMMA BeforeIsBetter ==
    ASSUME NEW q \in Queries, NEW s \in Symbols, NEW t \in Symbols,
           Facts[s][q] # {}, Facts[t][q] # {}, Before(q, s, t)
    PROVE  Better(s, t, q)
  <1> DEFINE rank(x) == IF "hasPrefix" \in Facts[x][q] THEN 3
                        ELSE IF "contains" \in Facts[x][q] THEN 2 ELSE 1
  <1>1. ASSUME NEW x \in Symbols, Facts[x][q] # {}
        PROVE  /\ classifyMatch(x, q) = rank(x)
               /\ rank(x) = 3 => Strength(x, q) = {"hasPrefix", "contains"}
               /\ rank(x) = 2 => Strength(x, q) = {"contains"}
               /\ rank(x) = 1 => Strength(x, q) = {}
               /\ rank(x) \in {1, 2, 3}
    <2>1. "hasPrefix" \in Facts[x][q] => "contains" \in Facts[x][q]
      BY RequestsAssumption
    <2>2. classifyMatch(x, q) = rank(x)
      BY <1>1, <2>1 DEF classifyMatch
    <2>3. rank(x) = 3 => Strength(x, q) = {"hasPrefix", "contains"}
      BY <2>1 DEF Strength
    <2>4. rank(x) = 2 => Strength(x, q) = {"contains"}
      BY DEF Strength
    <2>5. rank(x) = 1 => Strength(x, q) = {}
      BY <2>1 DEF Strength
    <2> QED
      BY <2>2, <2>3, <2>4, <2>5
  <1> HIDE DEF rank
  <1>2. \/ rank(s) = 3 /\ rank(t) = 2
        \/ rank(s) = 3 /\ rank(t) = 1
        \/ rank(s) = 2 /\ rank(t) = 1
        \/ rank(s) = rank(t) /\ s < t
    <2>1. rank(s) > rank(t) \/ (rank(s) = rank(t) /\ s < t)
      BY <1>1 DEF Before
    <2> QED
      BY <1>1, <2>1
  <1>3. CASE rank(s) = 3 /\ rank(t) = 2
    BY <1>1, <1>3 DEF Better
  <1>4. CASE rank(s) = 3 /\ rank(t) = 1
    BY <1>1, <1>4 DEF Better
  <1>5. CASE rank(s) = 2 /\ rank(t) = 1
    BY <1>1, <1>5 DEF Better
  <1>6. CASE rank(s) = rank(t) /\ s < t
    <2>1. Strength(s, q) = Strength(t, q)
      BY <1>1, <1>6
    <2> QED
      BY <1>6, <2>1 DEF Better
  <1> QED
    BY <1>2, <1>3, <1>4, <1>5, <1>6, Zenon

LEMMA FirstOfFacts ==
    ASSUME NEW A, NEW s \in Seq(A), NEW n \in Nat
    PROVE  /\ FirstOf(s, n) \in Seq(A)
           /\ Len(FirstOf(s, n)) = IF Len(s) > n THEN n ELSE Len(s)
           /\ \A i \in 1..Len(FirstOf(s, n)) : i \in 1..Len(s) /\ FirstOf(s, n)[i] = s[i]
  <1> DEFINE m == IF Len(s) > n THEN n ELSE Len(s)
  <1>1. m \in Nat /\ m <= Len(s) /\ Len(s) \in Nat
    BY LenProperties
  <1>2. FirstOf(s, n) = SubSeq(s, 1, m)
    BY DEF FirstOf
  <1> HIDE DEF m
  <1>3. \A i \in 1..m : i \in 1..Len(s) /\ s[i] \in A
    BY <1>1, ElementOfSeq
  <1>4. /\ SubSeq(s, 1, m) \in Seq(A)
        /\ Len(SubSeq(s, 1, m)) = IF 1 <= m THEN m - 1 + 1 ELSE 0
        /\ \A i \in 1..(m - 1 + 1) : SubSeq(s, 1, m)[i] = s[1 + i - 1]
    BY <1>1, <1>3, SubSeqProperties
  <1>5. Len(SubSeq(s, 1, m)) = m /\ m - 1 + 1 = m /\ \A i \in 1..m : 1 + i - 1 = i
    BY <1>1, <1>4
  <1> QED
    BY <1>2, <1>3, <1>4, <1>5 DEF m

\* What is kept of symbols that all differ differs too.
LEMMA KeptDistinct ==
    ASSUME NEW A, NEW S, NEW s \in Seq(A), Distinct(s, Len(s))
    PROVE  /\ Kept(s, S) \in Seq(A)
           /\ Distinct(Kept(s, S), Len(Kept(s, S)))
           /\ \A i \in 1..Len(Kept(s, S)) :
                 Kept(s, S)[i] \in S /\ \E j \in 1..Len(s) : s[j] = Kept(s, S)[i]
           /\ \A j \in 1..Len(s) :
                 s[j] \in S => \E i \in 1..Len(Kept(s, S)) : Kept(s, S)[i] = s[j]
  <1> DEFINE k == Kept(s, S)
  <1>1. k \in Seq(A) /\ Len(k) \in Nat /\ Len(s) \in Nat /\ Picks(k, s, S, Len(s))
    BY KeptPicks, LenProperties
  <1> HIDE DEF k
  <1>2. PICK at \in [1..Len(k) -> 1..Len(s)] :
            /\ \A i, j \in 1..Len(k) : i < j => at[i] < at[j]
            /\ \A j \in 1..Len(k) : s[at[j]] \in S /\ k[j] = s[at[j]]
            /\ \A i \in 1..Len(s) : s[i] \in S => \E j \in 1..Len(k) : at[j] = i
    BY <1>1 DEF Picks
  <1>3. Distinct(k, Len(k))
    <2>1. ASSUME NEW i \in 1..Len(k), NEW j \in 1..Len(k), i # j
          PROVE  at[i] # at[j]
      <3>1. i < j \/ j < i
        BY <1>1, <2>1
      <3>2. at[i] < at[j] \/ at[j] < at[i]
        BY <1>2, <3>1
      <3>3. at[i] \in Nat /\ at[j] \in Nat
        BY <1>1, <1>2
      <3> QED
        BY <3>2, <3>3
    <2> QED
      BY <1>2, <2>1 DEF Distinct
  <1>4. \A i \in 1..Len(k) : k[i] \in S /\ \E j \in 1..Len(s) : s[j] = k[i]
    BY <1>2
  <1>5. \A j \in 1..Len(s) : s[j] \in S => \E i \in 1..Len(k) : k[i] = s[j]
    BY <1>2
  <1> QED
    BY <1>1, <1>3, <1>4, <1>5 DEF k

LEMMA SearchLimitFacts ==
    ASSUME NEW n \in AskedLimits, n >= 0
    PROVE  /\ SearchLimit(n) \in Nat \ {0}
           /\ SearchLimit(n) <= MaxLimit
           /\ SearchLimit(n) <= IF n = 0 THEN DefaultLimit ELSE n
           /\ SearchLimit(n) \in {n, MaxLimit} \/ (n = 0 /\ SearchLimit(n) = DefaultLimit)
  BY RequestsAssumption DEF SearchLimit

\* found is the best of the matches in the list, at most limit of them.
BestOf(found, list, q, limit) ==
    LET match == {s \in {list[i] : i \in 1..Len(list)} : Facts[s][q] # {}}
        left  == match \ {found[i] : i \in 1..Len(found)}
    IN  /\ Len(found) \in Nat
        /\ \A i \in 1..Len(found) : found[i] \in match
        /\ \A i, j \in 1..Len(found) : i < j => Better(found[i], found[j], q)
        /\ \A i \in 1..Len(found), s \in left : Better(found[i], s, q)
        /\ Len(found) <= limit
        /\ left = {} \/ Len(found) = limit

\* The search's answer for a list of symbols that all differ.
LEMMA RankedRight ==
    ASSUME NEW q \in Queries, NEW limit \in Nat, NEW list \in Seq(Symbols),
           Distinct(list, Len(list))
    PROVE  BestOf(rankTickerMatches(list, q, limit), list, q, limit)
  <1> DEFINE found == rankTickerMatches(list, q, limit)
             match == {s \in {list[i] : i \in 1..Len(list)} : Facts[s][q] # {}}
             left == match \ {found[i] : i \in 1..Len(found)}
  <1> DEFINE m == Kept(list, Matching(q))
             t == Sorted(m, q)
             all == {m[i] : i \in 1..Len(m)}
  <1>1. /\ m \in Seq(Symbols) /\ Distinct(m, Len(m))
        /\ all = {list[i] : i \in 1..Len(list)} \cap Matching(q)
    <2> HIDE DEF m, t
    <2>1. m = Kept(list, Matching(q))
      BY DEF m
    <2>2. /\ m \in Seq(Symbols) /\ Distinct(m, Len(m))
          /\ \A i \in 1..Len(m) : m[i] \in Matching(q) /\ \E j \in 1..Len(list) : list[j] = m[i]
          /\ \A j \in 1..Len(list) :
                list[j] \in Matching(q) => \E i \in 1..Len(m) : m[i] = list[j]
      BY <2>1, KeptDistinct
    <2>3. \A x \in all : x \in {list[i] : i \in 1..Len(list)} /\ x \in Matching(q)
      BY <2>2
    <2>4. \A j \in 1..Len(list) : list[j] \in Matching(q) => list[j] \in all
      BY <2>2
    <2> HIDE DEF all
    <2>5. \A x \in {list[i] : i \in 1..Len(list)} : x \in Matching(q) => x \in all
      BY <2>4
    <2> QED
      BY <2>2, <2>3, <2>5
  <1>2. t \in Seq(Symbols) /\ Arranges(t, m, q, Len(m))
    <2> HIDE DEF m
    <2> QED
      BY <1>1, SortedArranges
  <1>3. found = FirstOf(t, limit)
    BY DEF rankTickerMatches
  <1> HIDE DEF t, m, found
  <1>4. /\ t \in [1..Len(m) -> all]
        /\ \A s \in all : \E i \in 1..Len(m) : t[i] = s
        /\ \A i, j \in 1..Len(m) : i < j => Before(q, t[i], t[j])
    BY <1>2, Zenon DEF Arranges
  <1>5. Len(t) = Len(m) /\ Len(m) \in Nat
    <2>1. Len(t) \in Nat /\ DOMAIN t = 1..Len(t) /\ Len(m) \in Nat
      BY <1>1, <1>2, LenProperties
    <2>2. DOMAIN t = 1..Len(m)
      BY <1>4
    <2>3. 1..Len(t) = 1..Len(m)
      BY <2>1, <2>2
    <2> QED
      BY <2>1, <2>3
  <1> HIDE DEF all
  <1>6. match = all
    <2>1. \A s \in {list[i] : i \in 1..Len(list)} : s \in Symbols
      BY ElementOfSeq
    <2>2. \A s \in Symbols : s \in Matching(q) <=> Facts[s][q] # {}
      BY ClassifyFacts DEF Matching
    <2> QED
      BY <1>1, <2>1, <2>2
  <1>7. match \subseteq Symbols /\ \A s \in match : Facts[s][q] # {}
    BY ElementOfSeq
  <1>8. /\ found \in Seq(Symbols)
        /\ Len(found) = IF Len(m) > limit THEN limit ELSE Len(m)
        /\ \A i \in 1..Len(found) : i \in 1..Len(m) /\ found[i] = t[i]
    BY <1>2, <1>3, <1>5, FirstOfFacts
  <1>9. /\ Len(found) \in Nat /\ Len(found) <= limit
        /\ Len(found) = Len(m) \/ Len(found) = limit
    BY <1>5, <1>8
  <1>10. \A i \in 1..Len(m) : t[i] \in match
    BY <1>4, <1>6
  <1>11. \A i, j \in 1..Len(m) : i < j => Better(t[i], t[j], q)
    BY <1>4, <1>7, <1>10, BeforeIsBetter
  <1>12. \A i \in 1..Len(found) : found[i] \in match
    BY <1>8, <1>10
  <1>13. \A i, j \in 1..Len(found) : i < j => Better(found[i], found[j], q)
    BY <1>8, <1>11
  <1>14. ASSUME NEW s \in left
         PROVE  \E j \in 1..Len(m) : t[j] = s /\ j > Len(found)
    <2>1. PICK j \in 1..Len(m) : t[j] = s
      BY <1>4, <1>6
    <2>2. j \notin 1..Len(found)
      BY <1>8, <2>1
    <2>3. j > Len(found)
      BY <1>5, <1>9, <2>2
    <2> QED
      BY <2>1, <2>3
  <1>15. ASSUME NEW i \in 1..Len(found), NEW s \in left
         PROVE  Better(found[i], s, q)
    <2>1. PICK j \in 1..Len(m) : t[j] = s /\ j > Len(found)
      BY <1>14
    <2>2. i < j /\ i \in 1..Len(m) /\ found[i] = t[i]
      BY <1>5, <1>8, <1>9, <2>1
    <2> QED
      BY <1>11, <2>1, <2>2
  <1>16. left = {} \/ Len(found) = limit
    <2> SUFFICES ASSUME left # {} PROVE Len(found) = limit
      OBVIOUS
    <2>1. PICK s \in left : TRUE
      OBVIOUS
    <2>2. PICK j \in 1..Len(m) : j > Len(found)
      BY <1>14, <2>1
    <2> QED
      BY <1>5, <1>9, <2>2
  <1>17. Len(found) \in Nat /\ Len(found) <= limit
    BY <1>9
  <1>18. BestOf(found, list, q, limit)
    BY <1>12, <1>13, <1>15, <1>16, <1>17, Zenon DEF BestOf, match, left
  <1> QED
    BY <1>18 DEF found

-----------------------------------------------------------------------------
(* The levels of a book                                                    *)

\* What RequestsTypeOK says of the levels sent.
SentRight(op, ok, limit, book, sent) ==
    LET whole == {i \in 1..Len(sent) : sent[i] # None}
    IN  /\ op # "OrderBookWebSocket" => whole = 1..Len(sent)
        /\ op = "OrderBookWebSocket" => Len(sent) <= MaxDepth
        /\ ~ok => sent = <<>>
        /\ ok /\ op \in {"GetOrderBook", "OrderBookWebSocket"} =>
              /\ limit > 0 => Len(sent) <= limit
              /\ \A i \in whole : sent[i].numbers >= 2
              /\ \A i, j \in whole : i < j => sent[i].place < sent[j].place
              /\ {sent[i] : i \in whole} =
                    {l \in {book[i] : i \in 1..Len(book)} :
                        /\ l.numbers >= 2
                        /\ limit > 0 => l.place <= limit}

LEMMA NothingSent ==
    ASSUME NEW op, NEW ok, NEW limit, NEW book,
           ~ok \/ op \notin {"GetOrderBook", "OrderBookWebSocket"}
    PROVE  SentRight(op, ok, limit, book, <<>>)
  <1>1. Len(<<>>) = 0
    BY EmptySeq
  <1>2. {i \in 1..0 : <<>>[i] # None} = 1..0
    OBVIOUS
  <1>3. Len(<<>>) <= MaxDepth
    BY <1>1, RequestsAssumption
  <1> QED
    BY <1>1, <1>2, <1>3, Zenon DEF SentRight

\* The first levels of a book, each at its place.
LEMMA CutFacts ==
    ASSUME NEW b \in Books, NEW n \in Nat
    PROVE  /\ b \in Seq(Level) /\ Cut(b, n) \in Seq(Level) /\ n \in Nat
           /\ Len(Cut(b, n)) = IF n > 0 /\ Len(b) > n THEN n ELSE Len(b)
           /\ \A i \in 1..Len(Cut(b, n)) :
                 i \in 1..Len(b) /\ Cut(b, n)[i] = b[i] /\ b[i] \in Level /\ b[i].place = i
           /\ \A i \in 1..Len(b) : n > 0 => (i <= n <=> i \in 1..Len(Cut(b, n)))
           /\ \A i \in 1..Len(b) : n = 0 => i \in 1..Len(Cut(b, n))
           /\ \A i \in 1..Len(b) : b[i].place = i
  <1>1. /\ b \in Seq(Level) /\ \A i \in 1..Len(b) : b[i].place = i
        /\ n \in Nat
    BY RequestsAssumption
  <1>2. Len(b) \in Nat /\ \A i \in 1..Len(b) : b[i] \in Level
    BY <1>1, LenProperties, ElementOfSeq
  <1>3. CASE n > 0
    <2>1. Cut(b, n) = FirstOf(b, n)
      BY <1>3 DEF Cut
    <2>2. /\ FirstOf(b, n) \in Seq(Level)
          /\ Len(FirstOf(b, n)) = IF Len(b) > n THEN n ELSE Len(b)
          /\ \A i \in 1..Len(FirstOf(b, n)) : i \in 1..Len(b) /\ FirstOf(b, n)[i] = b[i]
      BY <1>1, FirstOfFacts
    <2> QED
      BY <1>1, <1>2, <1>3, <2>1, <2>2
  <1>4. CASE n = 0
    <2>1. Cut(b, n) = b
      BY <1>4 DEF Cut
    <2> QED
      BY <1>1, <1>2, <1>4, <2>1
  <1> QED
    BY <1>1, <1>3, <1>4

\* An increasing function into 1..n has at most n arguments.
LEMMA IncreasingFits ==
    ASSUME NEW m \in Nat, NEW n \in Nat, NEW at \in [1..m -> 1..n],
           \A i, j \in 1..m : i < j => at[i] < at[j]
    PROVE  m <= n
  <1> DEFINE bad == {x \in 1..m : at[x] < x}
  <1>1. bad = {}
    <2> SUFFICES ASSUME bad # {} PROVE FALSE
      OBVIOUS
    <2>1. bad \in SUBSET Nat
      OBVIOUS
    <2>2. PICK x \in bad : \A y \in bad : x <= y
      <3> HIDE DEF bad
      <3> QED
        BY <2>1, LeastOf
    <2>3. x \in 1..m /\ at[x] < x /\ at[x] \in 1..n
      OBVIOUS
    <2>4. x # 1
      BY <2>3
    <2>5. x - 1 \in 1..m /\ ~(x <= x - 1) /\ x - 1 < x
      BY <2>3, <2>4
    <2>6. ~(at[x - 1] < x - 1)
      BY <2>2, <2>5
    <2>7. at[x - 1] < at[x] /\ at[x - 1] \in 1..n
      BY <2>3, <2>5
    <2> QED
      BY <2>3, <2>6, <2>7
  <1>2. CASE m = 0
    BY <1>2
  <1>3. CASE m # 0
    <2>1. m \in 1..m
      BY <1>3
    <2>2. ~(at[m] < m) /\ at[m] \in 1..n
      BY <1>1, <2>1
    <2> QED
      BY <2>2
  <1> QED
    BY <1>2, <1>3

\* GetOrderBook answers with the book's first levels that have an amount.
LEMMA UnarySent ==
    ASSUME NEW b \in Books, NEW n \in Nat
    PROVE  SentRight("GetOrderBook", TRUE, n, b, orderBookLevelsToProto(b, n))
  <1> DEFINE Two == {l \in Level : l.numbers >= 2}
             c == Cut(b, n)
             k == orderBookLevelsToProto(b, n)
  <1>1. /\ c \in Seq(Level) /\ n \in Nat
        /\ \A i \in 1..Len(c) : i \in 1..Len(b) /\ c[i] = b[i] /\ b[i] \in Level /\ b[i].place = i
        /\ \A i \in 1..Len(b) : n > 0 => (i <= n <=> i \in 1..Len(c))
        /\ \A i \in 1..Len(b) : n = 0 => i \in 1..Len(c)
        /\ \A i \in 1..Len(b) : b[i].place = i
    BY CutFacts
  <1>2. n > 0 => Len(c) <= n
    BY CutFacts, LenProperties
  <1>3. k = Kept(c, Two)
    BY DEF orderBookLevelsToProto
  <1>4. \A l \in Two : l \in Level /\ l.numbers >= 2
    OBVIOUS
  <1>5. \A l \in Level : l.numbers >= 2 => l \in Two
    OBVIOUS
  <1> HIDE DEF c, k, Two
  <1>6. k \in Seq(Level) /\ Len(k) \in Nat /\ Len(c) \in Nat /\ Picks(k, c, Two, Len(c))
    BY <1>1, <1>3, KeptPicks, LenProperties
  <1>7. PICK at \in [1..Len(k) -> 1..Len(c)] :
            /\ \A i, j \in 1..Len(k) : i < j => at[i] < at[j]
            /\ \A j \in 1..Len(k) : c[at[j]] \in Two /\ k[j] = c[at[j]]
            /\ \A i \in 1..Len(c) : c[i] \in Two => \E j \in 1..Len(k) : at[j] = i
    BY <1>6 DEF Picks
  <1>8. Len(k) <= Len(c)
    BY <1>6, <1>7, IncreasingFits
  <1>9. \A j \in 1..Len(k) :
            /\ at[j] \in 1..Len(c) /\ k[j] = b[at[j]] /\ k[j].place = at[j]
            /\ k[j] \in Level /\ k[j].numbers >= 2
    BY <1>1, <1>4, <1>7
  <1>10. \A j \in 1..Len(k) : k[j] # None
    BY <1>9, RequestsAssumption
  <1> DEFINE whole == {i \in 1..Len(k) : k[i] # None}
             rest == {l \in {b[i] : i \in 1..Len(b)} : l.numbers >= 2 /\ (n > 0 => l.place <= n)}
  <1>11. whole = 1..Len(k)
    BY <1>10
  <1> HIDE DEF whole
  <1>12. n > 0 => Len(k) <= n
    BY <1>1, <1>2, <1>6, <1>8
  <1>13. \A i, j \in 1..Len(k) : i < j => k[i].place < k[j].place
    BY <1>7, <1>9
  <1>14. \A j \in 1..Len(k) : k[j] \in rest
    <2> TAKE j \in 1..Len(k)
    <2>1. at[j] \in 1..Len(b) /\ k[j] = b[at[j]]
      BY <1>1, <1>9
    <2>2. n > 0 => k[j].place <= n
      BY <1>1, <1>9, <2>1
    <2> QED
      BY <1>9, <2>1, <2>2
  <1>15. ASSUME NEW l \in rest
         PROVE  \E j \in 1..Len(k) : k[j] = l
    <2>1. PICK i \in 1..Len(b) : l = b[i] /\ l.numbers >= 2 /\ (n > 0 => i <= n)
      BY <1>1
    <2>2. i \in 1..Len(c)
      BY <1>1, <2>1
    <2>3. c[i] = l /\ l \in Level
      BY <1>1, <2>1, <2>2
    <2>4. PICK j \in 1..Len(k) : at[j] = i
      BY <1>5, <1>7, <2>1, <2>2, <2>3
    <2> QED
      BY <1>7, <2>3, <2>4
  <1>16. {k[i] : i \in 1..Len(k)} = rest
    <2> HIDE DEF rest
    <2> QED
      BY <1>14, <1>15
  <1>17. /\ whole = 1..Len(k)
         /\ n > 0 => Len(k) <= n
         /\ \A i \in whole : k[i].numbers >= 2
         /\ \A i, j \in whole : i < j => k[i].place < k[j].place
         /\ {k[i] : i \in whole} = rest
    BY <1>9, <1>11, <1>12, <1>13, <1>16
  <1>18. SentRight("GetOrderBook", TRUE, n, b, k)
    BY <1>17, Zenon DEF SentRight, whole
  <1> QED
    BY <1>18 DEF k

\* The order-book stream sends the same levels, and null in the place of each
\* without an amount.
LEMMA StreamSent ==
    ASSUME NEW b \in Books, NEW n \in 1..MaxDepth
    PROVE  SentRight("OrderBookWebSocket", TRUE, n, b, convertOrderBookSide(b, n))
  <1> DEFINE c == Cut(b, n)
             k == convertOrderBookSide(b, n)
             whole == {i \in 1..Len(k) : k[i] # None}
             rest == {l \in {b[i] : i \in 1..Len(b)} : l.numbers >= 2 /\ (n > 0 => l.place <= n)}
  <1>1. /\ c \in Seq(Level) /\ n \in Nat
        /\ \A i \in 1..Len(c) : i \in 1..Len(b) /\ b[i] \in Level /\ b[i].place = i
        /\ \A i \in 1..Len(b) : n > 0 => (i <= n <=> i \in 1..Len(c))
        /\ \A i \in 1..Len(b) : n = 0 => i \in 1..Len(c)
        /\ \A i \in 1..Len(b) : b[i].place = i
    BY CutFacts
  <1>2. n > 0 => Len(c) <= n
    BY CutFacts, LenProperties
  <1>3. Len(c) \in Nat
    BY <1>1, LenProperties
  <1>4. k = [i \in 1..Len(c) |-> IF b[i].numbers >= 2 THEN b[i] ELSE None]
    BY DEF convertOrderBookSide
  <1> HIDE DEF c, k
  <1>5. /\ k \in Seq(Level \cup {None})
        /\ \A i \in 1..Len(c) : k[i] = IF b[i].numbers >= 2 THEN b[i] ELSE None
    <2>1. k \in [1..Len(c) -> Level \cup {None}]
      BY <1>1, <1>4
    <2> QED
      BY <1>3, <1>4, <2>1, SeqDef
  <1>6. Len(k) = Len(c)
    <2>1. 1..Len(k) = 1..Len(c) /\ Len(k) \in Nat
      BY <1>4, <1>5, LenProperties
    <2> QED
      BY <1>3, <2>1
  <1>7. \A i \in whole : i \in 1..Len(c) /\ k[i] = b[i] /\ b[i].numbers >= 2 /\ k[i].place = i
    BY <1>1, <1>5, <1>6
  <1>8. \A i \in 1..Len(c) : b[i].numbers >= 2 => i \in whole
    <2> TAKE i \in 1..Len(c)
    <2> HAVE b[i].numbers >= 2
    <2>1. k[i] = b[i] /\ b[i] # None
      BY <1>1, <1>5, RequestsAssumption
    <2> QED
      BY <1>6, <2>1
  <1> HIDE DEF whole
  <1>9. n > 0 => Len(k) <= n
    BY <1>2, <1>6
  <1>10. \A i, j \in whole : i < j => k[i].place < k[j].place
    BY <1>7
  <1>11. \A i \in whole : k[i] \in rest
    <2> TAKE i \in whole
    <2>1. i \in 1..Len(b) /\ (n > 0 => i <= n)
      BY <1>1, <1>7
    <2> QED
      BY <1>7, <2>1
  <1>12. ASSUME NEW l \in rest
         PROVE  \E i \in whole : k[i] = l
    <2>1. PICK i \in 1..Len(b) : l = b[i] /\ l.numbers >= 2 /\ (n > 0 => i <= n)
      BY <1>1
    <2>2. i \in 1..Len(c)
      BY <1>1, <2>1
    <2> QED
      BY <1>7, <1>8, <2>1, <2>2
  <1>13. {k[i] : i \in whole} = rest
    <2> HIDE DEF rest
    <2> QED
      BY <1>11, <1>12
  <1>14. /\ n > 0 => Len(k) <= n
         /\ \A i \in whole : k[i].numbers >= 2
         /\ \A i, j \in whole : i < j => k[i].place < k[j].place
         /\ {k[i] : i \in whole} = rest
    BY <1>7, <1>9, <1>10, <1>13
  <1>15. Len(k) <= MaxDepth
    BY <1>1, <1>2, <1>3, <1>6, RequestsAssumption
  <1>16. SentRight("OrderBookWebSocket", TRUE, n, b, k)
    BY <1>14, <1>15, Zenon DEF SentRight, whole
  <1> QED
    BY <1>16 DEF k

-----------------------------------------------------------------------------
(* The requests                                                            *)

\* The list cached is a sequence of symbols that all differ.
LEMMA CachedFacts ==
    ASSUME NEW c \in Orders
    PROVE  c \in Seq(Symbols) /\ Distinct(c, Len(c))
  <1>1. PICK S \in SUBSET Symbols :
            c \in {s \in [1..Cardinality(S) -> S] :
                     \A i, j \in DOMAIN s : i # j => s[i] # s[j]}
    BY DEF Orders
  <1>2. Cardinality(S) \in Nat
    <2>1. IsFiniteSet(S)
      BY RequestsAssumption, FS_Subset
    <2> QED
      BY <2>1, FS_CardinalityType
  <1>3. c \in [1..Cardinality(S) -> Symbols]
    BY <1>1
  <1>4. c \in Seq(Symbols)
    BY <1>2, <1>3, SeqDef
  <1>5. DOMAIN c = 1..Len(c)
    BY <1>4, LenProperties
  <1> QED
    BY <1>1, <1>4, <1>5 DEF Distinct

LEMMA TypesRestated ==
    RequestsTypeOK <=> /\ cached \in Orders
                       /\ answer.op \in Ops /\ answer.price \in Prices \cup {0}
                       /\ ~answer.ok => answer.symbols = <<>>
                       /\ SentRight(answer.op, answer.ok, answer.limit, answer.book,
                                    answer.levels)
  BY Zenon DEF RequestsTypeOK, SentRight

LEMMA TypesRestatedPrimed ==
    RequestsTypeOK' <=>
        /\ cached' \in Orders
        /\ answer'.op \in Ops /\ answer'.price \in Prices \cup {0}
        /\ ~answer'.ok => answer'.symbols = <<>>
        /\ SentRight(answer'.op, answer'.ok, answer'.limit, answer'.book, answer'.levels)
  BY Zenon DEF RequestsTypeOK, SentRight

LEMMA SearchKeepsTypes ==
    ASSUME RequestsTypeOK, SearchTicker
    PROVE  RequestsTypeOK'
  <1>1. /\ answer'.op = "SearchTicker" /\ answer'.levels = <<>> /\ answer'.price = 0
        /\ ~answer'.ok => answer'.symbols = <<>>
        /\ cached' = cached
    BY DEF SearchTicker, Refusal, Blank
  <1>2. SentRight(answer'.op, answer'.ok, answer'.limit, answer'.book, answer'.levels)
    BY <1>1, NothingSent
  <1> QED
    BY <1>1, <1>2, TypesRestated, TypesRestatedPrimed DEF Ops

\* A refusal has nothing in it.
LEMMA RefusalKeepsTypes ==
    ASSUME RequestsTypeOK, NEW op \in Ops, answer' = Refusal(op), cached' = cached
    PROVE  RequestsTypeOK' /\ answer'.op = op
  <1>1. /\ answer'.op = op /\ ~answer'.ok /\ answer'.levels = <<>> /\ answer'.price = 0
        /\ answer'.symbols = <<>>
    BY DEF Refusal, Blank
  <1>2. SentRight(answer'.op, answer'.ok, answer'.limit, answer'.book, answer'.levels)
    BY <1>1, NothingSent
  <1> QED
    BY <1>1, <1>2, TypesRestated, TypesRestatedPrimed

LEMMA BookKeepsTypes ==
    ASSUME RequestsTypeOK, GetOrderBook \/ OrderBookWebSocket
    PROVE  RequestsTypeOK' /\ answer'.op # "SearchTicker"
  <1>1. cached' = cached
    BY DEF GetOrderBook, OrderBookWebSocket
  <1>2. ASSUME NEW op \in {"GetOrderBook", "OrderBookWebSocket"}, NEW b, NEW n, NEW sent,
               SentRight(op, TRUE, n, b, sent),
               answer' = [Blank EXCEPT !.op = op, !.limit = n, !.book = b, !.levels = sent]
        PROVE  RequestsTypeOK' /\ answer'.op # "SearchTicker"
    <2>1. /\ answer'.op = op /\ answer'.ok = TRUE /\ answer'.price = 0 /\ answer'.limit = n
          /\ answer'.book = b /\ answer'.levels = sent
      BY <1>2 DEF Blank
    <2>2. SentRight(answer'.op, answer'.ok, answer'.limit, answer'.book, answer'.levels)
      BY <1>2, <2>1
    <2> QED
      BY <1>1, <2>1, <2>2, TypesRestated, TypesRestatedPrimed DEF Ops
  <1>3. ASSUME NEW op \in {"GetOrderBook", "OrderBookWebSocket"}, answer' = Refusal(op)
        PROVE  RequestsTypeOK' /\ answer'.op # "SearchTicker"
    BY <1>1, <1>3, RefusalKeepsTypes DEF Ops
  <1>4. CASE GetOrderBook
    <2>1. ASSUME NEW b \in Books, NEW n \in AskedLimits, n >= 0,
                 answer' = [Blank EXCEPT !.op = "GetOrderBook", !.limit = n, !.book = b,
                                         !.levels = orderBookLevelsToProto(b, n)]
          PROVE  RequestsTypeOK' /\ answer'.op # "SearchTicker"
      <3>1. n \in Nat
        BY <2>1, RequestsAssumption
      <3>2. SentRight("GetOrderBook", TRUE, n, b, orderBookLevelsToProto(b, n))
        BY <3>1, UnarySent
      <3> QED
        BY <1>2, <2>1, <3>2
    <2> QED
      BY <1>3, <1>4, <2>1 DEF GetOrderBook
  <1>5. CASE OrderBookWebSocket
    <2>1. ASSUME NEW b \in Books, NEW asked \in AskedLimits \cup {None},
                 NEW n \in parseOrderBookWebsocketRequest(asked),
                 answer' = [Blank EXCEPT !.op = "OrderBookWebSocket", !.limit = n, !.book = b,
                                         !.levels = convertOrderBookSide(b, n)]
          PROVE  RequestsTypeOK' /\ answer'.op # "SearchTicker"
      <3>1. n \in 1..MaxDepth
        BY RequestsAssumption DEF parseOrderBookWebsocketRequest
      <3>2. SentRight("OrderBookWebSocket", TRUE, n, b, convertOrderBookSide(b, n))
        BY <3>1, StreamSent
      <3> QED
        BY <1>2, <2>1, <3>2
    <2> QED
      BY <1>3, <1>5, <2>1 DEF OrderBookWebSocket
  <1> QED
    BY <1>4, <1>5

LEMMA OthersKeepTypes ==
    ASSUME RequestsTypeOK, ListMarkets \/ GetCurrentPrice \/ StreamCurrentPrice
    PROVE  RequestsTypeOK' /\ answer'.op # "SearchTicker"
  <1>1. /\ answer'.op \in {"ListMarkets", "GetCurrentPrice", "StreamCurrentPrice"}
        /\ answer'.levels = <<>> /\ cached' = cached
        /\ ~answer'.ok => answer'.symbols = <<>>
    BY DEF ListMarkets, GetCurrentPrice, StreamCurrentPrice, Refusal, Blank
  <1>2. answer'.price \in Prices \cup {0}
    <2>1. CASE ListMarkets
      BY <2>1 DEF ListMarkets, Refusal, Blank
    <2>2. CASE GetCurrentPrice
      BY <2>2 DEF GetCurrentPrice, Refusal, Blank
    <2>3. CASE StreamCurrentPrice
      BY <2>3 DEF StreamCurrentPrice, Blank
    <2> QED
      BY <2>1, <2>2, <2>3
  <1>3. SentRight(answer'.op, answer'.ok, answer'.limit, answer'.book, answer'.levels)
    BY <1>1, NothingSent
  <1> QED
    BY <1>1, <1>2, <1>3, TypesRestated, TypesRestatedPrimed DEF Ops

\* What SearchIsRight says of a search that was answered.
SearchedRight(found, list, q, n) ==
    LET match == {s \in {list[i] : i \in 1..Len(list)} : Facts[s][q] # {}}
        left  == match \ {found[i] : i \in 1..Len(found)}
    IN  /\ \A i \in 1..Len(found) : found[i] \in match
        /\ \A i, j \in 1..Len(found) : i < j => Better(found[i], found[j], q)
        /\ \A i \in 1..Len(found), s \in left : Better(found[i], s, q)
        /\ Len(found) <= MaxLimit
        /\ Len(found) <= IF n = 0 THEN DefaultLimit ELSE n
        /\ \/ left = {}
           \/ Len(found) \in {n, MaxLimit}
           \/ n = 0 /\ Len(found) = DefaultLimit

LEMMA SearchRestated ==
    SearchIsRight <=>
        (answer.op = "SearchTicker" /\ answer.ok =>
            SearchedRight(answer.symbols, answer.list, answer.query, answer.limit))
  BY Zenon DEF SearchIsRight, SearchedRight

LEMMA SearchRestatedPrimed ==
    SearchIsRight' <=>
        (answer'.op = "SearchTicker" /\ answer'.ok =>
            SearchedRight(answer'.symbols, answer'.list, answer'.query, answer'.limit))
  BY Zenon DEF SearchIsRight, SearchedRight

\* The best within the limit the search works with is right for the limit asked.
LEMMA BestIsRight ==
    ASSUME NEW n \in AskedLimits, n >= 0, NEW found, NEW list, NEW q,
           BestOf(found, list, q, SearchLimit(n))
    PROVE  SearchedRight(found, list, q, n)
  <1> DEFINE match == {s \in {list[i] : i \in 1..Len(list)} : Facts[s][q] # {}}
             left == match \ {found[i] : i \in 1..Len(found)}
             limit == SearchLimit(n)
  <1>1. /\ limit \in Nat /\ limit <= MaxLimit
        /\ limit <= IF n = 0 THEN DefaultLimit ELSE n
        /\ limit \in {n, MaxLimit} \/ (n = 0 /\ limit = DefaultLimit)
    BY SearchLimitFacts
  <1>2. n \in Int /\ MaxLimit \in Nat /\ DefaultLimit \in Nat
    BY RequestsAssumption
  <1> HIDE DEF match, left, limit
  <1>3. /\ Len(found) \in Nat
        /\ \A i \in 1..Len(found) : found[i] \in match
        /\ \A i, j \in 1..Len(found) : i < j => Better(found[i], found[j], q)
        /\ \A i \in 1..Len(found), s \in left : Better(found[i], s, q)
        /\ Len(found) <= limit
        /\ left = {} \/ Len(found) = limit
    BY Zenon DEF BestOf, match, left, limit
  <1>4. Len(found) <= MaxLimit /\ Len(found) <= IF n = 0 THEN DefaultLimit ELSE n
    BY <1>1, <1>2, <1>3
  <1>5. \/ left = {}
        \/ Len(found) \in {n, MaxLimit}
        \/ n = 0 /\ Len(found) = DefaultLimit
    BY <1>1, <1>3
  <1> QED
    BY <1>3, <1>4, <1>5, Zenon DEF SearchedRight, match, left

LEMMA SearchAnswersRight ==
    ASSUME RequestsTypeOK, SearchTicker
    PROVE  SearchIsRight'
  <1>1. cached \in Seq(Symbols) /\ Distinct(cached, Len(cached))
    BY CachedFacts, TypesRestated
  <1>2. ASSUME NEW q \in Queries, NEW n \in AskedLimits, n >= 0,
               answer' =
                  [Blank EXCEPT !.op = "SearchTicker", !.query = q, !.limit = n,
                                !.list = cached,
                                !.symbols = rankTickerMatches(cached, q, SearchLimit(n))]
        PROVE  SearchIsRight'
    <2> DEFINE found == rankTickerMatches(cached, q, SearchLimit(n))
    <2>1. SearchLimit(n) \in Nat
      BY <1>2, SearchLimitFacts
    <2>2. BestOf(found, cached, q, SearchLimit(n))
      BY <1>1, <2>1, RankedRight
    <2>3. SearchedRight(found, cached, q, n)
      BY <1>2, <2>2, BestIsRight
    <2> HIDE DEF found
    <2>4. /\ answer'.query = q /\ answer'.limit = n /\ answer'.list = cached
          /\ answer'.symbols = found
      BY <1>2 DEF Blank, found
    <2> QED
      BY <2>3, <2>4, SearchRestatedPrimed
  <1>3. CASE answer' = Refusal("SearchTicker")
    <2>1. ~answer'.ok
      BY <1>3 DEF Refusal, Blank
    <2> QED
      BY <2>1, SearchRestatedPrimed
  <1> QED
    BY <1>2, <1>3 DEF SearchTicker

LEMMA RequestsStep ==
    RequestsTypeOK /\ SearchIsRight /\ [RequestsNext]_requestVars
      => RequestsTypeOK' /\ SearchIsRight'
  <1> SUFFICES ASSUME RequestsTypeOK, SearchIsRight, [RequestsNext]_requestVars
               PROVE  RequestsTypeOK' /\ SearchIsRight'
    OBVIOUS
  <1>1. CASE Load \/ UNCHANGED requestVars
    <2>1. answer' = answer /\ cached' \in Orders
      BY <1>1, TypesRestated DEF Load, requestVars
    <2>2. RequestsTypeOK'
      BY <2>1, TypesRestated, TypesRestatedPrimed
    <2>3. SearchIsRight'
      BY <2>1, SearchRestated, SearchRestatedPrimed
    <2> QED
      BY <2>2, <2>3
  <1>2. CASE SearchTicker
    BY <1>2, SearchKeepsTypes, SearchAnswersRight
  <1>3. CASE GetOrderBook \/ OrderBookWebSocket
    <2>1. RequestsTypeOK' /\ answer'.op # "SearchTicker"
      BY <1>3, BookKeepsTypes
    <2> QED
      BY <2>1, Zenon DEF SearchIsRight
  <1>4. CASE ListMarkets \/ GetCurrentPrice \/ StreamCurrentPrice
    <2>1. RequestsTypeOK' /\ answer'.op # "SearchTicker"
      BY <1>4, OthersKeepTypes
    <2> QED
      BY <2>1, Zenon DEF SearchIsRight
  <1> QED
    BY <1>1, <1>2, <1>3, <1>4 DEF RequestsNext

LEMMA RequestsStart == RequestsInit => RequestsTypeOK /\ SearchIsRight
  <1> SUFFICES ASSUME RequestsInit PROVE RequestsTypeOK /\ SearchIsRight
    OBVIOUS
  <1>1. /\ answer.op = "none" /\ answer.price = 0 /\ answer.levels = <<>>
        /\ cached \in Orders /\ answer.ok = TRUE
    BY DEF RequestsInit, Blank
  <1>2. SentRight(answer.op, answer.ok, answer.limit, answer.book, answer.levels)
    BY <1>1, NothingSent
  <1>3. answer.op \in Ops /\ answer.op # "SearchTicker" /\ answer.price \in Prices \cup {0}
    BY <1>1 DEF Ops
  <1> QED
    BY <1>1, <1>2, <1>3, TypesRestated, Zenon DEF SearchIsRight

\* The market-data answers have their types, and the levels answered of a book,
\* by the unary call and by the stream, are the book's own that have an amount,
\* in its order, from its top and within the limit, a stream's never more than it
\* may be asked for, for every book, every limit and every number of levels
\* (market_data.go:619-635, websocket.go:349-361, 467-485).
THEOREM RequestsTypes == RequestsSpec => []RequestsTypeOK
  BY RequestsStart, RequestsStep, PTL DEF RequestsSpec

\* A search answers with the best of the matches, the best first, as many as the
\* limit allows, whatever order the cached list was loaded in, for every set of
\* symbols, every query and every limit (market_data.go:637-640, 705-739).
THEOREM SearchIsAlwaysRight == RequestsSpec => []SearchIsRight
  BY RequestsStart, RequestsStep, PTL DEF RequestsSpec

=============================================================================
