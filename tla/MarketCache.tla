----------------------------- MODULE MarketCache ----------------------------
(***************************************************************************)
(* The market-list cache behind SearchTicker and ListMarkets               *)
(* (internal/service/market_data.go), for one exchange: entries, and       *)
(* singleflight keys, of different exchanges are independent.              *)
(*                                                                         *)
(* A request reads the cache, and when the list is not fresh runs a        *)
(* callback in the exchange's singleflight, alone, or waits for the        *)
(* callback running there to end; then it reads the cache again and        *)
(* answers from what it finds. The goroutine started with the service      *)
(* primes the cache through the same singleflight. An access under         *)
(* cacheMux is one step; the callback's reads after RUnlock are a step of  *)
(* their own.                                                              *)
(***************************************************************************)
EXTENDS Naturals, FiniteSets

CONSTANTS Request,  \* concurrent SearchTicker/ListMarkets handlers
          Primer,   \* the goroutine running cacheMarkets at startup
          NoOne     \* no callback is running

ASSUME CacheAssumption == Primer \notin Request /\ NoOne \notin Request \cup {Primer}

Process == Request \cup {Primer}

VARIABLES cache,   \* the exchange's marketCache
          flight,  \* whose callback runs in the singleflight group
          result,  \* that callback's local outcome so far
          pc,      \* where each process is
          reply,   \* what a request last answered
          saw      \* history: how the flights ended that a request has seen end

vars == <<cache, flight, result, pc, reply, saw>>

\* A marketCache: its list as far as answers depend on it, the age of
\* loadedAt, and loadInProg. A missing map entry reads like Zero: a nil list,
\* a zero time and false, and markLoading(false) leaves it alone.
Lists == {"none", "empty", "full"}
Ages  == {"never", "fresh", "expired"}
Zero  == [list |-> "none", age |-> "never", loadInProg |-> FALSE]

\* What a callback comes to: nothing yet, a list found fresh, a failed load,
\* or the list LoadMarkets returned.
Results == {"nothing", "found", "failed", "empty", "full"}
Replies == {"none", "cached", "ok", "unavailable"}

\* Inside the callback, in the order of the code.
Inside == {"recheck", "fields", "mark", "load", "store", "unmark", "leave"}
Places == Inside \cup {"idle", "enter", "wait", "second", "done"}

\* time.Since(loadedAt) < cacheTTL for a loadedAt that is not zero.
fresh == cache.age = "fresh"

Init == /\ cache  = Zero
        /\ flight = NoOne
        /\ result = "nothing"
        /\ pc     = [p \in Process |-> IF p = Primer THEN "enter" ELSE "idle"]
        /\ reply  = [r \in Request |-> "none"]
        /\ saw    = [r \in Request |-> {}]

\* p moves on from one place to the next.
Goto(p, from, to) == pc[p] = from /\ pc' = [pc EXCEPT ![p] = to]

-----------------------------------------------------------------------------
(* ensureCache up to the singleflight                                      *)

\* The first snapshotCache: a fresh list is the answer, even an empty one and
\* even while a load is in progress.
FirstSnapshot(r) ==
    /\ IF fresh
       THEN /\ pc[r] = "idle"
            /\ reply' = [reply EXCEPT ![r] = "cached"]
            /\ UNCHANGED pc
       ELSE /\ Goto(r, "idle", "enter")
            /\ reply' = [reply EXCEPT ![r] = "none"]
    /\ saw' = [saw EXCEPT ![r] = {}]
    /\ UNCHANGED <<cache, flight, result>>

\* Mutants: no singleflight; a joiner does not wait.
Enter_alone(p) ==
    /\ Goto(p, "enter", IF p = Primer THEN "mark" ELSE "recheck")
    /\ flight' = p /\ result' = "nothing"
    /\ UNCHANGED <<cache, reply, saw>>
Enter_noWait(p) ==
    /\ IF flight = NoOne
       THEN /\ Goto(p, "enter", IF p = Primer THEN "mark" ELSE "recheck")
            /\ flight' = p /\ result' = "nothing"
       ELSE /\ Goto(p, "enter", IF p = Primer THEN "done" ELSE "second")
            /\ UNCHANGED <<flight, result>>
    /\ UNCHANGED <<cache, reply, saw>>

\* loadGroup.Do: run the callback if none is running, else wait for the one
\* that is. cacheMarkets' callback is the load itself, ensureCache's starts
\* with a re-check.
Enter(p) ==
    /\ IF flight = NoOne
       THEN /\ Goto(p, "enter", IF p = Primer THEN "mark" ELSE "recheck")
            /\ flight' = p /\ result' = "nothing"
       ELSE Goto(p, "enter", "wait") /\ UNCHANGED <<flight, result>>
    /\ UNCHANGED <<cache, reply, saw>>

-----------------------------------------------------------------------------
(* The callback                                                            *)

\* The entry's pointer is read under RLock ...
Recheck(r) == /\ Goto(r, "recheck", "fields")
              /\ UNCHANGED <<cache, flight, result, reply, saw>>

\* A mutant: the re-check is not made.
ReadFields_always(r) == /\ Goto(r, "fields", "mark")
                        /\ UNCHANGED <<cache, flight, result, reply, saw>>

\* ... and its fields after RUnlock: a list somebody made fresh meanwhile, with
\* no load in progress, is not loaded again.
ReadFields(r) ==
    /\ IF fresh /\ ~cache.loadInProg
       THEN Goto(r, "fields", "leave") /\ result' = "found"
       ELSE Goto(r, "fields", "mark") /\ UNCHANGED result
    /\ UNCHANGED <<cache, flight, reply, saw>>

\* A mutant: marking replaces the entry, and its list with it.
MarkLoading_replaces(p) ==
    /\ Goto(p, "mark", "load")
    /\ cache' = [Zero EXCEPT !.loadInProg = TRUE]
    /\ UNCHANGED <<flight, result, reply, saw>>

\* loadMarketsInto starts: markLoading(true).
MarkLoading(p) ==
    /\ Goto(p, "mark", "load")
    /\ cache' = [cache EXCEPT !.loadInProg = TRUE]
    /\ UNCHANGED <<flight, result, reply, saw>>

\* A mutant: the error return forgets markLoading(false).
LoadMarkets_earlyReturn(p) ==
    /\ \E out \in {"failed", "empty", "full"} :
          /\ Goto(p, "load", IF out = "failed" THEN "leave" ELSE "store")
          /\ result' = out
    /\ UNCHANGED <<cache, flight, reply, saw>>

\* The client and its LoadMarkets, outside every lock: no client, a nil one,
\* an error, or a list, which may be empty.
LoadMarkets(p) ==
    /\ \E out \in {"failed", "empty", "full"} :
          /\ Goto(p, "load", IF out = "failed" THEN "unmark" ELSE "store")
          /\ result' = out
    /\ UNCHANGED <<cache, flight, reply, saw>>

\* The load failed: markLoading(false), the list stays.
UnmarkLoading(p) ==
    /\ Goto(p, "unmark", "leave")
    /\ cache' = [cache EXCEPT !.loadInProg = FALSE]
    /\ UNCHANGED <<flight, result, reply, saw>>

\* A mutant: the new entry has no loadedAt.
Store_noTime(p) ==
    /\ Goto(p, "store", "leave")
    /\ cache' = [list |-> result, age |-> "never", loadInProg |-> FALSE]
    /\ UNCHANGED <<flight, result, reply, saw>>

\* The load succeeded: a new entry, stamped now, with no load in progress.
Store(p) ==
    /\ Goto(p, "store", "leave")
    /\ cache' = [list |-> result, age |-> "fresh", loadInProg |-> FALSE]
    /\ UNCHANGED <<flight, result, reply, saw>>

\* Do returns: in p, whose callback it was, and in every process that waited.
Active(r) == pc[r] # "idle"
AfterDo(q) == IF q = Primer THEN "done" ELSE "second"

\* A mutant: the waiters are not told.
Leave_alone(p) ==
    /\ Goto(p, "leave", AfterDo(p))
    /\ flight' = NoOne
    /\ saw' = [r \in Request |-> IF Active(r) THEN saw[r] \cup {result} ELSE saw[r]]
    /\ UNCHANGED <<cache, result, reply>>

Leave(p) ==
    /\ pc[p] = "leave"
    /\ pc' = [q \in Process |-> IF q = p \/ pc[q] = "wait" THEN AfterDo(q) ELSE pc[q]]
    /\ flight' = NoOne
    /\ saw' = [r \in Request |-> IF Active(r) THEN saw[r] \cup {result} ELSE saw[r]]
    /\ UNCHANGED <<cache, result, reply>>

-----------------------------------------------------------------------------
(* ensureCache after the singleflight                                      *)

\* The second snapshotCache: "still loading, please retry" while somebody's
\* load is in progress or there is nothing to answer with, else the list, of
\* whatever age.
SecondSnapshot(r) ==
    /\ Goto(r, "second", "idle")
    /\ reply' = [reply EXCEPT ![r] = IF cache.loadInProg \/ cache.list # "full"
                                     THEN "unavailable" ELSE "ok"]
    /\ UNCHANGED <<cache, flight, result, saw>>

\* cacheTTL runs out. The one timing assumption: fifteen minutes do not pass
\* between a re-check that found the list fresh and the return it leads to.
Expire ==
    /\ fresh
    /\ flight # NoOne => ~(pc[flight] = "leave" /\ result = "found")
    /\ cache' = [cache EXCEPT !.age = "expired"]
    /\ UNCHANGED <<flight, result, pc, reply, saw>>

\* Everything a process does once it has started.
Step(p) ==
    \/ Enter(p) \/ MarkLoading(p) \/ LoadMarkets(p) \/ UnmarkLoading(p) \/ Store(p)
    \/ Leave(p)
    \/ p \in Request /\ (Recheck(p) \/ ReadFields(p) \/ SecondSnapshot(p))

Next == Expire \/ (\E r \in Request : FirstSnapshot(r)) \/ (\E p \in Process : Step(p))

\* The Go scheduler runs every goroutine that can run, and LoadMarkets ends:
\* the exchange answers or the HTTP client gives up.
Fairness == \A p \in Process : WF_vars(Step(p))

Spec == Init /\ [][Next]_vars /\ Fairness

-----------------------------------------------------------------------------
(* Properties                                                              *)

\* Types; there is a list exactly when there is a loadedAt.
TypeOK ==
    /\ cache \in [list : Lists, age : Ages, loadInProg : BOOLEAN]
    /\ cache.list = "none" <=> cache.age = "never"
    /\ flight \in Process \cup {NoOne}
    /\ result \in Results
    /\ pc \in [Process -> Places]
    /\ reply \in [Request -> Replies]
    /\ saw \in [Request -> SUBSET Results]

\* Callbacks of an exchange never overlap: LoadMarkets runs once at a time,
\* and the fields the re-check reads after RUnlock (market_data.go:213) have
\* no concurrent writer.
CallbacksDoNotOverlap ==
    \A p, q \in Process : pc[p] \in Inside /\ pc[q] \in Inside => p = q

\* loadInProg tells the truth: it is set only while some load is between
\* markLoading(true) and its end, whichever of the four ways it ends
\* (market_data.go:114-160), so it can never stick.
FlagMeansLoading ==
    cache.loadInProg => \E p \in Process : pc[p] \in {"load", "store", "unmark"}

\* A request never loads a list that is fresh already: one that lost the race
\* to refresh finds out at the re-check (market_data.go:208-215). The clock
\* only makes lists stale, so this holds until the load ends.
RequestsLoadOnlyStale ==
    \A r \in Request : pc[r] \in {"mark", "load", "store", "unmark"} => ~fresh

\* A load that ended, well or badly, while the request was under way.
Attempts == {"failed", "empty", "full"}
SawAttempt(r) == saw[r] \cap Attempts # {}

\* ensureCache "blocks until at least one load attempt completes"
\* (market_data.go:196): a request that did not find the list fresh answers
\* only when a load ended, well or badly, while it waited. So it answers with
\* the list it found stale only after a failed refresh.
AnswersAfterAnAttempt ==
    \A r \in Request : reply[r] \in {"ok", "unavailable"} =>
        SawAttempt(r)

\* What the above rest on, and is inductive with them: the flight is the one
\* callback running and waiters wait for it alone; the callback's result agrees
\* with its place; and a request under way over a fresh list has seen the load
\* that made it fresh end, or is about to.
CacheInv ==
    /\ TypeOK
    /\ \A p \in Process : pc[p] \in Inside <=> flight = p
    /\ \A p \in Process : pc[p] = "wait" => flight # NoOne
    /\ pc[Primer] \notin {"idle", "recheck", "fields", "second"}
    /\ \A p \in Process : /\ pc[p] = "store" => result \in {"empty", "full"}
                          /\ pc[p] = "unmark" => result = "failed"
                          /\ pc[p] = "leave" => result # "nothing"
                          /\ pc[p] = "leave" /\ result = "found" => fresh
    /\ FlagMeansLoading
    /\ RequestsLoadOnlyStale
    /\ \A r \in Request :
          /\ pc[r] \notin {"idle", "second"} /\ fresh =>
                \/ SawAttempt(r)
                \/ \E p \in Process : pc[p] = "leave" /\ result \in {"empty", "full"}
          /\ pc[r] = "second" => SawAttempt(r)
    /\ AnswersAfterAnAttempt

\* A refresh in progress or failed never costs the list: it changes only when
\* a list an exchange returned replaces it (market_data.go:155-160, 165-179).
ListSurvivesFailures ==
    [][cache'.list # cache.list =>
          /\ \E p \in Process : pc[p] = "store"
          /\ cache' = [list |-> result, age |-> "fresh", loadInProg |-> FALSE]]_vars

\* Every request is answered, also those that joined a load begun by others.
EveryRequestAnswered == \A r \in Request : Active(r) ~> ~Active(r)

=============================================================================
