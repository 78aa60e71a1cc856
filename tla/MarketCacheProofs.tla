-------------------------- MODULE MarketCacheProofs --------------------------
(***************************************************************************)
(* Proofs about MarketCache, for any number of requests. CacheInv says who *)
(* is inside the singleflight callback, what the callback's result is at   *)
(* each of its places, and which loads a request has seen end; each action *)
(* keeps it, and the safety properties are its conjuncts.                  *)
(***************************************************************************)
EXTENDS MarketCache, TLAPS

\* Every lemma about a step looks at the whole invariant.
USE CacheAssumption
    DEF CacheInv, TypeOK, FlagMeansLoading, RequestsLoadOnlyStale,
        AnswersAfterAnAttempt, Process, Lists, Ages, Results, Replies, Inside, Places,
        fresh, SawAttempt, Attempts

\* Nobody is there, the cache reads like Zero and nobody was answered.
LEMMA CacheInvInit == Init => CacheInv
  BY DEF Init, Zero

\* A request starts: with a fresh list it is answered and nothing else moves,
\* else it is under way over a stale list.
LEMMA FirstSnapshotPreserves ==
  ASSUME CacheInv, NEW r \in Request, FirstSnapshot(r)
  PROVE  CacheInv'
  BY DEF FirstSnapshot, Goto

\* Entering makes the caller the flight, or one of its waiters.
LEMMA EnterPreserves ==
  ASSUME CacheInv, NEW p \in Process, Enter(p)
  PROVE  CacheInv'
  BY DEF Enter, Goto

\* The read of the entry's pointer moves the callback on and no more.
LEMMA RecheckPreserves ==
  ASSUME CacheInv, NEW r \in Request, Recheck(r)
  PROVE  CacheInv'
  BY DEF Recheck, Goto

\* A request goes on to load only if the list is stale: nobody else is inside,
\* so loadInProg is not what kept it from leaving.
LEMMA ReadFieldsPreserves ==
  ASSUME CacheInv, NEW r \in Request, ReadFields(r)
  PROVE  CacheInv'
  BY DEF ReadFields, Goto

\* The flag goes up in the process that is about to load.
LEMMA MarkLoadingPreserves ==
  ASSUME CacheInv, NEW p \in Process, MarkLoading(p)
  PROVE  CacheInv'
  BY DEF MarkLoading, Goto

\* The load ends, at the place its outcome belongs to.
LEMMA LoadMarketsPreserves ==
  ASSUME CacheInv, NEW p \in Process, LoadMarkets(p)
  PROVE  CacheInv'
  BY DEF LoadMarkets, Goto

\* The flag comes down after a failed load.
LEMMA UnmarkLoadingPreserves ==
  ASSUME CacheInv, NEW p \in Process, UnmarkLoading(p)
  PROVE  CacheInv'
  BY DEF UnmarkLoading, Goto

\* The flag comes down with a new list, which makes the storer the load that
\* everybody under way is about to see end.
LEMMA StorePreserves ==
  ASSUME CacheInv, NEW p \in Process, Store(p)
  PROVE  CacheInv'
  BY DEF Store, Goto

\* The flight ends: whoever was under way saw an attempt end, now or, when the
\* callback found the list fresh, before.
LEMMA LeavePreserves ==
  ASSUME CacheInv, NEW p \in Process, Leave(p)
  PROVE  CacheInv'
  <1>1. /\ pc[p] = "leave" /\ flight = p /\ flight' = NoOne
        /\ result \in {"found", "failed", "empty", "full"} /\ (result = "found" => fresh)
        /\ UNCHANGED <<cache, result, reply>>
    BY DEF Leave
  <1>2. \A q \in Process : q # p => pc[q] \notin Inside
    BY <1>1
  <1>3. \A q \in Process : pc'[q] = IF q = p \/ pc[q] = "wait" THEN AfterDo(q) ELSE pc[q]
    BY DEF Leave
  <1>4. \A q \in Process : pc'[q] \in Places \ (Inside \cup {"wait"})
    BY <1>2, <1>3 DEF AfterDo
  <1>5. /\ saw' \in [Request -> SUBSET Results]
        /\ \A r \in Request : saw[r] \subseteq saw'[r]
        /\ \A r \in Request : Active(r) => result \in saw'[r]
    BY <1>1 DEF Leave
  <1>6. ASSUME NEW r \in Request, Active(r)
        PROVE  SawAttempt(r)'
    <2>1. CASE result \in Attempts
      BY <1>5, <1>6, <2>1
    <2>2. CASE result = "found"
      <3>1. ~(\E q \in Process : pc[q] = "leave" /\ result \in {"empty", "full"})
        BY <2>2
      <3>2. SawAttempt(r)
        BY <1>1, <1>6, <2>2, <3>1 DEF Active
      <3> QED
        BY <1>5, <3>2
    <2> QED
      BY <1>1, <2>1, <2>2
  <1>7. \A r \in Request : pc'[r] # "idle" => SawAttempt(r)'
    <2>1. \A r \in Request : pc'[r] # "idle" => Active(r)
      BY <1>1, <1>3 DEF Active
    <2> QED
      BY <1>6, <2>1
  <1>8. TypeOK'
    <2>1. pc' \in [Process -> Places]
      BY <1>4 DEF Leave
    <2> QED
      BY <1>1, <1>5, <2>1
  <1>9. pc'[Primer] \notin {"idle", "recheck", "fields", "second"}
    BY <1>3 DEF AfterDo
  <1>10. FlagMeansLoading' /\ RequestsLoadOnlyStale' /\ AnswersAfterAnAttempt'
    <2>1. ~cache.loadInProg
      BY <1>1, <1>2
    <2> QED
      BY <1>1, <1>4, <1>5, <2>1
  <1>11. \A q \in Process : pc'[q] \notin Inside /\ flight' # q /\ pc'[q] # "wait"
    BY <1>1, <1>4
  <1> QED
    BY <1>7, <1>8, <1>9, <1>10, <1>11

\* The answer is given by a request that saw an attempt end.
LEMMA SecondSnapshotPreserves ==
  ASSUME CacheInv, NEW r \in Request, SecondSnapshot(r)
  PROVE  CacheInv'
  BY DEF SecondSnapshot, Goto

\* Time makes lists stale, and not one that was just found fresh.
LEMMA ExpirePreserves ==
  ASSUME CacheInv, Expire
  PROVE  CacheInv'
  BY DEF Expire

HIDE CacheAssumption
     DEF CacheInv, TypeOK, FlagMeansLoading, RequestsLoadOnlyStale,
         AnswersAfterAnAttempt, Process, Lists, Ages, Results, Replies, Inside, Places,
         fresh, SawAttempt, Attempts

\* Every step keeps the invariant.
LEMMA CacheInvStep == CacheInv /\ [Next]_vars => CacheInv'
  <1> SUFFICES ASSUME CacheInv, [Next]_vars
               PROVE  CacheInv'
    OBVIOUS
  <1>1. CASE Expire
    BY <1>1, ExpirePreserves
  <1>2. CASE \E r \in Request : FirstSnapshot(r)
    BY <1>2, FirstSnapshotPreserves
  <1>3. CASE \E p \in Process : Step(p)
    <2> PICK p \in Process : Step(p)
      BY <1>3
    <2> QED
      BY EnterPreserves, MarkLoadingPreserves, LoadMarketsPreserves, UnmarkLoadingPreserves,
         StorePreserves, LeavePreserves, RecheckPreserves, ReadFieldsPreserves,
         SecondSnapshotPreserves
      DEF Step
  <1>4. CASE UNCHANGED vars
    BY <1>4
    DEF vars, CacheInv, TypeOK, FlagMeansLoading, RequestsLoadOnlyStale,
        AnswersAfterAnAttempt, fresh, SawAttempt
  <1> QED
    BY <1>1, <1>2, <1>3, <1>4 DEF Next

\* The inductive invariant holds in every reachable state.
THEOREM CacheInvariant == Spec => []CacheInv
  <1>1. Init => CacheInv
    BY CacheInvInit
  <1>2. CacheInv /\ [Next]_vars => CacheInv'
    BY CacheInvStep
  <1> QED
    BY <1>1, <1>2, PTL DEF Spec

\* Types hold for any set of requests.
THEOREM CacheTypeCorrect == Spec => []TypeOK
  BY CacheInvariant, PTL DEF CacheInv

\* Callbacks never overlap, however requests and the priming goroutine arrive.
THEOREM CallbacksNeverOverlap == Spec => []CallbacksDoNotOverlap
  <1>1. CacheInv => CallbacksDoNotOverlap
    BY DEF CacheInv, CallbacksDoNotOverlap
  <1> QED
    BY <1>1, CacheInvariant, PTL

\* The in-progress flag never sticks.
THEOREM FlagNeverSticks == Spec => []FlagMeansLoading
  BY CacheInvariant, PTL DEF CacheInv

\* No request loads a list that is fresh.
THEOREM RequestsNeverLoadFresh == Spec => []RequestsLoadOnlyStale
  BY CacheInvariant, PTL DEF CacheInv

\* No request that found a stale list answers before an attempt has ended.
THEOREM AnswersFollowAnAttempt == Spec => []AnswersAfterAnAttempt
  BY CacheInvariant, PTL DEF CacheInv

\* The list changes only when a load that succeeded replaces it.
THEOREM ListAlwaysSurvives == Spec => ListSurvivesFailures
  <1>1. ASSUME CacheInv, [Next]_vars
        PROVE  [cache'.list # cache.list =>
                  /\ \E p \in Process : pc[p] = "store"
                  /\ cache' = [list |-> result, age |-> "fresh", loadInProg |-> FALSE]]_vars
    BY <1>1
    DEF Next, Step, Expire, FirstSnapshot, Enter, Recheck, ReadFields, MarkLoading, LoadMarkets,
        UnmarkLoading, Store, Leave, SecondSnapshot, Goto, vars, CacheInv, TypeOK, Process
  <1> QED
    BY <1>1, CacheInvariant, PTL DEF Spec, ListSurvivesFailures

=============================================================================
