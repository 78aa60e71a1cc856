------------------------- MODULE StreamSessionsProofs -------------------------
(***************************************************************************)
(* Proofs about StreamSessions for any sessions, requests, exchanges and   *)
(* configurations: on every way out a session gives the pool back what it  *)
(* took, so that the sessions implement ClientPool, and what               *)
(* ClientPoolProofs shows of the pool holds of the sessions.               *)
(***************************************************************************)
EXTENDS StreamSessions, TLAPS

PoolP == INSTANCE ClientPoolProofs WITH owed <- owed, held <- held

-----------------------------------------------------------------------------
(* The pool, as ClientPoolProofs knows it                                  *)

\* Its assumption holds of the sessions.
LEMMA PoolIsFit ==
    /\ Unsupported \subseteq Exchange
    /\ Unspecified \notin Exchange
    /\ NoCreds \notin Creds
    /\ NoClient \notin PoolP!Client
    /\ MaxClients \in Nat
    /\ PoolP!IsFiniteSet(Stream)
  <1>1. PoolP!IsFiniteSet(Stream)
    BY SessionPool DEF Pool!PoolAssumption, Pool!IsFiniteSet, PoolP!IsFiniteSet
  <1>2. NoClient \notin PoolP!Client
    BY SessionPool
    DEF Pool!PoolAssumption, Pool!Client, PoolP!Client, Pool!Serial, PoolP!Serial
  <1> QED
    BY <1>1, <1>2, SessionPool DEF Pool!PoolAssumption

LEMMA SamePoolInit == Pool!Init <=> PoolP!Init
  BY DEF Pool!Init, PoolP!Init, Pool!Absent, PoolP!Absent

LEMMA SamePoolVars == Pool!vars = PoolP!vars
  BY DEF Pool!vars, PoolP!vars

LEMMA SameCardinality == \A S : Pool!Cardinality(S) = PoolP!Cardinality(S)
  BY Zenon DEF Pool!Cardinality, PoolP!Cardinality, Pool!IsFiniteSet, PoolP!IsFiniteSet

LEMMA SamePoolBuild ==
    ASSUME NEW e, NEW cr, NEW c
    PROVE  /\ Pool!Build(e, cr, c) <=> PoolP!Build(e, cr, c)
           /\ Pool!Returnable(e, cr) = PoolP!Returnable(e, cr)
           /\ Pool!InPool(e) <=> PoolP!InPool(e)
           /\ Pool!BuildFails(e) <=> PoolP!BuildFails(e)
  <1>1. Pool!Fresh(e, cr) = PoolP!Fresh(e, cr)
    BY SameCardinality DEF Pool!Fresh, PoolP!Fresh
  <1>2. Pool!Cardinality(live) = PoolP!Cardinality(live)
    BY SameCardinality
  <1> QED
    BY <1>1, <1>2 DEF Pool!Build, PoolP!Build, Pool!Returnable, PoolP!Returnable,
           Pool!InPool, PoolP!InPool, Pool!BuildFails, PoolP!BuildFails,
           Pool!poolVars, PoolP!poolVars

LEMMA SamePoolGetOrCreate ==
    ASSUME NEW e, NEW cr, NEW tracked, NEW c
    PROVE  /\ Pool!GetOrCreate(e, cr, tracked, c) <=> PoolP!GetOrCreate(e, cr, tracked, c)
           /\ Pool!GetOrCreateFails(e) <=> PoolP!GetOrCreateFails(e)
  BY SamePoolBuild
  DEF Pool!GetOrCreate, PoolP!GetOrCreate, Pool!GetOrCreateFails, PoolP!GetOrCreateFails

LEMMA SamePoolNext == Pool!Next => PoolP!Next
  <1>1. ASSUME NEW s \in Stream, NEW e \in Exchange, Pool!Acquire(s, e)
        PROVE  PoolP!Acquire(s, e)
    BY <1>1, SamePoolBuild, SamePoolGetOrCreate
    DEF Pool!Acquire, PoolP!Acquire, Pool!streamVars, PoolP!streamVars,
        Pool!callerVars, PoolP!callerVars
  <1>2. ASSUME NEW s \in Stream, Pool!Release(s)
        PROVE  PoolP!Release(s)
    BY <1>2 DEF Pool!Release, PoolP!Release, Pool!ReleaseEntry, PoolP!ReleaseEntry,
           Pool!InPool, PoolP!InPool, Pool!Absent, PoolP!Absent,
           Pool!callerVars, PoolP!callerVars
  <1>3. ASSUME NEW k \in Caller, NEW e \in Exchange, NEW cr \in Creds \cup {NoCreds},
               Pool!NewClientForExchange(k, e, cr)
        PROVE  PoolP!NewClientForExchange(k, e, cr)
    BY <1>3, SamePoolBuild, SamePoolGetOrCreate
    DEF Pool!NewClientForExchange, PoolP!NewClientForExchange,
        Pool!streamVars, PoolP!streamVars, Pool!callerVars, PoolP!callerVars
  <1>4. ASSUME NEW k \in Caller, Pool!EndCall(k)
        PROVE  PoolP!EndCall(k)
    BY <1>4 DEF Pool!EndCall, PoolP!EndCall, Pool!poolVars, PoolP!poolVars,
           Pool!streamVars, PoolP!streamVars
  <1> QED
    BY <1>1, <1>2, <1>3, <1>4 DEF Pool!Next, PoolP!Next

-----------------------------------------------------------------------------
(* What a step of a session is to the pool                                 *)

\* Where the sessions that have acquired and not released stay such, with the
\* same exchange and client, the pool sees nothing.
LEMMA QuietForThePool ==
    ASSUME UNCHANGED <<clients, live, callVars>>,
           \A t \in Stream :
              /\ pc'[t] \in Streaming <=> pc[t] \in Streaming
              /\ pc[t] \in Streaming => want'[t] = want[t] /\ client'[t] = client[t]
    PROVE  UNCHANGED Pool!vars
  <1>1. owed' = owed
    BY DEF owed
  <1>2. held' = held
    BY DEF held
  <1> QED
    BY <1>1, <1>2 DEF Pool!vars, callVars

\* A handler goes from one place to another and acquires and releases nothing.
LEMMA MovingIsQuiet ==
    ASSUME TypeOK, NEW s \in Stream, NEW from, NEW to \in Places, Goto(s, from, to),
           from \in Streaming <=> to \in Streaming,
           UNCHANGED <<clients, live, callVars, want, client>>
    PROVE  /\ UNCHANGED Pool!vars
           /\ pc' \in [Stream -> Places] /\ pc[s] = from /\ pc'[s] = to
           /\ \A t \in Stream \ {s} : pc'[t] = pc[t]
  <1>1. /\ pc' \in [Stream -> Places] /\ pc[s] = from /\ pc'[s] = to
        /\ \A t \in Stream \ {s} : pc'[t] = pc[t]
    BY DEF TypeOK, Goto
  <1>2. \A t \in Stream : pc'[t] \in Streaming <=> pc[t] \in Streaming
    BY <1>1
  <1> QED
    BY <1>1, <1>2, QuietForThePool

\* A session that starts is an Acquire.
LEMMA StartAcquires ==
    ASSUME TypeOK, NEW s \in Stream, NEW e \in Exchange, Start(s, e)
    PROVE  Pool!Acquire(s, e)
  <1>1. /\ pc \in [Stream -> Places] /\ want \in [Stream -> Exchange \cup {Unspecified}]
        /\ client \in [Stream -> Pool!Client \cup {NoClient}]
        /\ want' = [want EXCEPT ![s] = e] /\ UNCHANGED callVars
    BY DEF TypeOK, Start
  <1>2. pc[s] = "closed"
    BY DEF Start, Goto
  <1>3. owed[s] = Unspecified
    BY <1>2 DEF owed, Streaming
  <1>4. CASE \E c \in Pool!Returnable(e, NoCreds) :
                /\ Pool!GetOrCreate(e, NoCreds, 1, c)
                /\ Goto(s, "closed", IF c = NoClient THEN "poll" ELSE "check")
                /\ client' = [client EXCEPT ![s] = c]
    <2> PICK c \in Pool!Returnable(e, NoCreds) :
           /\ Pool!GetOrCreate(e, NoCreds, 1, c)
           /\ Goto(s, "closed", IF c = NoClient THEN "poll" ELSE "check")
           /\ client' = [client EXCEPT ![s] = c]
      BY <1>4
    <2>1. PICK to \in Streaming : pc' = [pc EXCEPT ![s] = to]
      BY DEF Goto, Streaming
    <2>2. owed' = [owed EXCEPT ![s] = e]
      BY <1>1, <2>1 DEF owed
    <2>3. held' = [held EXCEPT ![s] = c]
      BY <1>1, <2>1 DEF held
    <2> QED
      BY <1>1, <1>3, <2>2, <2>3 DEF Pool!Acquire, Pool!callerVars, callVars
  <1>5. CASE /\ Pool!GetOrCreateFails(e) /\ Goto(s, "closed", "refuse")
             /\ client' = [client EXCEPT ![s] = NoClient]
    <2>1. pc' = [pc EXCEPT ![s] = "refuse"]
      BY <1>5 DEF Goto
    <2>2. owed' = owed
      BY <1>1, <1>2, <2>1 DEF owed, Streaming
    <2>3. held' = held
      BY <1>1, <1>2, <1>5, <2>1 DEF held, Streaming
    <2> QED
      BY <1>1, <1>3, <1>5, <2>2, <2>3
      DEF Pool!Acquire, Pool!streamVars, Pool!callerVars, callVars
  <1> QED
    BY <1>4, <1>5 DEF Start

\* The deferred call is a Release.
LEMMA ReleaseReleases ==
    ASSUME TypeOK, NEW s \in Stream, Release(s)
    PROVE  Pool!Release(s)
  <1>1. /\ pc \in [Stream -> Places] /\ pc[s] = "release"
        /\ pc' = [pc EXCEPT ![s] = "close"]
        /\ UNCHANGED <<want, callVars>> /\ client' = [client EXCEPT ![s] = NoClient]
        /\ client \in [Stream -> Pool!Client \cup {NoClient}]
        /\ want[s] # Unspecified
    BY DEF TypeOK, Release, Goto
  <1>2. owed[s] = want[s]
    BY <1>1 DEF owed, Streaming
  <1>3. Pool!ReleaseEntry(owed[s])
    BY <1>2 DEF Release
  <1>4. owed' = [owed EXCEPT ![s] = Unspecified]
    BY <1>1 DEF owed, Streaming
  <1>5. held' = [held EXCEPT ![s] = NoClient]
    BY <1>1 DEF held, Streaming
  <1> QED
    BY <1>1, <1>2, <1>3, <1>4, <1>5 DEF Pool!Release, Pool!callerVars, callVars

-----------------------------------------------------------------------------
(* What a step preserves                                                   *)

\* A session that has acquired goes on; only one that leaves reports an error.
LEMMA HandlingPreserves ==
    ASSUME SessionInv, NEW s \in Stream,
           NEW from \in Streaming \ {"release"}, NEW to \in Streaming, Goto(s, from, to),
           UNCHANGED <<clients, live, callVars, feed, want, client, ctxDone, peer, reader,
                       up, setting>>,
           NEW m \in Sent, sent' = [sent EXCEPT ![s] = m],
           m.errors # 0 => to = "release" /\ m.errors = 1 /\ m.last = "error"
    PROVE  SessionInv' /\ UNCHANGED Pool!vars
  <1>1. TypeOK
    BY DEF SessionInv
  <1>2. to \in Places /\ from # "closed" /\ to # "closed"
    BY DEF Places, Streaming
  <1>3. /\ UNCHANGED Pool!vars
        /\ pc' \in [Stream -> Places] /\ pc[s] = from /\ pc'[s] = to
        /\ \A t \in Stream \ {s} : pc'[t] = pc[t]
    BY <1>1, <1>2, MovingIsQuiet
  <1>4. /\ sent' \in [Stream -> Sent] /\ sent'[s] = m
        /\ \A t \in Stream \ {s} : sent'[t] = sent[t]
    BY <1>1 DEF TypeOK
  <1>5. TypeOK'
    BY <1>1, <1>2, <1>3, <1>4 DEF TypeOK
  <1>6. m.errors \in Nat
    BY DEF Sent
  <1>7. NothingAfterError'
    BY <1>4, <1>6 DEF SessionInv, NothingAfterError
  <1>8. SessionInv'
    BY <1>3, <1>4, <1>5, <1>7 DEF SessionInv
  <1> QED
    BY <1>3, <1>8

\* So does one that only moves.
LEMMA MovingPreserves ==
    ASSUME SessionInv, NEW s \in Stream,
           NEW from \in Streaming \ {"release"}, NEW to \in Streaming, Goto(s, from, to),
           OnlyMoves
    PROVE  SessionInv' /\ UNCHANGED Pool!vars
  <1>1. TypeOK /\ pc[s] = from
    BY DEF SessionInv, Goto
  <1>2. sent[s] \in Sent /\ sent' = [sent EXCEPT ![s] = sent[s]]
    BY <1>1 DEF TypeOK, OnlyMoves
  <1>3. sent[s].errors = 0
    BY <1>1 DEF SessionInv, Streaming
  <1> QED
    BY <1>2, <1>3, HandlingPreserves DEF OnlyMoves

LEMMA DeliverPreserves ==
    ASSUME SessionInv, NEW s \in Stream,
           NEW from \in Streaming \ {"release"}, NEW next \in Streaming,
           Deliver(s, from, next)
    PROVE  SessionInv' /\ UNCHANGED Pool!vars
  <1>1. UNCHANGED <<clients, live, callVars, feed, want, client, ctxDone, peer, reader,
                    up, setting>>
    BY DEF Deliver
  <1>2. CASE /\ Goto(s, from, next)
             /\ sent' = [sent EXCEPT ![s] = [last |-> "update", errors |-> sent[s].errors]]
    <2>1. TypeOK /\ pc[s] = from
      BY <1>2 DEF SessionInv, Goto
    <2>2. sent[s].errors = 0
      BY <2>1 DEF SessionInv, Streaming
    <2> DEFINE m == [last |-> "update", errors |-> sent[s].errors]
    <2>3. m \in Sent /\ m.errors = 0
      BY <2>2 DEF Sent
    <2> HIDE DEF m
    <2>4. sent' = [sent EXCEPT ![s] = m]
      BY <1>2 DEF m
    <2> QED
      BY <1>1, <1>2, <2>3, <2>4, HandlingPreserves
  <1>3. CASE Goto(s, from, "release") /\ UNCHANGED sent
    BY <1>1, <1>3, MovingPreserves DEF OnlyMoves, Streaming
  <1> QED
    BY <1>2, <1>3 DEF Deliver

\* The relaying and polling steps.
LEMMA RelayingPreserves ==
    ASSUME SessionInv, NEW s \in Stream,
           \/ CheckContext(s) \/ Watch(s) \/ Write(s) \/ Fetch(s) \/ PollWrite(s)
           \/ SelectDone(s) \/ SelectTick(s) \/ Fail(s)
    PROVE  SessionInv' /\ UNCHANGED Pool!vars
  <1>1. CASE CheckContext(s)
    BY <1>1, MovingPreserves DEF CheckContext, Streaming
  <1>2. CASE Watch(s)
    BY <1>2, MovingPreserves DEF Watch, Streaming
  <1>3. CASE Write(s)
    BY <1>3, DeliverPreserves DEF Write, Streaming
  <1>4. CASE Fetch(s)
    BY <1>4, MovingPreserves DEF Fetch, Streaming
  <1>5. CASE PollWrite(s)
    BY <1>5, DeliverPreserves DEF PollWrite, Streaming
  <1>6. CASE SelectDone(s) \/ SelectTick(s)
    BY <1>6, MovingPreserves DEF SelectDone, SelectTick, Streaming
  <1>7. CASE Fail(s)
    <2>1. TypeOK /\ pc[s] = "fail"
      BY <1>7 DEF SessionInv, Fail, Report, Goto
    <2>2. sent[s].errors = 0
      BY <2>1 DEF SessionInv
    <2> DEFINE m == [last |-> "error", errors |-> sent[s].errors + 1]
    <2>3. m \in Sent /\ m.errors = 1 /\ m.last = "error"
      BY <2>2 DEF Sent
    <2> HIDE DEF m
    <2>4. sent' = [sent EXCEPT ![s] = m]
      BY <1>7 DEF m, Fail, Report
    <2> QED
      BY <1>7, <2>3, <2>4, HandlingPreserves DEF Fail, Report, Streaming
  <1> QED
    BY <1>1, <1>2, <1>3, <1>4, <1>5, <1>6, <1>7

\* Polling starts, is refused, or panics.
LEMMA StartPollingPreserves ==
    ASSUME SessionInv, NEW s \in Stream, StartPolling(s)
    PROVE  SessionInv' /\ UNCHANGED Pool!vars
  <1>1. CASE \E to \in {"fail", "fetch", "release"} : Goto(s, "poll", to) /\ OnlyMoves
    BY <1>1, MovingPreserves DEF Streaming
  <1>2. CASE /\ up' = FALSE
             /\ UNCHANGED <<clients, live, callVars, pc, feed, want, client, ctxDone,
                            peer, reader, sent, setting>>
    <2>1. UNCHANGED Pool!vars
      BY <1>2, QuietForThePool
    <2>2. SessionInv'
      BY <1>2 DEF SessionInv, TypeOK, NothingAfterError
    <2> QED
      BY <2>1, <2>2
  <1> QED
    BY <1>1, <1>2 DEF StartPolling

\* A session that got no client, or has given it back, leaves.
LEMMA LeavingPreserves ==
    ASSUME SessionInv, NEW s \in Stream, Refuse(s) \/ Close(s)
    PROVE  SessionInv' /\ UNCHANGED Pool!vars
  <1>1. TypeOK
    BY DEF SessionInv
  <1>2. CASE Refuse(s)
    <2> DEFINE m == [last |-> "error", errors |-> sent[s].errors + 1]
    <2>1. /\ Goto(s, "refuse", "close") /\ sent' = [sent EXCEPT ![s] = m]
          /\ UNCHANGED <<clients, live, callVars, feed, want, client, ctxDone, peer,
                         reader, up, setting>>
      BY <1>2 DEF Refuse, Report
    <2>2. /\ UNCHANGED Pool!vars
          /\ pc' \in [Stream -> Places] /\ pc[s] = "refuse" /\ pc'[s] = "close"
          /\ \A t \in Stream \ {s} : pc'[t] = pc[t]
      BY <1>1, <2>1, MovingIsQuiet DEF Streaming, Places
    <2>6. m \in Sent /\ m.errors = 1 /\ m.last = "error"
      BY <2>2 DEF SessionInv, Sent
    <2> HIDE DEF m
    <2>3. /\ sent' \in [Stream -> Sent] /\ sent'[s] = m
          /\ \A t \in Stream \ {s} : sent'[t] = sent[t]
      BY <1>1, <2>1, <2>6 DEF TypeOK
    <2>4. TypeOK'
      BY <1>1, <2>1, <2>2, <2>3 DEF TypeOK
    <2>5. SessionInv'
      BY <2>1, <2>2, <2>3, <2>4, <2>6 DEF SessionInv, NothingAfterError, Streaming
    <2> QED
      BY <2>2, <2>5
  <1>3. CASE Close(s)
    <2>1. /\ pc[s] = "close" /\ pc' = [pc EXCEPT ![s] = "closed"]
          /\ want' = [want EXCEPT ![s] = Unspecified]
          /\ UNCHANGED <<clients, live, callVars, client, reader, sent, up, setting>>
      BY <1>3 DEF Close, Goto
    <2>2. \A t \in Stream : /\ pc'[t] \in Streaming <=> pc[t] \in Streaming
                            /\ pc[t] \in Streaming => want'[t] = want[t]
      BY <1>1, <2>1 DEF TypeOK, Streaming
    <2>3. UNCHANGED Pool!vars
      BY <2>1, <2>2, QuietForThePool
    <2>4. TypeOK'
      BY <1>1, <1>3, <2>1 DEF TypeOK, Close, Places, Feeds
    <2>5. SessionInv'
      BY <1>1, <2>1, <2>2, <2>4 DEF SessionInv, TypeOK, NothingAfterError
    <2> QED
      BY <2>3, <2>5
  <1> QED
    BY <1>2, <1>3

LEMMA ReleasePreserves ==
    ASSUME SessionInv, NEW s \in Stream, Release(s)
    PROVE  SessionInv'
  <1>1. /\ TypeOK /\ pc[s] = "release" /\ pc' = [pc EXCEPT ![s] = "close"]
        /\ client' = [client EXCEPT ![s] = NoClient]
        /\ UNCHANGED <<feed, want, ctxDone, peer, reader, sent, up, setting>>
    BY DEF SessionInv, Release, Goto
  <1>2. TypeOK'
    BY <1>1 DEF TypeOK, Places
  <1> QED
    BY <1>1, <1>2 DEF SessionInv, TypeOK, NothingAfterError

\* A session starts with a client of the pool, or with none.
LEMMA StartPreserves ==
    ASSUME SessionInv, NEW s \in Stream, NEW e \in Exchange, Start(s, e),
           client' \in [Stream -> Pool!Client \cup {NoClient}]
    PROVE  SessionInv'
  <1>1. TypeOK /\ pc[s] = "closed"
    BY DEF SessionInv, Start, Goto
  <1>2. PICK to \in Streaming \cup {"refuse"} :
           /\ pc' = [pc EXCEPT ![s] = to]
           /\ to = "refuse" => client' = [client EXCEPT ![s] = NoClient]
    BY DEF Start, Goto, Streaming
  <1>3. \A t \in Stream \ {s} : client'[t] = client[t]
    BY <1>1 DEF Start, TypeOK
  <1>4. e # Unspecified
    BY PoolIsFit
  <1>5. to \in Places /\ to # "closed"
    BY DEF Places, Streaming
  <1>7. sent' = [sent EXCEPT ![s] = Nothing] /\ Nothing \in Sent /\ Nothing.errors = 0
    BY DEF Start, Nothing, Sent
  <1>8. sent' \in [Stream -> Sent]
    BY <1>1, <1>7 DEF TypeOK
  <1>9. /\ want' = [want EXCEPT ![s] = e] /\ ctxDone' = [ctxDone EXCEPT ![s] = FALSE]
        /\ peer' = [peer EXCEPT ![s] = TRUE] /\ reader' = [reader EXCEPT ![s] = TRUE]
        /\ \E f \in Feeds : feed' = [feed EXCEPT ![s] = f]
        /\ UNCHANGED <<up, setting>>
    BY DEF Start
  <1>6. TypeOK'
    BY <1>1, <1>2, <1>4, <1>5, <1>8, <1>9 DEF TypeOK
  <1> QED
    BY <1>1, <1>2, <1>3, <1>6, <1>7 DEF SessionInv, TypeOK, NothingAfterError, Streaming

\* The peers, the readers and the requests touch no session's client or place.
LEMMA OthersPreserve ==
    ASSUME SessionInv,
           \/ \E s \in Stream : PeerLeaves(s) \/ ReaderEnds(s)
           \/ UNCHANGED sessionVars
    PROVE  SessionInv'
  <1>1. ASSUME NEW s \in Stream, PeerLeaves(s)
        PROVE  SessionInv'
    BY <1>1 DEF SessionInv, TypeOK, NothingAfterError, PeerLeaves
  <1>2. ASSUME NEW s \in Stream, ReaderEnds(s)
        PROVE  SessionInv'
    BY <1>2 DEF SessionInv, TypeOK, NothingAfterError, ReaderEnds
  <1>3. CASE UNCHANGED sessionVars
    BY <1>3 DEF SessionInv, TypeOK, NothingAfterError, sessionVars
  <1> QED
    BY <1>1, <1>2, <1>3

-----------------------------------------------------------------------------
(* The invariant and the theorems                                          *)

\* Whatever the sessions do, the pool sees an operation of its own, or nothing.
LEMMA StepsAreThePools ==
    ASSUME SessionInv, [Next]_vars
    PROVE  [Pool!Next]_(Pool!vars)
  <1>1. TypeOK
    BY DEF SessionInv
  <1>2. ASSUME NEW s \in Stream, NEW e \in Exchange, Start(s, e)
        PROVE  Pool!Next
    BY <1>1, <1>2, StartAcquires DEF Pool!Next
  <1>3. ASSUME NEW s \in Stream, Release(s)
        PROVE  Pool!Next
    BY <1>1, <1>3, ReleaseReleases DEF Pool!Next
  <1>4. ASSUME NEW s \in Stream, Step(s), ~Release(s)
        PROVE  UNCHANGED Pool!vars
    BY <1>4, RelayingPreserves, StartPollingPreserves, LeavingPreserves
    DEF Step, PriceWebSocket, OrderBookWebSocket, StreamCurrentPrice, Handler
  <1>5. ASSUME NEW s \in Stream, PeerLeaves(s) \/ ReaderEnds(s)
        PROVE  UNCHANGED Pool!vars
    BY <1>5, QuietForThePool DEF PeerLeaves, ReaderEnds
  <1>6. ASSUME NEW k \in Caller, Request(k)
        PROVE  Pool!Next
    BY <1>6 DEF Request, Pool!Next
  <1>7. CASE UNCHANGED vars
    BY <1>7, QuietForThePool DEF vars, callVars, sessionVars
  <1> QED
    BY <1>2, <1>3, <1>4, <1>5, <1>6, <1>7 DEF Next, Died

LEMMA StepsKeepThePool ==
    ASSUME SessionInv, PoolP!PoolInv, [Next]_vars
    PROVE  PoolP!PoolInv'
  <1>1. [PoolP!Next]_(PoolP!vars)
    BY StepsAreThePools, SamePoolNext, SamePoolVars DEF Pool!vars, PoolP!vars
  <1> QED
    BY <1>1, PoolIsFit, PoolP!PoolInvStep

LEMMA SessionInvInit == Init => SessionInv /\ Pool!Init
  <1>1. Nothing \in Sent /\ Nothing.errors = 0
    BY DEF Nothing, Sent
  <1> QED
    BY <1>1 DEF Init, SessionInv, TypeOK, NothingAfterError, Pool!Init, owed, held,
           Places, Streaming, Feeds

LEMMA SessionInvStep ==
    ASSUME SessionInv, PoolP!PoolInv, [Next]_vars
    PROVE  SessionInv'
  <1>1. ASSUME NEW s \in Stream, NEW e \in Exchange, Start(s, e)
        PROVE  SessionInv'
    <2>1. held' \in [Stream -> Pool!Client \cup {NoClient}]
      BY StepsKeepThePool
      DEF PoolP!PoolInv, PoolP!TypeOK, Pool!Client, PoolP!Client, Pool!Serial, PoolP!Serial
    <2>2. /\ pc \in [Stream -> Places]
          /\ client \in [Stream -> Pool!Client \cup {NoClient}]
      BY DEF SessionInv, TypeOK
    <2>3. \/ pc' = [pc EXCEPT ![s] = "refuse"] /\ client' = [client EXCEPT ![s] = NoClient]
          \/ /\ \E to \in Streaming : pc' = [pc EXCEPT ![s] = to]
             /\ \E c : client' = [client EXCEPT ![s] = c]
      BY <1>1 DEF Start, Goto, Streaming
    <2>4. ASSUME \E to \in Streaming : pc' = [pc EXCEPT ![s] = to],
                 \E c : client' = [client EXCEPT ![s] = c]
          PROVE  client' \in [Stream -> Pool!Client \cup {NoClient}]
      <3>1. pc'[s] \in Streaming
        BY <2>2, <2>4
      <3>2. client'[s] = held'[s]
        BY <3>1 DEF held
      <3> QED
        BY <2>1, <2>2, <2>4, <3>2
    <2>5. client' \in [Stream -> Pool!Client \cup {NoClient}]
      BY <2>2, <2>3, <2>4
    <2> QED
      BY <1>1, <2>5, StartPreserves
  <1>2. ASSUME NEW s \in Stream, Step(s)
        PROVE  SessionInv'
    BY <1>2, RelayingPreserves, StartPollingPreserves, LeavingPreserves, ReleasePreserves
    DEF Step, PriceWebSocket, OrderBookWebSocket, StreamCurrentPrice, Handler
  <1>3. ASSUME NEW s \in Stream, PeerLeaves(s) \/ ReaderEnds(s)
        PROVE  SessionInv'
    BY <1>3, OthersPreserve
  <1>4. ASSUME NEW k \in Caller, Request(k)
        PROVE  SessionInv'
    BY <1>4, OthersPreserve DEF Request
  <1>5. CASE UNCHANGED vars
    BY <1>5, OthersPreserve DEF vars
  <1> QED
    BY <1>1, <1>2, <1>3, <1>4, <1>5 DEF Next, Died

\* The sessions' invariant, and with it the pool's.
THEOREM SessionInvariant == Spec => [](SessionInv /\ PoolP!PoolInv)
  <1>1. Init => SessionInv /\ PoolP!PoolInv
    BY SessionInvInit, SamePoolInit, PoolIsFit, PoolP!PoolInvInit
  <1>2. SessionInv /\ PoolP!PoolInv /\ [Next]_vars => (SessionInv /\ PoolP!PoolInv)'
    BY SessionInvStep, StepsKeepThePool
  <1> QED
    BY <1>1, <1>2, PTL DEF Spec

\* Types; a session at work knows its exchange, and one whose reader has ended
\* knows it is over.
THEOREM SessionTypes == Spec => []TypeOK
  <1>1. SessionInv => TypeOK
    BY DEF SessionInv
  <1> QED
    BY <1>1, SessionInvariant, PTL

\* Every way a session can end gives the pool back exactly what Acquire took:
\* the sessions and requests implement ClientPool.
THEOREM SessionsAlwaysUseThePool == Spec => SessionsUseThePool
  <1>1. Init => Pool!Init
    BY SessionInvInit
  <1>2. SessionInv /\ [Next]_vars => [Pool!Next]_(Pool!vars)
    BY StepsAreThePools
  <1> QED
    BY <1>1, <1>2, SessionInvariant, PTL DEF Spec, SessionsUseThePool, Pool!Spec

\* A session tells its peer of one error at most, and of nothing after it.
THEOREM NothingEverAfterError == Spec => []NothingAfterError
  <1>1. SessionInv => NothingAfterError
    BY DEF SessionInv
  <1> QED
    BY <1>1, SessionInvariant, PTL

\* So what is proved of the pool holds with these handlers above it: its count
\* is that of the sessions that are between Acquire and Release, they all use
\* the client that is in it, and no credentials get into one.
THEOREM PoolIsRightUnderSessions ==
    Spec => [](PoolP!RefsCountHolders /\ PoolP!HoldersUsePooledClient
               /\ PoolP!CredentialsStayPrivate)
  <1>1. PoolP!PoolInv => PoolP!RefsCountHolders /\ PoolP!HoldersUsePooledClient
                         /\ PoolP!CredentialsStayPrivate
    BY DEF PoolP!PoolInv
  <1> QED
    BY <1>1, SessionInvariant, PTL

==============================================================================
