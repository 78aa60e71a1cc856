-------------------------- MODULE ClientPoolProofs --------------------------
(***************************************************************************)
(* Proofs about ClientPool for any sets of exchanges, streams, callers and *)
(* credentials: its invariants, and that it implements SharedClient.       *)
(***************************************************************************)
EXTENDS ClientPool, FiniteSetTheorems, TLAPS

-----------------------------------------------------------------------------
(* The streams that owe a Release, as a set that grows and shrinks         *)

\* The streams of an exchange are finitely many, so their number is one.
LEMMA HoldersFinite ==
    ASSUME NEW e
    PROVE  /\ IsFiniteSet(Holders(e))
           /\ Cardinality(Holders(e)) \in Nat
  <1>1. Holders(e) \in SUBSET Stream
    BY DEF Holders
  <1> QED
    BY <1>1, PoolAssumption, FS_Subset, FS_CardinalityType

\* A stream that starts to owe a Release for an exchange adds one to its
\* holders and none to those of another exchange.
LEMMA HoldersAfterTake ==
    ASSUME TypeOK, NEW s \in Stream, NEW e \in Exchange,
           owed[s] = Unspecified, owed' = [owed EXCEPT ![s] = e]
    PROVE  /\ Holders(e)' = Holders(e) \cup {s}
           /\ Cardinality(Holders(e)') = Cardinality(Holders(e)) + 1
           /\ \A x \in Exchange \ {e} : Holders(x)' = Holders(x)
  <1>1. Holders(e)' = Holders(e) \cup {s}
    BY DEF Holders, TypeOK
  <1>2. s \notin Holders(e)
    BY PoolAssumption DEF Holders
  <1>3. \A x \in Exchange \ {e} : Holders(x)' = Holders(x)
    BY PoolAssumption DEF Holders, TypeOK
  <1> QED
    BY <1>1, <1>2, <1>3, HoldersFinite, FS_AddElement

\* A stream that stops owing takes itself away from its exchange's holders only.
LEMMA HoldersAfterDrop ==
    ASSUME TypeOK, NEW s \in Stream, NEW e \in Exchange,
           owed[s] = e, owed' = [owed EXCEPT ![s] = Unspecified]
    PROVE  /\ Holders(e)' = Holders(e) \ {s}
           /\ Cardinality(Holders(e)') = Cardinality(Holders(e)) - 1
           /\ \A x \in Exchange \ {e} : Holders(x)' = Holders(x)
  <1>1. Holders(e)' = Holders(e) \ {s}
    BY PoolAssumption DEF Holders, TypeOK
  <1>2. s \in Holders(e)
    BY DEF Holders
  <1>3. \A x \in Exchange \ {e} : Holders(x)' = Holders(x)
    BY PoolAssumption DEF Holders, TypeOK
  <1> QED
    BY <1>1, <1>2, <1>3, HoldersFinite, FS_RemoveElement

-----------------------------------------------------------------------------
(* What the pool's operations return and leave behind                      *)

\* A new client has the exchange and credentials it was built for.
LEMMA BuildReturns ==
    ASSUME PoolInv, NEW e \in Exchange, NEW cr \in Creds \cup {NoCreds},
           NEW c, Build(e, cr, c)
    PROVE  /\ live' \subseteq Client /\ IsFiniteSet(live')
           /\ e \in Unsupported => c = NoClient
           /\ e \notin Unsupported => /\ c \in Client
                                      /\ c.exchange = e
                                      /\ c.creds = cr
  <1>1. IsFiniteSet(live) /\ live \subseteq Client /\ Cardinality(live) \in Nat
    BY FS_CardinalityType DEF PoolInv, TypeOK
  <1>2. CASE e \in Unsupported
    BY <1>1, <1>2 DEF Build
  <1>3. CASE e \notin Unsupported
    <2>1. c = Fresh(e, cr) /\ live' = live \cup {c} /\ Cardinality(live) < MaxClients
      BY <1>3 DEF Build
    <2>2. Cardinality(live) + 1 \in Serial
      BY <1>1, <2>1, PoolAssumption DEF Serial
    <2>3. c \in Client /\ c.exchange = e /\ c.creds = cr
      BY <2>1, <2>2 DEF Fresh, Client
    <2>4. IsFiniteSet(live')
      BY <1>1, <2>1, FS_AddElement
    <2> QED
      BY <1>1, <1>3, <2>1, <2>3, <2>4
  <1> QED
    BY <1>2, <1>3

\* getOrCreate on behalf of a request without credentials: an unsupported
\* exchange changes nothing; a supported one ends with the entry holding the
\* client returned, anonymous and of that exchange, its count up by tracked,
\* and the same client as before if the exchange was in the pool.
LEMMA GetOrCreateReturns ==
    ASSUME PoolInv, NEW e \in Exchange, NEW tracked \in {0, 1}, NEW c,
           GetOrCreate(e, NoCreds, tracked, c)
    PROVE  /\ live' \subseteq Client /\ IsFiniteSet(live')
           /\ clients' \in [Exchange -> ClientRef \cup {Absent}]
           /\ \A x \in Exchange \ {e} : clients'[x] = clients[x]
           /\ e \in Unsupported => c = NoClient /\ clients'[e] = clients[e]
           /\ e \notin Unsupported =>
                 /\ c \in Client /\ c.exchange = e /\ c.creds = NoCreds
                 /\ clients'[e] = [client |-> c, refs |-> clients[e].refs + tracked]
                 /\ InPool(e) => c = clients[e].client
  <1>0. /\ clients \in [Exchange -> ClientRef \cup {Absent}]
        /\ clients[e].refs \in Nat
        /\ live \subseteq Client /\ IsFiniteSet(live)
    BY DEF PoolInv, TypeOK, ClientRef, Absent
  <1>1. CASE InPool(e)
    <2>1. /\ clients[e] \in ClientRef
          /\ clients[e].client.exchange = e
          /\ clients[e].client.creds = NoCreds
          /\ e \notin Unsupported
      BY <1>0, <1>1 DEF PoolInv, CredentialsStayPrivate, InPool, Absent
    <2>2. /\ c = clients[e].client
          /\ clients' = [clients EXCEPT ![e].refs = @ + tracked]
          /\ UNCHANGED live
      BY <1>1 DEF GetOrCreate
    <2>3. clients'[e] = [client |-> c, refs |-> clients[e].refs + tracked]
      BY <1>0, <2>1, <2>2 DEF ClientRef
    <2> QED
      BY <1>0, <1>1, <2>1, <2>2, <2>3 DEF ClientRef
  <1>2. CASE ~InPool(e)
    <2>1. /\ Build(e, NoCreds, c)
          /\ clients' = IF c = NoClient THEN clients
                        ELSE [clients EXCEPT ![e] = [client |-> c, refs |-> tracked]]
      BY <1>2 DEF GetOrCreate
    <2>2. /\ live' \subseteq Client /\ IsFiniteSet(live')
          /\ e \in Unsupported => c = NoClient
          /\ e \notin Unsupported =>
                c \in Client /\ c.exchange = e /\ c.creds = NoCreds
      BY <2>1, BuildReturns
    <2>3. clients[e] = Absent /\ clients[e].refs = 0
      BY <1>0, <1>2, PoolAssumption DEF InPool, ClientRef, Absent
    <2>4. CASE e \in Unsupported
      BY <1>0, <2>1, <2>2, <2>4
    <2>5. CASE e \notin Unsupported
      <3>1. c \in Client /\ c # NoClient
        BY <2>2, <2>5, PoolAssumption
      <3>2. clients' = [clients EXCEPT ![e] = [client |-> c, refs |-> tracked]]
        BY <2>1, <3>1
      <3>3. [client |-> c, refs |-> tracked] \in ClientRef
        BY <3>1 DEF ClientRef
      <3> QED
        BY <1>0, <1>2, <2>2, <2>3, <2>5, <3>1, <3>2, <3>3
    <2> QED
      BY <2>4, <2>5
  <1> QED
    BY <1>1, <1>2

-----------------------------------------------------------------------------
(* PoolInv is inductive                                                    *)

\* Nothing is pooled, held or owed at first.
LEMMA PoolInvInit == Init => PoolInv
  <1> SUFFICES ASSUME Init PROVE PoolInv
    OBVIOUS
  <1> USE PoolAssumption DEF Init
  <1>1. TypeOK
    BY DEF TypeOK
  <1>2. \A e \in Exchange : ~InPool(e) /\ Holders(e) = {}
    BY DEF InPool, Absent, Holders
  <1>3. IsFiniteSet(live)
    BY FS_EmptySet
  <1> QED
    BY <1>1, <1>2, <1>3
    DEF PoolInv, RefsCountHolders, HoldersUsePooledClient, CredentialsStayPrivate

\* An Acquire that returns a client, nil or an error keeps the invariant.
LEMMA AcquirePreserves ==
    ASSUME PoolInv, NEW s \in Stream, NEW e \in Exchange, Acquire(s, e)
    PROVE  PoolInv'
  <1> USE PoolAssumption
  <1>0. TypeOK
    BY DEF PoolInv
  <1>1. CASE GetOrCreateFails(e) /\ UNCHANGED streamVars
    <2>1. UNCHANGED vars
      BY <1>1 DEF Acquire, GetOrCreateFails, BuildFails, poolVars, streamVars,
                  callerVars, vars
    <2> QED
      BY <2>1 DEF PoolInv, TypeOK, RefsCountHolders, HoldersUsePooledClient,
                  CredentialsStayPrivate, InPool, Holders, vars
  <1>2. ASSUME NEW c \in Returnable(e, NoCreds),
               GetOrCreate(e, NoCreds, 1, c),
               owed' = [owed EXCEPT ![s] = e],
               held' = [held EXCEPT ![s] = c]
        PROVE  PoolInv'
    <2>0. owed[s] = Unspecified /\ UNCHANGED callerVars
      BY DEF Acquire
    <2>1. /\ live' \subseteq Client /\ IsFiniteSet(live')
          /\ clients' \in [Exchange -> ClientRef \cup {Absent}]
          /\ \A x \in Exchange \ {e} : clients'[x] = clients[x]
          /\ e \in Unsupported => c = NoClient /\ clients'[e] = clients[e]
          /\ e \notin Unsupported =>
                /\ c \in Client /\ c.exchange = e /\ c.creds = NoCreds
                /\ clients'[e] = [client |-> c, refs |-> clients[e].refs + 1]
                /\ InPool(e) => c = clients[e].client
      BY <1>2, GetOrCreateReturns
    <2>2. /\ Holders(e)' = Holders(e) \cup {s}
          /\ Cardinality(Holders(e)') = Cardinality(Holders(e)) + 1
          /\ \A x \in Exchange \ {e} : Holders(x)' = Holders(x)
      BY <1>0, <1>2, <2>0, HoldersAfterTake
    <2>3. c \in Client \cup {NoClient}
      BY <2>1
    <2>4. TypeOK'
      BY <1>0, <1>2, <2>0, <2>1, <2>3 DEF TypeOK, callerVars
    <2>5. \A x \in Exchange \ {e} : InPool(x)' <=> InPool(x)
      BY <2>1 DEF InPool
    <2>6. e \notin Unsupported => InPool(e)'
      BY <2>1 DEF InPool
    <2>7. e \in Unsupported => ~InPool(e)'
      BY <2>1 DEF InPool, PoolInv
    <2>8. e \notin Unsupported /\ ~InPool(e) => Holders(e) = {} /\ clients[e].refs = 0
      BY <1>0 DEF PoolInv, HoldersUsePooledClient, TypeOK, InPool, ClientRef, Absent
    <2>9. RefsCountHolders'
      <3> SUFFICES ASSUME NEW x \in Exchange, InPool(x)'
                   PROVE  clients'[x].refs = Cardinality(Holders(x)')
        BY DEF RefsCountHolders
      <3>1. CASE x # e
        BY <2>1, <2>2, <2>5, <3>1 DEF PoolInv, RefsCountHolders
      <3>2. CASE x = e
        <4>1. clients'[e].refs = clients[e].refs + 1
          BY <2>1, <2>7, <3>2
        <4>2. clients[e].refs = Cardinality(Holders(e))
          BY <2>7, <2>8, <3>2, FS_EmptySet DEF PoolInv, RefsCountHolders
        <4> QED
          BY <2>2, <3>2, <4>1, <4>2
      <3> QED
        BY <3>1, <3>2
    <2>10. \A t \in Stream : held'[t] = IF t = s THEN c ELSE held[t]
      BY <1>0, <1>2 DEF TypeOK
    <2>11. HoldersUsePooledClient'
      <3> SUFFICES ASSUME NEW x \in Exchange \ Unsupported, NEW t \in Holders(x)'
                   PROVE  /\ held'[t] = clients'[x].client
                          /\ held'[t] \in Client
                          /\ held'[t].exchange = x
        BY DEF HoldersUsePooledClient
      <3>1. CASE x # e
        <4>1. t \in Holders(x) /\ t # s
          BY <2>0, <2>2, <3>1 DEF Holders
        <4> QED
          BY <2>1, <2>10, <3>1, <4>1 DEF PoolInv, HoldersUsePooledClient, Holders
      <3>2. CASE x = e /\ t = s
        BY <2>1, <2>10, <3>2 DEF Holders
      <3>3. CASE x = e /\ t # s
        <4>1. t \in Holders(e) /\ t \in Stream
          BY <2>2, <3>3 DEF Holders
        <4>2. InPool(e)
          BY <2>8, <3>3, <4>1
        <4>3. held[t] = clients[e].client /\ held[t] \in Client /\ held[t].exchange = e
          BY <3>3, <4>1 DEF PoolInv, HoldersUsePooledClient
        <4> QED
          BY <2>1, <2>10, <3>3, <4>1, <4>2, <4>3
      <3> QED
        BY <3>1, <3>2, <3>3
    <2>12. CredentialsStayPrivate'
      <3>1. \A k \in Caller : borrowed'[k] # NoClient => borrowed'[k].creds = asked'[k]
        BY <2>0 DEF PoolInv, CredentialsStayPrivate, callerVars
      <3>2. \A x \in Exchange : InPool(x)' => clients'[x].client.creds = NoCreds
        BY <2>1, <2>5, <2>7 DEF PoolInv, CredentialsStayPrivate
      <3>3. \A t \in Stream : held'[t] # NoClient => held'[t].creds = NoCreds
        BY <2>1, <2>10 DEF PoolInv, CredentialsStayPrivate
      <3> QED
        BY <3>1, <3>2, <3>3 DEF CredentialsStayPrivate
    <2>13. \A t \in Stream : owed'[t] = Unspecified => held'[t] = NoClient
      BY <1>0, <1>2, <2>10 DEF PoolInv, TypeOK
    <2>14. \A x \in Unsupported : ~InPool(x)' /\ \A t \in Holders(x)' : held'[t] = NoClient
      BY <2>0, <2>1, <2>2, <2>5, <2>7, <2>10 DEF PoolInv, Holders
    <2>15. \A x \in Exchange : InPool(x)' => clients'[x].client.exchange = x
      BY <2>1, <2>5, <2>7 DEF PoolInv
    <2> QED
      BY <2>1, <2>4, <2>9, <2>11, <2>12, <2>13, <2>14, <2>15 DEF PoolInv
  <1> QED
    BY <1>1, <1>2 DEF Acquire

\* A Release keeps it: either other streams hold the entry and it stays, or the
\* releasing stream was the last and nobody is left to miss it.
LEMMA ReleasePreserves ==
    ASSUME PoolInv, NEW s \in Stream, Release(s)
    PROVE  PoolInv'
  <1> USE PoolAssumption
  <1>0. TypeOK
    BY DEF PoolInv
  <1> PICK e \in Exchange : owed[s] = e
    BY <1>0 DEF Release, TypeOK
  <1>1. /\ ReleaseEntry(e)
        /\ owed' = [owed EXCEPT ![s] = Unspecified]
        /\ held' = [held EXCEPT ![s] = NoClient]
        /\ UNCHANGED callerVars
    BY DEF Release
  <1>2. /\ Holders(e)' = Holders(e) \ {s}
        /\ Cardinality(Holders(e)') = Cardinality(Holders(e)) - 1
        /\ \A x \in Exchange \ {e} : Holders(x)' = Holders(x)
    BY <1>0, <1>1, HoldersAfterDrop
  <1>3. /\ Cardinality(Holders(e)) \in Nat
        /\ IsFiniteSet(Holders(e)')
        /\ s \in Holders(e)
    <2>1. s \in Holders(e)
      BY DEF Holders
    <2> QED
      BY <1>2, <2>1, HoldersFinite, FS_RemoveElement
  <1>4. \A x \in Exchange \ {e} : clients'[x] = clients[x]
    BY <1>0, <1>1 DEF ReleaseEntry, TypeOK
  <1>5. CASE e \in Unsupported
    <2>1. UNCHANGED clients
      BY <1>1, <1>5 DEF ReleaseEntry, PoolInv
    <2> QED
      BY <1>0, <1>1, <1>2, <1>5, <2>1
      DEF ReleaseEntry, PoolInv, TypeOK, RefsCountHolders, HoldersUsePooledClient,
          CredentialsStayPrivate, InPool, Holders, callerVars
  <1>6. CASE e \notin Unsupported
    <2>1. /\ InPool(e)
          /\ clients[e] \in ClientRef
          /\ clients[e].refs = Cardinality(Holders(e))
      BY <1>0, <1>3, <1>6
      DEF PoolInv, HoldersUsePooledClient, RefsCountHolders, TypeOK, InPool, Absent
    <2>2. clients[e].refs \in Nat /\ clients[e].client \in Client
      BY <2>1 DEF ClientRef
    <2>3. CASE clients[e].refs - 1 <= 0
      <3>1. clients' = [clients EXCEPT ![e] = Absent] /\ UNCHANGED live
        BY <1>1, <2>1, <2>3 DEF ReleaseEntry
      <3>2. Cardinality(Holders(e)') <= 0 /\ Cardinality(Holders(e)') \in Nat
        BY <1>2, <1>3, <2>1, <2>3, FS_CardinalityType
      <3>3. Holders(e)' = {}
        BY <1>3, <3>2, FS_EmptySet
      <3>4. ~InPool(e)'
        BY <1>0, <3>1 DEF TypeOK, InPool, Absent
      <3>5. TypeOK'
        BY <1>0, <1>1, <3>1 DEF TypeOK, callerVars
      <3> QED
        BY <1>0, <1>1, <1>2, <1>4, <1>6, <3>1, <3>3, <3>4, <3>5
        DEF PoolInv, TypeOK, RefsCountHolders, HoldersUsePooledClient,
            CredentialsStayPrivate, InPool, Holders, callerVars
    <2>4. CASE clients[e].refs - 1 > 0
      <3>1. /\ clients' = [clients EXCEPT ![e] =
                             [client |-> clients[e].client, refs |-> clients[e].refs - 1]]
            /\ UNCHANGED live
        <4>1. ~(clients[e].refs - 1 <= 0)
          BY <2>2, <2>4
        <4> QED
          BY <1>1, <2>1, <4>1, Zenon DEF ReleaseEntry
      <3>2. clients'[e] = [client |-> clients[e].client, refs |-> clients[e].refs - 1]
        BY <1>0, <3>1 DEF TypeOK
      <3>3. clients'[e] \in ClientRef
        BY <2>2, <2>4, <3>2 DEF ClientRef
      <3>4. clients' \in [Exchange -> ClientRef \cup {Absent}]
        BY <1>0, <3>1, <3>2, <3>3 DEF TypeOK
      <3>5. TypeOK'
        BY <1>0, <1>1, <3>1, <3>4 DEF TypeOK, callerVars
      <3>6. clients'[e].refs = Cardinality(Holders(e)')
        BY <1>2, <2>1, <3>2
      <3>7. clients'[e].client = clients[e].client
        BY <3>2
      <3>8. /\ \A x \in Exchange : clients'[x].client = clients[x].client
            /\ \A x \in Exchange : InPool(x)' <=> InPool(x)
        BY <1>4, <3>7 DEF InPool
      <3>9. RefsCountHolders'
        BY <1>2, <1>4, <3>6, <3>8 DEF PoolInv, RefsCountHolders
      <3>10. HoldersUsePooledClient'
        BY <1>0, <1>1, <3>8 DEF PoolInv, TypeOK, HoldersUsePooledClient, Holders
      <3>11. CredentialsStayPrivate'
        BY <1>0, <1>1, <3>8 DEF PoolInv, TypeOK, CredentialsStayPrivate, callerVars
      <3>12. \A t \in Stream : owed'[t] = Unspecified => held'[t] = NoClient
        BY <1>0, <1>1 DEF PoolInv, TypeOK
      <3>13. \A x \in Unsupported : \A t \in Holders(x)' : held'[t] = NoClient
        BY <1>0, <1>1 DEF PoolInv, TypeOK, Holders
      <3> QED
        BY <3>1, <3>5, <3>8, <3>9, <3>10, <3>11, <3>12, <3>13 DEF PoolInv
    <2> QED
      BY <2>2, <2>3, <2>4
  <1> QED
    BY <1>5, <1>6

\* A request keeps it: a borrow leaves counts alone, credentials never get in.
LEMMA NewClientForExchangePreserves ==
    ASSUME PoolInv, NEW k \in Caller, NEW e \in Exchange,
           NEW cr \in Creds \cup {NoCreds}, NewClientForExchange(k, e, cr)
    PROVE  PoolInv'
  <1> USE PoolAssumption
  <1>0. TypeOK /\ UNCHANGED streamVars
    BY DEF PoolInv, NewClientForExchange
  <1>1. \A x \in Exchange \cup {Unspecified} : Holders(x)' = Holders(x)
    BY <1>0 DEF Holders, streamVars
  <1>2. ASSUME NEW c \in Returnable(e, cr),
               borrowed' = [borrowed EXCEPT ![k] = c],
               asked' = [asked EXCEPT ![k] = IF c = NoClient THEN NoCreds ELSE cr],
               c \in Client \cup {NoClient},
               c # NoClient => c.creds = cr
        PROVE  /\ borrowed' \in [Caller -> Client \cup {NoClient}]
               /\ asked' \in [Caller -> Creds \cup {NoCreds}]
               /\ \A j \in Caller : borrowed'[j] # NoClient => borrowed'[j].creds = asked'[j]
    BY <1>0, <1>2 DEF TypeOK, PoolInv, CredentialsStayPrivate
  <1>3. CASE UNCHANGED <<poolVars, callerVars>>
    BY <1>0, <1>1, <1>3
    DEF PoolInv, TypeOK, RefsCountHolders, HoldersUsePooledClient,
        CredentialsStayPrivate, InPool, Holders, poolVars, callerVars, streamVars
  <1>4. ASSUME NEW c \in Returnable(e, cr), cr = NoCreds,
               GetOrCreate(e, NoCreds, 0, c),
               borrowed' = [borrowed EXCEPT ![k] = c],
               asked' = [asked EXCEPT ![k] = IF c = NoClient THEN NoCreds ELSE cr]
        PROVE  PoolInv'
    <2>1. /\ live' \subseteq Client /\ IsFiniteSet(live')
          /\ clients' \in [Exchange -> ClientRef \cup {Absent}]
          /\ \A x \in Exchange \ {e} : clients'[x] = clients[x]
          /\ e \in Unsupported => c = NoClient /\ clients'[e] = clients[e]
          /\ e \notin Unsupported =>
                /\ c \in Client /\ c.exchange = e /\ c.creds = NoCreds
                /\ clients'[e] = [client |-> c, refs |-> clients[e].refs + 0]
                /\ InPool(e) => c = clients[e].client
      BY <1>4, GetOrCreateReturns
    <2>2. /\ borrowed' \in [Caller -> Client \cup {NoClient}]
          /\ asked' \in [Caller -> Creds \cup {NoCreds}]
          /\ \A j \in Caller : borrowed'[j] # NoClient => borrowed'[j].creds = asked'[j]
      BY <1>2, <1>4, <2>1
    <2>3. TypeOK'
      BY <1>0, <2>1, <2>2 DEF TypeOK, streamVars
    <2>4. clients[e].refs \in Nat /\ (~InPool(e) => clients[e].refs = 0)
      BY <1>0 DEF TypeOK, ClientRef, Absent, InPool
    <2>5. e \notin Unsupported => clients'[e].refs = clients[e].refs
      BY <2>1, <2>4
    <2>6. ~InPool(e) /\ e \notin Unsupported => Holders(e) = {}
      BY <1>0 DEF PoolInv, HoldersUsePooledClient, InPool
    <2>7. \A x \in Exchange : clients'[x].refs = clients[x].refs
      BY <2>1, <2>5
    <2>8. \A x \in Exchange : InPool(x) => clients'[x].client = clients[x].client
      BY <2>1 DEF PoolInv
    <2>9. RefsCountHolders'
      <3> SUFFICES ASSUME NEW x \in Exchange, InPool(x)'
                   PROVE  clients'[x].refs = Cardinality(Holders(x))
        BY <1>1 DEF RefsCountHolders
      <3>1. CASE InPool(x)
        BY <2>7, <3>1 DEF PoolInv, RefsCountHolders
      <3>2. CASE ~InPool(x)
        <4>1. x = e /\ e \notin Unsupported
          BY <2>1, <3>2 DEF InPool
        <4> QED
          BY <2>4, <2>6, <2>7, <3>2, <4>1, FS_EmptySet
      <3> QED
        BY <3>1, <3>2
    <2>10. HoldersUsePooledClient'
      BY <1>0, <1>1, <2>1, <2>6, <2>8
      DEF PoolInv, HoldersUsePooledClient, InPool, streamVars
    <2>11. CredentialsStayPrivate'
      BY <1>0, <2>1, <2>2 DEF PoolInv, CredentialsStayPrivate, InPool, streamVars
    <2>12. \A x \in Unsupported : ~InPool(x)' /\ \A t \in Holders(x)' : held'[t] = NoClient
      BY <1>0, <1>1, <2>1 DEF PoolInv, InPool, streamVars
    <2>13. \A x \in Exchange : InPool(x)' => clients'[x].client.exchange = x
      BY <2>1 DEF PoolInv, InPool
    <2> QED
      BY <1>0, <2>1, <2>3, <2>9, <2>10, <2>11, <2>12, <2>13 DEF PoolInv, streamVars
  <1>5. ASSUME NEW c \in Returnable(e, cr),
               Build(e, cr, c), UNCHANGED clients,
               borrowed' = [borrowed EXCEPT ![k] = c],
               asked' = [asked EXCEPT ![k] = IF c = NoClient THEN NoCreds ELSE cr]
        PROVE  PoolInv'
    <2>1. /\ live' \subseteq Client /\ IsFiniteSet(live')
          /\ c \in Client \cup {NoClient}
          /\ c # NoClient => c.creds = cr
      BY <1>5, BuildReturns
    <2>2. /\ borrowed' \in [Caller -> Client \cup {NoClient}]
          /\ asked' \in [Caller -> Creds \cup {NoCreds}]
          /\ \A j \in Caller : borrowed'[j] # NoClient => borrowed'[j].creds = asked'[j]
      BY <1>2, <1>5, <2>1
    <2> QED
      BY <1>0, <1>1, <1>5, <2>1, <2>2
      DEF PoolInv, TypeOK, RefsCountHolders, HoldersUsePooledClient,
          CredentialsStayPrivate, InPool, Holders, streamVars
  <1> QED
    BY <1>3, <1>4, <1>5
    DEF NewClientForExchange, GetOrCreateFails, BuildFails, poolVars, callerVars

\* A request that ends changes nothing the invariant looks at but its own client.
LEMMA EndCallPreserves ==
    ASSUME PoolInv, NEW k \in Caller, EndCall(k)
    PROVE  PoolInv'
  BY DEF EndCall, PoolInv, TypeOK, RefsCountHolders, HoldersUsePooledClient,
         CredentialsStayPrivate, InPool, Holders, poolVars, streamVars

\* Every step keeps the invariant.
LEMMA PoolInvStep == PoolInv /\ [Next]_vars => PoolInv'
  <1> SUFFICES ASSUME PoolInv, [Next]_vars PROVE PoolInv'
    OBVIOUS
  <1>1. ASSUME NEW s \in Stream, Release(s) PROVE PoolInv'
    BY <1>1, ReleasePreserves
  <1>2. ASSUME NEW s \in Stream, NEW e \in Exchange, Acquire(s, e) PROVE PoolInv'
    BY <1>2, AcquirePreserves
  <1>3. ASSUME NEW k \in Caller, EndCall(k) PROVE PoolInv'
    BY <1>3, EndCallPreserves
  <1>4. ASSUME NEW k \in Caller, NEW e \in Exchange, NEW cr \in Creds \cup {NoCreds},
               NewClientForExchange(k, e, cr)
        PROVE  PoolInv'
    BY <1>4, NewClientForExchangePreserves
  <1>5. CASE UNCHANGED vars
    BY <1>5 DEF PoolInv, TypeOK, RefsCountHolders, HoldersUsePooledClient,
                CredentialsStayPrivate, InPool, Holders, vars
  <1> QED
    BY <1>1, <1>2, <1>3, <1>4, <1>5 DEF Next

\* The inductive invariant holds in every reachable state.
THEOREM PoolInvariant == Spec => []PoolInv
  <1>1. Init => PoolInv
    BY PoolInvInit
  <1>2. PoolInv /\ [Next]_vars => PoolInv'
    BY PoolInvStep
  <1> QED
    BY <1>1, <1>2, PTL DEF Spec

\* Types hold for every set of consumers and any bound on the clients.
THEOREM TypeCorrect == Spec => []TypeOK
  BY PoolInvariant, PTL DEF PoolInv

\* The count of every pooled client is the number of streams owing a Release,
\* however acquires, releases and borrows interleave.
THEOREM RefsAlwaysCountHolders == Spec => []RefsCountHolders
  BY PoolInvariant, PTL DEF PoolInv

\* No stream ever loses its client to another stream's Release, and all the
\* streams of an exchange use one instance.
THEOREM HoldersAlwaysUsePooledClient == Spec => []HoldersUsePooledClient
  BY PoolInvariant, PTL DEF PoolInv

\* A client that signs for one request never serves another.
THEOREM CredentialsAlwaysPrivate == Spec => []CredentialsStayPrivate
  BY PoolInvariant, PTL DEF PoolInv

-----------------------------------------------------------------------------
(* The pool implements SharedClient                                        *)

\* An Acquire is a Take of SharedClient, or leaves the streams as they were.
LEMMA AcquireTakes ==
    ASSUME PoolInv, NEW s \in Stream, NEW e \in Exchange, Acquire(s, e)
    PROVE  Promise!Take(s, e) \/ UNCHANGED Promise!vars
  <1>1. CASE UNCHANGED streamVars
    BY <1>1 DEF streamVars, Promise!vars
  <1>2. ASSUME NEW c \in Returnable(e, NoCreds),
               GetOrCreate(e, NoCreds, 1, c),
               owed' = [owed EXCEPT ![s] = e],
               held' = [held EXCEPT ![s] = c]
        PROVE  Promise!Take(s, e)
    <2>1. /\ e \in Unsupported => c = NoClient
          /\ e \notin Unsupported =>
                /\ c \in Client /\ c.exchange = e
                /\ InPool(e) => c = clients[e].client
      BY <1>2, GetOrCreateReturns
    <2>2. ASSUME NEW t \in Stream, owed[t] = e PROVE held[t] = c
      <3>1. t \in Holders(e)
        BY <2>2 DEF Holders
      <3>2. CASE e \in Unsupported
        BY <2>1, <3>1, <3>2 DEF PoolInv
      <3>3. CASE e \notin Unsupported
        <4>1. held[t] = clients[e].client /\ held[t] \in Client
          BY <3>1, <3>3 DEF PoolInv, HoldersUsePooledClient
        <4>2. InPool(e)
          BY <4>1, PoolAssumption DEF InPool
        <4> QED
          BY <2>1, <3>3, <4>1, <4>2
      <3> QED
        BY <3>2, <3>3
    <2>3. Promise!SharedOn(e, c)
      BY <2>2 DEF Promise!SharedOn
    <2>4. owed[s] = Unspecified
      BY DEF Acquire
    <2>5. /\ c \in Client \cup {NoClient}
          /\ IF e \in Unsupported THEN c = NoClient
                                  ELSE c \in Client /\ c.exchange = e
      BY <2>1
    <2> QED
      BY <1>2, <2>3, <2>4, <2>5 DEF Promise!Take
  <1> QED
    BY <1>1, <1>2 DEF Acquire

\* Acquire and Release are Take and Drop, every other step leaves the
\* streams alone, so streams cannot tell the pool from its promise.
THEOREM PoolKeepsPromise == Spec => SharedClientPromise
  <1>1. Init => Promise!Init
    BY DEF Init, Promise!Init
  <1>2. PoolInv /\ [Next]_vars => [Promise!Next]_(Promise!vars)
    <2> SUFFICES ASSUME PoolInv, [Next]_vars
                 PROVE  Promise!Next \/ UNCHANGED Promise!vars
      OBVIOUS
    <2>1. ASSUME NEW s \in Stream, Release(s) PROVE Promise!Next
      BY <2>1 DEF Release, Promise!Next, Promise!Drop
    <2>2. ASSUME NEW s \in Stream, NEW e \in Exchange, Acquire(s, e)
          PROVE  Promise!Next \/ UNCHANGED Promise!vars
      BY <2>2, AcquireTakes DEF Promise!Next
    <2>3. ASSUME NEW k \in Caller, EndCall(k) PROVE UNCHANGED Promise!vars
      BY <2>3 DEF EndCall, streamVars, Promise!vars
    <2>4. ASSUME NEW k \in Caller, NEW e \in Exchange, NEW cr \in Creds \cup {NoCreds},
                 NewClientForExchange(k, e, cr)
          PROVE  UNCHANGED Promise!vars
      BY <2>4 DEF NewClientForExchange, streamVars, Promise!vars
    <2>5. CASE UNCHANGED vars
      BY <2>5 DEF vars, Promise!vars
    <2> QED
      BY <2>1, <2>2, <2>3, <2>4, <2>5 DEF Next
  <1> QED
    BY <1>1, <1>2, PoolInvariant, PTL DEF Spec, SharedClientPromise, Promise!Spec

=============================================================================
