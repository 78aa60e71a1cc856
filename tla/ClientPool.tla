----------------------------- MODULE ClientPool -----------------------------
(***************************************************************************)
(* The process-wide pool of exchange clients (internal/ccxt/pool.go) and   *)
(* the two ways into it: Acquire/Release for long-lived streams, which are *)
(* counted, and NewClientForExchange (internal/ccxt/util.go) for request   *)
(* handlers and the market-cache loader, which borrow without being        *)
(* counted or, when the request carries credentials, get a private client  *)
(* the pool never sees.                                                    *)
(*                                                                         *)
(* getOrCreate and Release hold p.mu from their first to their last access *)
(* to the map, construction of the client included, so each is one step.   *)
(***************************************************************************)
EXTENDS Integers, FiniteSets

CONSTANTS Exchange,     \* the Exchange enum values a request may carry
          Unsupported,  \* those newClientForExchange has no case for
          Stream,       \* long-lived consumers: WebSocket and gRPC streams
          Caller,       \* short-lived ones: unary handlers, the cache loader
          Creds,        \* credentials requests carry
          NoCreds,      \* a request without credentials (creds == nil)
          NoClient,     \* Go's nil
          Unspecified,  \* EXCHANGE_UNSPECIFIED, which every handler refuses
          MaxClients    \* bound on the clients ever built

Serial == 1..MaxClients

\* An exchange client: whose API it speaks, which instance it is, and the
\* credentials it signs with.
Client == [exchange : Exchange, serial : Serial, creds : Creds \cup {NoCreds}]

ASSUME PoolAssumption ==
    /\ Unsupported \subseteq Exchange
    /\ Unspecified \notin Exchange
    /\ NoCreds \notin Creds
    /\ NoClient \notin Client
    /\ MaxClients \in Nat
    /\ IsFiniteSet(Stream)

VARIABLES clients,   \* ClientPool.clients: exchange -> clientRef
          live,      \* the clients built and not closed; nothing closes one
          owed,      \* the exchange whose deferred Release a stream still owes
          held,      \* the client a stream was handed by Acquire
          borrowed,  \* the client a request is using
          asked      \* the credentials of that request

poolVars   == <<clients, live>>
streamVars == <<owed, held>>
callerVars == <<borrowed, asked>>
vars       == <<clients, live, owed, held, borrowed, asked>>

-----------------------------------------------------------------------------
(* The pool                                                                *)

\* A clientRef of the map; Absent stands for an exchange with no key in it.
ClientRef == [client : Client, refs : Nat]
Absent    == [client |-> NoClient, refs |-> 0]
InPool(e) == clients[e].client # NoClient

Init == /\ clients  = [e \in Exchange |-> Absent]
        /\ live     = {}
        /\ owed     = [s \in Stream |-> Unspecified]
        /\ held     = [s \in Stream |-> NoClient]
        /\ borrowed = [c \in Caller |-> NoClient]
        /\ asked    = [c \in Caller |-> NoCreds]

\* The next instance newClientForExchange would build.
Fresh(e, cr) == [exchange |-> e, serial |-> Cardinality(live) + 1, creds |-> cr]

\* newClientForExchange: nil without an error for an exchange it has no case
\* for, a new instance for the others. Its error returns are in Fails.
Build(e, cr, c) ==
    IF e \in Unsupported
    THEN c = NoClient /\ UNCHANGED live
    ELSE /\ Cardinality(live) < MaxClients
         /\ c = Fresh(e, cr)
         /\ live' = live \cup {c}

\* Mutants of getOrCreate: a borrow counts like an acquire; a nil client is
\* stored as if it were one; the lookup is forgotten.
GetOrCreate_countsBorrows(e, cr, tracked, c) ==
    IF InPool(e)
    THEN /\ c = clients[e].client
         /\ clients' = [clients EXCEPT ![e].refs = @ + 1]
         /\ UNCHANGED live
    ELSE /\ Build(e, cr, c)
         /\ clients' = IF c = NoClient THEN clients
                       ELSE [clients EXCEPT ![e] = [client |-> c, refs |-> tracked]]
GetOrCreate_storesNil(e, cr, tracked, c) ==
    IF InPool(e)
    THEN /\ c = clients[e].client
         /\ clients' = [clients EXCEPT ![e].refs = @ + tracked]
         /\ UNCHANGED live
    ELSE /\ Build(e, cr, c)
         /\ clients' = [clients EXCEPT ![e] = [client |-> c, refs |-> tracked]]
GetOrCreate_noLookup(e, cr, tracked, c) ==
    /\ Build(e, cr, c)
    /\ clients' = IF c = NoClient THEN clients
                  ELSE [clients EXCEPT ![e] = [client |-> c, refs |-> @.refs + tracked]]

\* getOrCreate returning client c: the entry's when there is one, whatever
\* credentials were passed, else a new client that becomes the entry. Only a
\* tracked call (tracked = 1) counts. A nil client is not stored.
GetOrCreate(e, cr, tracked, c) ==
    IF InPool(e)
    THEN /\ c = clients[e].client
         /\ clients' = [clients EXCEPT ![e].refs = @ + tracked]
         /\ UNCHANGED live
    ELSE /\ Build(e, cr, c)
         /\ clients' = IF c = NoClient THEN clients
                       ELSE [clients EXCEPT ![e] = [client |-> c, refs |-> tracked]]

\* The factory may refuse (the client's proxy cannot be set up): the caller
\* gets the error and the pool is as it was.
BuildFails(e) == e \notin Unsupported /\ UNCHANGED poolVars
GetOrCreateFails(e) == ~InPool(e) /\ BuildFails(e)

\* A mutant: the entry goes one reference too early.
ReleaseEntry_tooEarly(e) ==
    LET left == clients[e].refs - 1
    IN  /\ clients' = IF ~InPool(e) THEN clients
                      ELSE [clients EXCEPT ![e] = IF left <= 1 THEN Absent
                                                  ELSE [client |-> @.client, refs |-> left]]
        /\ UNCHANGED live

\* Release: an unknown exchange is ignored, the last reference drops the
\* entry from the map. The client itself is not closed.
ReleaseEntry(e) ==
    LET left == clients[e].refs - 1
    IN  /\ clients' = IF ~InPool(e) THEN clients
                      ELSE [clients EXCEPT ![e] = IF left <= 0 THEN Absent
                                                  ELSE [client |-> @.client, refs |-> left]]
        /\ UNCHANGED live

Returnable(e, cr) == {clients[e].client, Fresh(e, cr), NoClient}

-----------------------------------------------------------------------------
(* The consumers                                                           *)

\* A stream's Acquire. The deferred Release is registered whenever err is
\* nil, so also when the client is nil.
Acquire(s, e) ==
    /\ owed[s] = Unspecified
    /\ \/ \E c \in Returnable(e, NoCreds) :
             /\ GetOrCreate(e, NoCreds, 1, c)
             /\ owed' = [owed EXCEPT ![s] = e]
             /\ held' = [held EXCEPT ![s] = c]
       \/ GetOrCreateFails(e) /\ UNCHANGED streamVars
    /\ UNCHANGED callerVars

\* The deferred Release when a stream's handler returns.
Release(s) ==
    /\ owed[s] # Unspecified
    /\ ReleaseEntry(owed[s])
    /\ owed' = [owed EXCEPT ![s] = Unspecified]
    /\ held' = [held EXCEPT ![s] = NoClient]
    /\ UNCHANGED callerVars

\* A mutant: requests with credentials use the pool as well.
NewClientForExchange_poolsAll(k, e, cr) ==
    /\ borrowed[k] = NoClient
    /\ \E c \in Returnable(e, cr) :
          /\ GetOrCreate(e, cr, 0, c)
          /\ borrowed' = [borrowed EXCEPT ![k] = c]
          /\ asked' = [asked EXCEPT ![k] = IF c = NoClient THEN NoCreds ELSE cr]
    /\ UNCHANGED streamVars

\* NewClientForExchange for a request: the pool's client without
\* credentials, a private one with them. A request that gets nil or an error
\* ends at once.
NewClientForExchange(k, e, cr) ==
    /\ borrowed[k] = NoClient
    /\ \/ \E c \in Returnable(e, cr) :
             /\ IF cr = NoCreds
                THEN GetOrCreate(e, cr, 0, c)
                ELSE Build(e, cr, c) /\ UNCHANGED clients
             /\ borrowed' = [borrowed EXCEPT ![k] = c]
             /\ asked' = [asked EXCEPT ![k] = IF c = NoClient THEN NoCreds ELSE cr]
       \/ /\ IF cr = NoCreds THEN GetOrCreateFails(e) ELSE BuildFails(e)
          /\ UNCHANGED callerVars
    /\ UNCHANGED streamVars

\* A request returns and forgets its client; it tells nobody.
EndCall(k) ==
    /\ borrowed[k] # NoClient
    /\ borrowed' = [borrowed EXCEPT ![k] = NoClient]
    /\ asked' = [asked EXCEPT ![k] = NoCreds]
    /\ UNCHANGED <<poolVars, streamVars>>

Next ==
    \/ \E s \in Stream : Release(s) \/ \E e \in Exchange : Acquire(s, e)
    \/ \E k \in Caller : \/ EndCall(k)
                         \/ \E e \in Exchange, cr \in Creds \cup {NoCreds} :
                               NewClientForExchange(k, e, cr)

Spec == Init /\ [][Next]_vars

-----------------------------------------------------------------------------
(* Properties                                                              *)

\* Types: the pool's map, the clients built, and what consumers hold.
TypeOK ==
    /\ clients \in [Exchange -> ClientRef \cup {Absent}]
    /\ live \subseteq Client
    /\ owed \in [Stream -> Exchange \cup {Unspecified}]
    /\ held \in [Stream -> Client \cup {NoClient}]
    /\ borrowed \in [Caller -> Client \cup {NoClient}]
    /\ asked \in [Caller -> Creds \cup {NoCreds}]

Holders(e) == {s \in Stream : owed[s] = e}

\* The count is never wrong: for every exchange the pool knows, refs is the
\* number of streams that still owe a Release for it, although Release names
\* an exchange and not the client it was for (pool.go:116-140).
RefsCountHolders ==
    \A e \in Exchange : InPool(e) => clients[e].refs = Cardinality(Holders(e))

\* A client in use by a stream is the pool's: no entry is dropped or replaced
\* under a stream, so all streams of an exchange share one client, of that
\* exchange, and a newcomer joins them (pool.go:66-112).
HoldersUsePooledClient ==
    \A e \in Exchange \ Unsupported :
        \A s \in Holders(e) : /\ held[s] = clients[e].client
                              /\ held[s] \in Client
                              /\ held[s].exchange = e

\* Credentials stay with the request that brought them: it is served by a
\* client signing with exactly its credentials, and neither the pool nor a
\* stream ever has a client that signs for somebody (util.go:26-38), although
\* the pool looks clients up by exchange alone.
CredentialsStayPrivate ==
    /\ \A k \in Caller : borrowed[k] # NoClient => borrowed[k].creds = asked[k]
    /\ \A e \in Exchange : InPool(e) => clients[e].client.creds = NoCreds
    /\ \A s \in Stream : held[s] # NoClient => held[s].creds = NoCreds

\* What the above rests on, and is inductive with it: a stream that owes
\* nothing has no client, an exchange without a client never enters the pool,
\* and a pooled client speaks the API of the exchange it is filed under.
PoolInv ==
    /\ TypeOK
    /\ IsFiniteSet(live)
    /\ RefsCountHolders
    /\ HoldersUsePooledClient
    /\ CredentialsStayPrivate
    /\ \A s \in Stream : owed[s] = Unspecified => held[s] = NoClient
    /\ \A e \in Unsupported : /\ ~InPool(e)
                              /\ \A s \in Holders(e) : held[s] = NoClient
    /\ \A e \in Exchange : InPool(e) => clients[e].client.exchange = e

\* The pool implements the promise SharedClient states: every Acquire and
\* Release is a Take and a Drop, everything else is invisible to streams.
Promise == INSTANCE SharedClient WITH owed <- owed, held <- held
SharedClientPromise == Promise!Spec

=============================================================================
