---------------------------- MODULE SharedClient ----------------------------
(***************************************************************************)
(* What the client pool promises its long-lived consumers (WebSocket       *)
(* handlers and gRPC price streams), with no map, no counter and no lock:  *)
(* whoever streams from an exchange streams through the client every other *)
(* stream of that exchange is using, and keeps it until it lets go.        *)
(***************************************************************************)

CONSTANTS Exchange,     \* the exchanges a request may name
          Unsupported,  \* those no client can be built for
          Stream,       \* the long-lived consumers
          Client,       \* the exchange clients; a record with an exchange
          NoClient,     \* Go's nil: no client
          Unspecified   \* no exchange: the consumer holds nothing

VARIABLES owed,  \* the exchange each consumer must give its client back for
          held   \* the client each consumer was handed

vars == <<owed, held>>

Init == /\ owed = [s \in Stream |-> Unspecified]
        /\ held = [s \in Stream |-> NoClient]

\* Every other consumer of e holds c: a newcomer handed c joins them.
SharedOn(e, c) == \A t \in Stream : owed[t] = e => held[t] = c

\* A consumer starts on e. An unsupported exchange has nothing to hand out,
\* a supported one hands out the client its other consumers share, and any
\* client of that exchange when there are none.
Take(s, e) ==
    /\ owed[s] = Unspecified
    /\ \E c \in Client \cup {NoClient} :
          /\ IF e \in Unsupported THEN c = NoClient
                                  ELSE c \in Client /\ c.exchange = e
          /\ SharedOn(e, c)
          /\ held' = [held EXCEPT ![s] = c]
    /\ owed' = [owed EXCEPT ![s] = e]

\* A consumer lets go; nobody else's client changes.
Drop(s) ==
    /\ owed[s] # Unspecified
    /\ owed' = [owed EXCEPT ![s] = Unspecified]
    /\ held' = [held EXCEPT ![s] = NoClient]

Next == \E s \in Stream : Drop(s) \/ \E e \in Exchange : Take(s, e)

Spec == Init /\ [][Next]_vars

=============================================================================
