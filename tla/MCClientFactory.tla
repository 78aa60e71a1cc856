--------------------------- MODULE MCClientFactory ---------------------------
(* A small instance of ClientFactory for TLC.                              *)
EXTENDS ClientFactory, TLC

CONSTANTS b1, b2

MCBuilder == {b1, b2}

\* example.com, a host in it, and an address.
Domain  == [ip |-> FALSE, parts |-> <<"b", "c">>]
Api     == [ip |-> FALSE, parts |-> <<"a", "b", "c">>]
Address == [ip |-> TRUE, parts |-> <<"1", "0", "1">>]
Ending  == [ip |-> TRUE, parts |-> <<"0", "1">>]
Network == [ip |-> TRUE, parts |-> <<"1", "0">>]
MCHosts == {Domain, Api, Address}

Entries == {[kind |-> k, of |-> Domain] : k \in {"host", "suffix", "wildcard"}}
           \cup {[kind |-> "host", of |-> Address], [kind |-> "network", of |-> Network],
                 [kind |-> "suffix", of |-> Ending]}

Env(https, http, no, lower) ==
    [HTTPS_PROXY |-> https, HTTP_PROXY |-> http, NO_PROXY |-> no, no_proxy |-> lower]

\* The dialer with each single exception, with both lists and with no_proxy
\* alone, and what the variables may be.
MCEnvironments ==
    {Env("socks5", "", {x}, {}) : x \in Entries}
    \cup {Env("socks5", "", {[kind |-> "host", of |-> Domain]}, Entries),
          Env("", "socks5", {}, Entries), Env("malformed", "http", {}, {}),
          Env("", "", {}, {}), Env("http", "socks5", {}, {}), Env("", "https", {}, {})}

\* An http proxy and an exception.
MCHttpProxy == {Env("http", "", {[kind |-> "host", of |-> Domain]}, {})}

Symmetry == Permutations(MCBuilder)

=============================================================================
