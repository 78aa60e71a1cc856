------------------------------ MODULE MCGateway ------------------------------
(* Two calls by right and wrong callers, under each way to authenticate.    *)
EXTENDS Gateway

NoAuth == [enabled |-> FALSE, type |-> "", user |-> "", password |-> "",
           issuer |-> "", audience |-> ""]
Basic  == [NoAuth EXCEPT !.enabled = TRUE, !.type = "basic", !.user = "u", !.password = "p"]
OAuth2 == [NoAuth EXCEPT !.enabled = TRUE, !.type = "oauth2",
                         !.issuer = "https://issuer", !.audience = "cegw"]
Wrong  == [NoAuth EXCEPT !.enabled = TRUE, !.type = "ldap"]

AllAuths == {NoAuth, Basic, OAuth2, Wrong}

GoodToken == [method |-> "RSA", kid |-> "k", key |-> "issuer",
              iss |-> "https://issuer", aud |-> {"cegw"}, exp |-> "none"]
Forged    == [GoodToken EXCEPT !.key = "other"]

Nobody    == [scheme |-> "none", user |-> "", password |-> "", token |-> None]
User      == [Nobody EXCEPT !.scheme = "Basic", !.user = "u", !.password = "p"]
Bearer(t) == [Nobody EXCEPT !.scheme = "Bearer", !.token = t]

Ask(rpc, service, from, input, header) ==
    [rpc |-> rpc, service |-> service, from |-> from, input |-> input, header |-> header]

MCRequests ==
    {Ask("CreateMarketOrder", "Trading", "body", "good", User),
     Ask("CancelOrder", "Trading", "body", "bad", Bearer(Forged)),
     Ask("GetBalance", "Trading", "body", "empty", Bearer(GoodToken))}

\* The issuer cannot be reached, publishes its key as a PEM body, or as a JWK.
MCKeySets ==
    {None, <<[kid |-> "k", kty |-> "RSA", key |-> "issuer", pem |-> TRUE]>>,
     <<[kid |-> "k", kty |-> "RSA", key |-> "issuer", pem |-> FALSE]>>}

=============================================================================
