------------------------------- MODULE HttpAuth -------------------------------
(***************************************************************************)
(* How the HTTP server tells callers apart (internal/middleware/auth.go):  *)
(* what AuthMiddleware does with a request, given the Authorization header *)
(* it came with and the key set the issuer returned. A key set is a        *)
(* sequence of keys; a key's material is a PEM body or, as the JWK format  *)
(* has it, a number, which the code cannot read.                           *)
(***************************************************************************)
EXTENDS Naturals, Sequences, FiniteSetsExt

CONSTANT None  \* no token, no key, no key set

AuthConfig == [enabled : BOOLEAN, type : STRING, user : STRING, password : STRING,
               issuer : STRING, audience : STRING]

\* The header: the scheme and what follows it. A token says how it was signed
\* and by which key, under which name that key is published, and its claims.
Header == [scheme : {"none", "Basic", "Bearer", "other"}, user : STRING,
           password : STRING, token : STRING]
Key    == [kid : STRING, kty : {"RSA", "EC", "oct"}, key : STRING, pem : BOOLEAN]

\* The key a token names: the first of that name in the set, if it is of a type
\* the code knows and can be read. An issuer that cannot be reached has no set.
getPublicKey(token, jwks) ==
    LET named == {i \in DOMAIN jwks : jwks[i].kid = token.kid}
        first == jwks[Min(named)]
    IN  IF jwks = None \/ named = {} THEN None
        ELSE IF first.kty \in {"RSA", "EC"} /\ first.pem THEN first ELSE None

\* jwt.Parse: the signature is by the key named, of the method's type, and the
\* token has not expired.
Verified(token, jwks) ==
    LET key == getPublicKey(token, jwks)
    IN  /\ token.method \in {"RSA", "EC"}
        /\ key # None /\ key.kty = token.method /\ key.key = token.key
        /\ token.exp # "past"

checkOAuth2(auth, h, jwks) ==
    /\ h.scheme = "Bearer" /\ h.token # None
    /\ Verified(h.token, jwks)
    /\ auth.issuer # "" => h.token.iss = auth.issuer
    /\ auth.audience # "" => auth.audience \in h.token.aud

checkBasicAuth(auth, h) ==
    h.scheme = "Basic" /\ h.user = auth.user /\ h.password = auth.password

\* A mutant: an authentication type that is not known lets everybody in.
AuthMiddleware_default(auth, h, jwks) ==
    IF ~auth.enabled THEN "pass"
    ELSE CASE auth.type = "basic"  -> IF checkBasicAuth(auth, h) THEN "pass" ELSE "401"
           [] auth.type = "oauth2" -> IF checkOAuth2(auth, h, jwks) THEN "pass" ELSE "401"
           [] OTHER                -> "pass"

\* Whether a request passes, or what it is answered. The three paths that pass
\* unasked (/healthz, /readyz, /metrics) lead to no handler of a service, and
\* are left out.
AuthMiddleware(auth, h, jwks) ==
    IF ~auth.enabled THEN "pass"
    ELSE CASE auth.type = "basic"  -> IF checkBasicAuth(auth, h) THEN "pass" ELSE "401"
           [] auth.type = "oauth2" -> IF checkOAuth2(auth, h, jwks) THEN "pass" ELSE "401"
           [] OTHER                -> "500"

=============================================================================
