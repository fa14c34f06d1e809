---------------------------- MODULE ApiIdentity ----------------------------
(***************************************************************************)
(* Who may call the API: the bearer tokens EnterpriseJwtVerifier accepts   *)
(* with the issuer's keys it loaded at startup, and the role the           *)
(* middleware asks of a route.  A token is the record of its claims, its   *)
(* type, the id of its key and the key that did sign it; encodings, sizes  *)
(* and the identifiers it must carry are left out.                         *)
(***************************************************************************)
EXTENDS Integers, FiniteSets

ApiRole == {"regulaai.runtime", "regulaai.operator", "regulaai.reconciler"}
Public  == "public"

\* A JWKS document: key id -> public key.
WellFormedJwks(jwks) == Cardinality(DOMAIN jwks) \in 1..64

WellFormedConfig(config) ==
  /\ config.lifetime \in Nat \ {0} /\ config.lifetime <= 86400
  /\ config.skew \in 0..300

\* What a token must be to be read at all.
WellFormedToken(token) ==
  /\ token.type \in {"access", "other"}
  /\ Cardinality(token.audiences) \in 1..8
  /\ token.roles # {} /\ token.roles \subseteq ApiRole
  /\ token.issued \in Int /\ token.expires \in Int
  /\ Cardinality(token.notBefore) <= 1 /\ token.notBefore \subseteq Int

\* A process refuses to start without authentication in production.
IdentityFails(deployment) ==
  \/ deployment.mode \notin {"disabled", "oidc_jwt"}
  \/ deployment.mode = "disabled" /\ deployment.environment = "production"

(***************************************************************************)
(* Authentication                                                          *)
(***************************************************************************)
NotBefore(token) == IF token.notBefore = {} THEN {token.issued} ELSE token.notBefore

\* Faulty variant: a token may be as long-lived as its issuer likes.
AuthenticatesAnyLifetime(keys, config, token, now) ==
  /\ token.type = "access"
  /\ token.key \in DOMAIN keys /\ keys[token.key] = token.signer
  /\ token.issuer = config.issuer /\ config.audience \in token.audiences
  /\ token.issued <= now + config.skew /\ now - config.skew < token.expires
  /\ \A start \in NotBefore(token) :
       start <= now + config.skew /\ token.issued <= start /\ start < token.expires

Authenticates(keys, config, token, now) ==
  /\ token.type = "access"
  /\ token.key \in DOMAIN keys /\ keys[token.key] = token.signer
  /\ token.issuer = config.issuer /\ config.audience \in token.audiences
  /\ token.issued <= now + config.skew /\ now - config.skew < token.expires
  /\ \A start \in NotBefore(token) :
       start <= now + config.skew /\ token.issued <= start /\ start < token.expires
  /\ token.expires - token.issued <= config.lifetime

(***************************************************************************)
(* Routes                                                                  *)
(***************************************************************************)
RequiredApiRole(request) ==
  CASE request.path \in {"health", "stylesheet"} -> Public
    [] request.path = "reconciliation" /\ request.method = "POST" -> "regulaai.reconciler"
    [] request.path \notin {"health", "stylesheet"} /\ request.method \in {"GET", "HEAD"}
         -> "regulaai.operator"
    [] OTHER -> "regulaai.runtime"

\* The middleware lets a request through to its handler.  keys and token are
\* sets of at most one: a process without authentication has no keys.
Admitted(keys, config, request, token, now) ==
  \/ RequiredApiRole(request) = Public
  \/ keys = {}
  \/ \E k \in keys, t \in token :
       Authenticates(k, config, t, now) /\ RequiredApiRole(request) \in t.roles
==============================================================================
