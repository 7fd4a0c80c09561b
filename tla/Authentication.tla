----------------------------- MODULE Authentication -----------------------------
(***************************************************************************)
(* A request on its way through the authentication middleware and a guard, *)
(* while API keys are created, revoked and expire.  Everything a request   *)
(* does between two accesses to shared state is one step: it extracts and  *)
(* validates a credential (for an API key up to the end of Lookup, under   *)
(* the store's read lock), turns the record it was handed into a           *)
(* principal, transforms the principal, and passes the guard.              *)
(***************************************************************************)
EXTENDS TokenClaims, Integers

CONSTANTS
    Requests,
    Keys,              \* raw API keys; each has a hash of its own
    Holders,           \* owner, client, scopes and roles given to CreateKey
    NoHolder,          \* of no record
    TTLs,              \* times to live given to CreateKey
    JWTs,              \* JWTs[t]: what a bearer token string decodes to
    Inputs,            \* headers and query of a request, see Extract
    Guards,            \* guards of the routes, see Passes
    Authenticators,    \* of the routes: their bearer validator and whether they validate keys
    Transformed(_),    \* what the route's ClaimsTransformer may return for a principal
    Never,             \* expiry of a record without one
    ClockSkew,         \* ClockSkewTolerance
    ExpectedIssuer,    \* "" when not configured
    ExpectedAudience,  \* "" when not configured
    ExpectedClientID,  \* of the OIDC validator, "" when not configured
    SkipClientIDCheck, \* of the OIDC validator
    NbfLeeway,         \* of the OIDC library
    AllowQueryAPIKey,
    ContextKey,        \* key the middleware stores the principal under
    MaxTime            \* bound: the clock stops here

ASSUME AuthenticationAssumption ==
    /\ TTLs \subseteq Int /\ ClockSkew \in Nat /\ MaxTime \in Nat
    /\ NoHolder \notin Holders /\ NbfLeeway \in Nat /\ AllowQueryAPIKey \in BOOLEAN /\ SkipClientIDCheck \in BOOLEAN
    /\ Authenticators \subseteq [bearer : {"jwt", "oidc", "none"}, keys : BOOLEAN]
    /\ \A in \in Inputs : in.scheme = Empty => in.token = Empty  \* no header, no token

VARIABLES
    records,  \* records[k]: the record the hash of k leads to
    req,      \* req[r]: a request
    now

vars == <<records, req, now>>

NoRecord == [holder |-> NoHolder, expiresAt |-> Never, revoked |-> FALSE]
NoRequest == [pc |-> "idle"]

Ok(p) == [err |-> Empty, principal |-> p]
Fail(e) == [err |-> e, principal |-> NoPrincipal]

-----------------------------------------------------------------------------
(* Extraction.  An input has the Authorization header (scheme "" for none, *)
(* "malformed" for one without two parts), X-API-Key and the query key.    *)

\* Mutant: the X-API-Key header wins without being compared.
ExtractLastWins(in) ==
    LET bearer == IF in.scheme = "bearer" THEN in.token ELSE Empty
        apiKey == IF in.header # Empty THEN in.header
                  ELSE IF in.scheme \in {"apikey", "key"} THEN in.token ELSE Empty
    IN  IF bearer # Empty THEN [type |-> "bearer", token |-> bearer]
        ELSE [type |-> "api_key", token |-> apiKey]

\* CredentialExtractor.Extract: a credential, or type "error" and its error.
Extract(in) ==
    LET bearer == IF in.scheme = "bearer" THEN in.token ELSE Empty
        schemeKey == IF in.scheme \in {"apikey", "key"} THEN in.token ELSE Empty
        query == IF AllowQueryAPIKey THEN in.query ELSE Empty
        apiKey == FirstOf(<<in.header, schemeKey, query>>, Empty)
        Error(e) == [type |-> "error", token |-> e]
    IN  IF in.scheme \notin {Empty, "bearer", "apikey", "key"} THEN Error("invalid_header")
        ELSE IF schemeKey # Empty /\ in.header \notin {Empty, schemeKey} THEN Error("multiple")
        ELSE IF bearer # Empty /\ apiKey # Empty THEN Error("multiple")
        ELSE IF bearer # Empty THEN [type |-> "bearer", token |-> bearer]
        ELSE IF apiKey # Empty THEN [type |-> "api_key", token |-> apiKey]
        ELSE Error("no_credentials")

-----------------------------------------------------------------------------
(* Bearer tokens                                                           *)

\* ParseWithClaims of the JWT library with the options ValidateToken gives it,
\* and the first error ValidateToken looks for.
ParseError(t) ==
    IF ~t.signed THEN "invalid_token"
    ELSE IF now >= t.exp + ClockSkew THEN "token_expired"
    ELSE IF now < t.nbf - ClockSkew THEN "not_yet_valid"
    ELSE IF ExpectedIssuer \notin {Empty, t.iss} THEN "invalid_issuer"
    ELSE IF ExpectedAudience # Empty /\ ExpectedAudience \notin Range(t.claims["aud"].words)
         THEN "invalid_audience"
    ELSE Empty

Normalized(p) == IF p = NoPrincipal THEN Fail("missing_subject") ELSE Ok(p)

JWTValidateToken(t) ==
    IF ParseError(t) # Empty THEN Fail(ParseError(t)) ELSE Normalized(Normalize(t.claims))

\* NewOIDCValidator: whether the verifier looks at the audience.
ChecksClientID == ~SkipClientIDCheck /\ ExpectedClientID # Empty

\* Verify of the OIDC library refuses a token; there is no tolerance for the expiry.
Unverified(t) ==
    \/ ~t.signed \/ t.iss # ExpectedIssuer
    \/ ChecksClientID /\ ExpectedClientID \notin Range(t.claims["aud"].words)
    \/ now > t.exp \/ now + NbfLeeway < t.nbf

\* All errors of Verify are one.
OIDCValidateToken(t) ==
    IF Unverified(t) THEN Fail("invalid_token") ELSE Normalized(CognitoNormalize(t.claims))

ValidateToken(t, validator) ==
    CASE validator = "jwt" -> JWTValidateToken(t)
      [] validator = "oidc" -> OIDCValidateToken(t)
      [] OTHER -> Fail("not_configured")

-----------------------------------------------------------------------------
(* The API key store                                                       *)

\* A time to live of zero means no expiry; a negative one has expired already.
CreateKey(k, holder, ttl) ==
    /\ records[k] = NoRecord
    /\ records' = [records EXCEPT ![k] = [holder |-> holder, revoked |-> FALSE,
                       expiresAt |-> IF ttl = 0 THEN Never ELSE now + ttl]]
    /\ UNCHANGED <<req, now>>

RevokeKey(k) ==
    /\ records[k] # NoRecord
    /\ records' = [records EXCEPT ![k].revoked = TRUE]
    /\ UNCHANGED <<req, now>>

\* Mutant: the expiry is looked at first and a key without one is let through.
LookupErrorExpiryFirst(k) ==
    IF k \notin Keys \/ records[k] = NoRecord THEN "key_not_found"
    ELSE IF records[k].expiresAt = Never THEN Empty
    ELSE IF now > records[k].expiresAt THEN "key_expired"
    ELSE IF records[k].revoked THEN "key_revoked" ELSE Empty

\* Lookup's error for the hash of a raw key.
LookupError(k) ==
    IF k \notin Keys \/ records[k] = NoRecord THEN "key_not_found"
    ELSE IF records[k].revoked THEN "key_revoked"
    ELSE IF records[k].expiresAt # Never /\ now > records[k].expiresAt THEN "key_expired"
    ELSE Empty

\* The rest of ValidateKey reads the shared record again, but not its revocation.
KeyPrincipal(k) ==
    [subject |-> records[k].holder.owner, clientID |-> records[k].holder.client,
     method |-> "api_key", scopes |-> records[k].holder.scopes,
     roles |-> records[k].holder.roles, metadata |-> {"api_key_id", "api_key_name"}]

-----------------------------------------------------------------------------
(* The request                                                             *)

\* The error code handleAuthError answers with; the status is always 401.
ErrorCode(err) ==
    CASE err = "no_credentials" -> "unauthorized"
      [] err \in {"multiple", "invalid_header"} -> "invalid_request"
      [] OTHER -> "invalid_token"

Reject(r, status, code) == req' = [req EXCEPT ![r] =
    [pc |-> "rejected", in |-> @.in, status |-> status, code |-> code]]

\* The condition of each guard on the principal it found.
Passes(p, g) ==
    LET scopes == Range(p.scopes)
        roles == {Lower[w] : w \in Range(p.roles)}
        wanted == {Lower[w] : w \in g.args}
    IN  CASE g.kind = "RequireScope" -> g.args \subseteq scopes
          [] g.kind = "RequireAnyScope" -> g.args = {} \/ g.args \cap scopes # {}
          [] g.kind = "RequireMethod" -> p.method \in g.args
          [] g.kind = "RequireRole" -> wanted \subseteq roles
          [] g.kind = "RequireAnyRole" -> wanted = {} \/ wanted \cap roles # {}

\* The code the guard refuses with.
GuardCode(g) ==
    CASE g.kind \in {"RequireScope", "RequireAnyScope"} -> "insufficient_scope"
      [] g.kind = "RequireMethod" -> "disallowed_auth_flow"
      [] OTHER -> "insufficient_role"

\* A request arrives at a route with guard g behind a middleware with authenticator a.
\* revoked is history: the keys revoked before the request arrived.
Arrive(r, in, g, a) ==
    /\ req[r].pc \in {"idle", "handled", "rejected"}
    /\ req' = [req EXCEPT ![r] = [pc |-> "authenticate", in |-> in, guard |-> g,
           auth |-> a, revoked |-> {k \in Keys : records[k].revoked}]]
    /\ UNCHANGED <<records, now>>

\* given is history: the principal that Authenticate returned.
Goto(r, pc, given, p) == req' = [req EXCEPT ![r] =
    [pc |-> pc, in |-> @.in, guard |-> @.guard, auth |-> @.auth, revoked |-> @.revoked,
     given |-> given, principal |-> p]]

\* Authenticate: extraction, and the validator up to its last access to shared state.
Authenticate(r) ==
    LET cred == Extract(req[r].in)
        res == IF cred.type = "bearer" THEN ValidateToken(JWTs[cred.token], req[r].auth.bearer)
               ELSE IF cred.type = "error" THEN Fail(cred.token)
               ELSE IF ~req[r].auth.keys THEN Fail("not_configured")
               ELSE Fail(LookupError(cred.token))
    IN  /\ req[r].pc = "authenticate"
        /\ IF res.err # Empty THEN Reject(r, 401, ErrorCode(res.err))
           ELSE IF cred.type = "bearer" THEN Goto(r, "transform", res.principal, res.principal)
           ELSE Goto(r, "convert", NoPrincipal, NoPrincipal)
        /\ UNCHANGED <<records, now>>

ValidateKey(r) ==
    /\ req[r].pc = "convert"
    /\ \E p \in {KeyPrincipal(Extract(req[r].in).token)} : Goto(r, "transform", p, p)
    /\ UNCHANGED <<records, now>>

\* The ClaimsTransformer is the application's: it may fail, and what it returns, another
\* principal or none, is stored as it is. Without one, Transformed(p) is {Ok(p)}.
Transform(r) ==
    /\ req[r].pc = "transform"
    /\ \E res \in Transformed(req[r].principal) :
          IF res.err # Empty THEN Reject(r, 401, ErrorCode(res.err))
          ELSE Goto(r, "guard", req[r].given, res.principal)
    /\ UNCHANGED <<records, now>>

\* User(c), which looks under the default key.
User(r) == IF ContextKey = "authn.principal" THEN req[r].principal ELSE NoPrincipal

Guard(r) ==
    /\ req[r].pc = "guard"
    /\ IF User(r) = NoPrincipal THEN Reject(r, 401, "unauthorized")
       ELSE IF ~Passes(User(r), req[r].guard) THEN Reject(r, 403, GuardCode(req[r].guard))
       ELSE Goto(r, "handled", req[r].given, User(r))
    /\ UNCHANGED <<records, now>>

Tick == now < MaxTime /\ now' = now + 1 /\ UNCHANGED <<records, req>>

Init ==
    /\ records = [k \in Keys |-> NoRecord]
    /\ req = [r \in Requests |-> NoRequest]
    /\ now = 0

Next ==
    \/ \E k \in Keys, h \in Holders, ttl \in TTLs : CreateKey(k, h, ttl)
    \/ \E k \in Keys : RevokeKey(k)
    \/ \E r \in Requests :
          \/ \E in \in Inputs, g \in Guards, a \in Authenticators : Arrive(r, in, g, a)
          \/ Authenticate(r) \/ ValidateKey(r) \/ Transform(r) \/ Guard(r)
    \/ Tick

Spec == Init /\ [][Next]_vars

-----------------------------------------------------------------------------
(* Properties                                                              *)

\* The credentials a request carries in its headers.
Presented(in) ==
    {c \in {[type |-> IF in.scheme = "bearer" THEN "bearer" ELSE "api_key",
             token |-> in.token],
            [type |-> "api_key", token |-> in.header]} : c.token # Empty}

\* A key revoked before a request arrived does not get it handled, although Lookup
\* hands out a shared record and a revocation in between goes unnoticed.
RevokedKeyRefused ==
    \A r \in Requests :
        req[r].pc = "handled" /\ Extract(req[r].in).type = "api_key" =>
            Extract(req[r].in).token \notin req[r].revoked

\* p is the principal of a credential: of the token's subject, or of the key's holder.
PrincipalOf(cred, p) ==
    IF cred.type = "bearer" THEN p.subject = JWTs[cred.token].claims["sub"]
    ELSE LET h == records[cred.token].holder
         IN  <<p.subject, p.clientID, p.scopes, p.roles>> = <<h.owner, h.client, h.scopes, h.roles>>

\* The transformer returns p without an error for the principal it is given.
Returned(given, p) == \E res \in Transformed(given) : res.err = Empty /\ res.principal = p

\* A request that is handled was judged by the only credential in its headers (the
\* comparisons in Extract); the transformer was given the principal of that credential,
\* the token's subject or the holder of the key, whoever revoked or created keys in
\* between; and the handler runs with what the transformer returned for that principal,
\* which meets the guard.
HandledByItsCredential ==
    \A r \in Requests : req[r].pc = "handled" =>
        LET cred == Extract(req[r].in)
            given == req[r].given
            p == req[r].principal
        IN  /\ Presented(req[r].in) \subseteq {cred}
            /\ PrincipalOf(cred, given) /\ Returned(given, p)
            /\ p # NoPrincipal /\ Passes(p, req[r].guard)

=============================================================================
