------------------------- MODULE AuthenticationProofs -------------------------
(***************************************************************************)
(* Which credential a request is handled with, for every set of requests,  *)
(* keys, tokens and guards, whatever the order of revocations, creations   *)
(* and the steps of the requests; and the provider that signs tokens, for  *)
(* every number of clients, users, codes and concurrent exchanges and      *)
(* every lifetime of codes, with its tokens as the validator reads them.   *)
(***************************************************************************)
EXTENDS Authentication, IssuedClaims, OAuthTokens, TLAPS

-----------------------------------------------------------------------------
(* Requests and their credentials                                          *)

\* The requests whose credential was accepted.
Accepted == {"convert", "transform", "guard", "handled"}

RecordInv ==
    /\ records \in [Keys -> [holder : Holders \cup {NoHolder}, expiresAt : Int \cup {Never},
                             revoked : BOOLEAN]]
    /\ now \in Int

\* A revocation is never taken back, so a request that is about to look up its key finds
\* every revocation that it arrived behind.
RevocationInv ==
    \A r \in Requests :
        /\ req[r].pc = "authenticate" =>
              \A k \in req[r].revoked : k \in Keys /\ records[k].revoked
        /\ req[r].pc \in Accepted /\ Extract(req[r].in).type = "api_key" =>
              Extract(req[r].in).token \notin req[r].revoked

\* A request is on with the credential that was extracted, the principal made of it and
\* what the transformer returned for that; the record of a key that was found stays.
CredentialOf(r) ==
    LET cred == Extract(req[r].in)
        given == req[r].given
        p == req[r].principal
    IN  /\ req[r].pc \in Accepted \cup {"authenticate"} => req[r].in \in Inputs
        /\ req[r].pc \in Accepted =>
              /\ cred.type \in {"bearer", "api_key"}
              /\ cred.type = "api_key" => cred.token \in Keys /\ records[cred.token] # NoRecord
        /\ req[r].pc = "convert" => cred.type = "api_key"
        /\ req[r].pc \in {"transform", "guard", "handled"} => PrincipalOf(cred, given)
        /\ req[r].pc = "transform" => p = given
        /\ req[r].pc \in {"guard", "handled"} => Returned(given, p)
        /\ req[r].pc = "handled" => p # NoPrincipal /\ Passes(p, req[r].guard)

CredentialInv == \A r \in Requests : CredentialOf(r)

RequestInv == DOMAIN req = Requests /\ RecordInv /\ RevocationInv /\ CredentialInv

-----------------------------------------------------------------------------
(* The operators                                                           *)

\* Errors and schemes are words.
LEMMA WordsNotEmpty ==
  /\ Empty # "bearer" /\ Empty # "apikey" /\ Empty # "key"
  /\ Empty # "invalid_header" /\ Empty # "multiple" /\ Empty # "no_credentials"
  /\ Empty # "invalid_token" /\ Empty # "missing_subject" /\ Empty # "not_configured"
  /\ Empty # "key_not_found" /\ Empty # "key_revoked" /\ Empty # "key_expired"
BY Zenon DEF Empty

\* The alternative that is taken: the first that is not nothing.
LEMMA FirstSome ==
  ASSUME NEW s, NEW nothing, DOMAIN s \subseteq Nat, NEW n \in DOMAIN s, s[n] # nothing,
         \A i \in DOMAIN s : i < n => s[i] = nothing
  PROVE  FirstOf(s, nothing) = s[n]
<1> DEFINE Some == {i \in DOMAIN s : s[i] # nothing}
<1>1. n \in Some /\ \A j \in Some : n <= j
  OBVIOUS
<1>2. \A i \in Some : (\A j \in Some : i <= j) => i = n
  BY <1>1
<1>3. n = CHOOSE i \in Some : \A j \in Some : i <= j
  BY <1>1, <1>2, Zenon
<1> QED
  BY <1>1, <1>3, Zenon DEF FirstOf

\* Nothing is taken only if all are nothing, or none is.
LEMMA FirstOfNothing ==
  ASSUME NEW s, NEW nothing, \A i \in DOMAIN s : s[i] = nothing
  PROVE  FirstOf(s, nothing) = nothing
BY DEF FirstOf

\* Of three alternatives the first that is not nothing is taken.
LEMMA FirstOfThree ==
  ASSUME NEW a, NEW b, NEW c, NEW nothing
  PROVE  FirstOf(<<a, b, c>>, nothing) =
            IF a # nothing THEN a ELSE IF b # nothing THEN b ELSE c
<1> DEFINE s == <<a, b, c>>
<1>1. DOMAIN s = {1, 2, 3} /\ s[1] = a /\ s[2] = b /\ s[3] = c
  OBVIOUS
<1> SUFFICES FirstOf(s, nothing) = IF a # nothing THEN a ELSE IF b # nothing THEN b ELSE c
  BY Zenon
<1> HIDE DEF s
<1>2. CASE a # nothing
  BY <1>1, <1>2, FirstSome
<1>3. CASE a = nothing /\ b # nothing
  BY <1>1, <1>3, FirstSome
<1>4. CASE a = nothing /\ b = nothing /\ c # nothing
  BY <1>1, <1>4, FirstSome
<1>5. CASE a = nothing /\ b = nothing /\ c = nothing
  BY <1>1, <1>5, FirstOfNothing, Zenon
<1> QED
  BY <1>2, <1>3, <1>4, <1>5, Zenon

\* A credential that Extract returns is the only one in the headers, and an error of
\* Extract is not empty.
LEMMA ExtractOnlyCredential ==
  ASSUME NEW in \in Inputs
  PROVE  /\ Extract(in).type \in {"bearer", "api_key"} => Presented(in) \subseteq {Extract(in)}
         /\ Extract(in).type \in {"bearer", "api_key", "error"}
         /\ Extract(in).type = "error" => Extract(in).token # Empty
<1> DEFINE bearer == IF in.scheme = "bearer" THEN in.token ELSE Empty
           schemeKey == IF in.scheme \in {"apikey", "key"} THEN in.token ELSE Empty
           query == IF AllowQueryAPIKey THEN in.query ELSE Empty
           apiKey == FirstOf(<<in.header, schemeKey, query>>, Empty)
           Error(e) == [type |-> "error", token |-> e]
<1>1. apiKey = IF in.header # Empty THEN in.header ELSE IF schemeKey # Empty THEN schemeKey ELSE query
  <2> HIDE DEF schemeKey, query
  <2> QED
    BY FirstOfThree
<1>2. Extract(in) =
        IF in.scheme \notin {Empty, "bearer", "apikey", "key"} THEN Error("invalid_header")
        ELSE IF schemeKey # Empty /\ in.header \notin {Empty, schemeKey} THEN Error("multiple")
        ELSE IF bearer # Empty /\ apiKey # Empty THEN Error("multiple")
        ELSE IF bearer # Empty THEN [type |-> "bearer", token |-> bearer]
        ELSE IF apiKey # Empty THEN [type |-> "api_key", token |-> apiKey]
        ELSE Error("no_credentials")
  BY Zenon DEF Extract
<1>3. in.scheme = Empty => in.token = Empty
  BY AuthenticationAssumption, Zenon
<1>4. Presented(in) \subseteq {[type |-> IF in.scheme = "bearer" THEN "bearer" ELSE "api_key",
                                token |-> in.token],
                               [type |-> "api_key", token |-> in.header]}
  BY Zenon DEF Presented
<1>5. \A c \in Presented(in) : c.token # Empty
  BY Zenon DEF Presented
<1> HIDE DEF apiKey
<1>6. CASE /\ in.scheme = "bearer" /\ in.token # Empty /\ apiKey = Empty
  <2>1. Extract(in) = [type |-> "bearer", token |-> in.token]
    BY <1>2, <1>6, Zenon
  <2>2. in.header = Empty
    BY <1>1, <1>6, Zenon
  <2> QED
    BY <1>4, <1>5, <1>6, <2>1, <2>2
<1>7. CASE /\ in.scheme \in {Empty, "bearer", "apikey", "key"}
           /\ bearer = Empty /\ apiKey # Empty /\ ~(schemeKey # Empty /\ in.header \notin {Empty, schemeKey})
  <2>1. Extract(in) = [type |-> "api_key", token |-> apiKey]
    BY <1>2, <1>7, Zenon
  <2>2. in.scheme = "bearer" => in.token = Empty
    BY <1>7, Zenon
  <2>3. in.header # Empty => apiKey = in.header
    BY <1>1, Zenon
  <2>4. in.scheme # "bearer" /\ in.token # Empty => apiKey = in.token
    BY <1>1, <1>3, <1>7, Zenon
  <2> QED
    BY <1>4, <1>5, <2>1, <2>2, <2>3, <2>4
<1>8. CASE Extract(in).type = "error"
  BY <1>2, <1>8, WordsNotEmpty
<1> QED
  BY <1>2, <1>6, <1>7, <1>8

\* A principal that a normalizer makes of claims has their subject.
LEMMA NormalizedSubject ==
  ASSUME NEW cs
  PROVE  /\ Normalize(cs) # NoPrincipal => Normalize(cs).subject = cs["sub"]
         /\ CognitoNormalize(cs) # NoPrincipal => CognitoNormalize(cs).subject = cs["sub"]
<1>1. Normalize(cs) # NoPrincipal => Normalize(cs).subject = cs["sub"]
  BY Zenon DEF Normalize, Str
<1>2. CASE Normalize(cs) = NoPrincipal
  BY <1>1, <1>2, Zenon DEF CognitoNormalize
<1>3. CASE Normalize(cs) # NoPrincipal
  <2>1. "subject" \in DOMAIN Normalize(cs)
    BY <1>3, Zenon DEF Normalize
  <2>2. CognitoNormalize(cs).subject = Normalize(cs).subject
    BY <1>3, <2>1, Zenon DEF CognitoNormalize
  <2> QED
    BY <1>1, <1>3, <2>2, Zenon
<1> QED
  BY <1>2, <1>3, Zenon

\* What fails has an error.
LEMMA FailHasError == \A e : Fail(e).err = e
BY DEF Fail

\* A token that is accepted yields a principal with the token's subject.
LEMMA ValidateTokenSubject ==
  ASSUME NEW t, NEW validator, ValidateToken(t, validator).err = Empty
  PROVE  ValidateToken(t, validator).principal.subject = t.claims["sub"]
<1>1. ASSUME NEW p, Normalized(p).err = Empty
      PROVE  Normalized(p).principal = p /\ p # NoPrincipal
  BY <1>1, WordsNotEmpty, Zenon DEF Normalized, Fail, Ok
<1>2. CASE validator = "jwt"
  <2>1. ValidateToken(t, validator) = JWTValidateToken(t)
    BY <1>2, Zenon DEF ValidateToken
  <2>2. CASE ParseError(t) # Empty
    BY <2>1, <2>2, FailHasError, Zenon DEF JWTValidateToken
  <2>3. CASE ParseError(t) = Empty
    <3>1. ValidateToken(t, validator) = Normalized(Normalize(t.claims))
      BY <2>1, <2>3, Zenon DEF JWTValidateToken
    <3>2. ValidateToken(t, validator).principal = Normalize(t.claims) /\ Normalize(t.claims) # NoPrincipal
      BY <1>1, <3>1, Zenon
    <3> QED
      BY <3>2, NormalizedSubject, Zenon
  <2> QED
    BY <2>2, <2>3, Zenon
<1>3. CASE validator = "oidc"
  <2>1. ValidateToken(t, validator) = OIDCValidateToken(t)
    BY <1>3, Zenon DEF ValidateToken
  <2>2. CASE Unverified(t)
    BY <2>1, <2>2, FailHasError, WordsNotEmpty, Zenon DEF OIDCValidateToken
  <2>3. CASE ~Unverified(t)
    <3>1. ValidateToken(t, validator) = Normalized(CognitoNormalize(t.claims))
      BY <2>1, <2>3, Zenon DEF OIDCValidateToken
    <3>2. ValidateToken(t, validator).principal = CognitoNormalize(t.claims) /\ CognitoNormalize(t.claims) # NoPrincipal
      BY <1>1, <3>1, Zenon
    <3> QED
      BY <3>2, NormalizedSubject, Zenon
  <2> QED
    BY <2>2, <2>3, Zenon
<1>4. CASE validator \notin {"jwt", "oidc"}
  BY <1>4, WordsNotEmpty, Zenon DEF ValidateToken, Fail
<1> QED
  BY <1>2, <1>3, <1>4, Zenon

\* A key that Lookup accepts has a record, which is not revoked.
LEMMA LookupAccepts ==
  ASSUME NEW k, LookupError(k) = Empty
  PROVE  k \in Keys /\ records[k] # NoRecord /\ ~records[k].revoked
BY WordsNotEmpty DEF LookupError

-----------------------------------------------------------------------------
(* The invariant                                                           *)

\* The steps of a request leave the other requests alone.
LEMMA Stepped ==
  ASSUME NEW r \in Requests, DOMAIN req = Requests, NEW v, req' = [req EXCEPT ![r] = v]
  PROVE  /\ DOMAIN req' = Requests
         /\ req'[r] = v
         /\ \A q \in Requests \ {r} : req'[q] = req[q]
OBVIOUS

\* A request that does not move keeps its credential.
LEMMA OtherRequest ==
  ASSUME RequestInv, NEW q \in Requests, req'[q] = req[q], UNCHANGED records
  PROVE  CredentialOf(q)'
<1>1. CredentialOf(q)
  BY Zenon DEF RequestInv, CredentialInv
<1> QED
  BY <1>1, Zenon DEF CredentialOf, PrincipalOf

\* No request: nothing is claimed of it.
LEMMA RejectRequest ==
  ASSUME RequestInv, NEW r \in Requests, NEW status, NEW code, Reject(r, status, code),
         UNCHANGED <<records, now>>
  PROVE  RequestInv'
<1>1. /\ DOMAIN req' = Requests
      /\ req'[r].pc = "rejected" /\ UNCHANGED records
      /\ \A q \in Requests \ {r} : req'[q] = req[q]
  BY Stepped, Zenon DEF Reject, RequestInv
<1>2. RecordInv'
  BY Zenon DEF RecordInv, RequestInv
<1>3. RevocationInv'
  BY <1>1, Zenon DEF RevocationInv, RequestInv, Accepted
<1>4. CredentialInv'
  <2>1. ASSUME NEW q \in Requests \ {r} PROVE CredentialOf(q)'
    BY <1>1, OtherRequest, Zenon
  <2>2. CredentialOf(r)'
    BY <1>1, Zenon DEF CredentialOf, Accepted
  <2> QED
    BY <2>1, <2>2, Zenon DEF CredentialInv
<1> QED
  BY <1>1, <1>2, <1>3, <1>4, Zenon DEF RequestInv

\* The store may change where no key is: what was found stays.
LEMMA RecordsCredential ==
  ASSUME RequestInv, UNCHANGED req,
         \A k \in Keys : records[k] # NoRecord =>
            records'[k] # NoRecord /\ records'[k].holder = records[k].holder
  PROVE  CredentialInv'
<1> SUFFICES ASSUME NEW r \in Requests PROVE CredentialOf(r)'
  BY Zenon DEF CredentialInv
<1> DEFINE cred == Extract(req[r].in)
<1>1. CredentialOf(r)
  BY Zenon DEF RequestInv, CredentialInv
<1>2. cred' = cred
  BY Zenon
<1>3. ASSUME NEW p, req[r].pc \in Accepted
      PROVE  PrincipalOf(cred, p)' = PrincipalOf(cred, p)
  <2>1. CASE cred.type = "bearer"
    BY <1>2, <2>1, Zenon DEF PrincipalOf
  <2>2. CASE cred.type # "bearer"
    <3>1. cred.token \in Keys /\ records[cred.token] # NoRecord
      BY <1>1, <1>3, <2>2, Zenon DEF CredentialOf
    <3> HIDE DEF cred
    <3> QED
      BY <1>2, <2>2, <3>1, Zenon DEF PrincipalOf
  <2> QED
    BY <2>1, <2>2, Zenon
<1> QED
  BY <1>1, <1>2, <1>3 DEF CredentialOf, Accepted

\* A new key was nobody's credential and revoked for nobody.
LEMMA CreateKeyRequest ==
  ASSUME RequestInv, NEW k \in Keys, NEW h \in Holders, NEW ttl \in TTLs, CreateKey(k, h, ttl)
  PROVE  RequestInv'
<1>1. /\ UNCHANGED req /\ UNCHANGED now /\ DOMAIN req = Requests
      /\ records[k] = NoRecord /\ ~records[k].revoked
      /\ \A q \in Keys \ {k} : records'[q] = records[q]
  BY DEF CreateKey, RequestInv, RecordInv, NoRecord
<1>2. RecordInv'
  <2>1. ttl \in Int
    BY AuthenticationAssumption, Zenon
  <2>2. now + ttl \in Int
    BY <2>1 DEF RequestInv, RecordInv
  <2> QED
    BY <1>1, <2>2, Zenon DEF CreateKey, RequestInv, RecordInv
<1>3. RevocationInv'
  BY <1>1, Zenon DEF RevocationInv, RequestInv
<1>4. CredentialInv'
  BY <1>1, RecordsCredential, Zenon
<1> QED
  BY <1>1, <1>2, <1>3, <1>4, Zenon DEF RequestInv

\* A revocation leaves the holder of the key.
LEMMA RevokeKeyRequest ==
  ASSUME RequestInv, NEW k \in Keys, RevokeKey(k)
  PROVE  RequestInv'
<1>1. /\ UNCHANGED req /\ UNCHANGED now /\ DOMAIN req = Requests
      /\ \A q \in Keys : records'[q].holder = records[q].holder
      /\ \A q \in Keys : records[q].revoked => records'[q].revoked
      /\ records'[k].revoked
      /\ \A q \in Keys \ {k} : records'[q] = records[q]
  BY Zenon DEF RevokeKey, RequestInv, RecordInv
<1>2. RecordInv'
  BY <1>1 DEF RevokeKey, RequestInv, RecordInv
<1>3. RevocationInv'
  BY <1>1, Zenon DEF RevocationInv, RequestInv
<1>4. \A q \in Keys : records[q] # NoRecord => records'[q] # NoRecord
  BY <1>1 DEF NoRecord
<1>5. CredentialInv'
  BY <1>1, <1>4, RecordsCredential, Zenon
<1> QED
  BY <1>1, <1>2, <1>3, <1>5, Zenon DEF RequestInv

\* A request that arrives is told of the revocations so far.
LEMMA ArriveRequest ==
  ASSUME RequestInv, NEW r \in Requests, NEW in \in Inputs, NEW g \in Guards,
         NEW a \in Authenticators, Arrive(r, in, g, a)
  PROVE  RequestInv'
<1>1. /\ DOMAIN req' = Requests
      /\ req'[r].pc = "authenticate" /\ req'[r].in = in
      /\ req'[r].revoked = {k \in Keys : records[k].revoked}
      /\ \A q \in Requests \ {r} : req'[q] = req[q]
      /\ UNCHANGED records
  BY Stepped, Zenon DEF Arrive, RequestInv
<1>2. RecordInv'
  BY Zenon DEF RecordInv, RequestInv, Arrive
<1>3. RevocationInv'
  BY <1>1, Zenon DEF RevocationInv, RequestInv, Accepted
<1>4. CredentialInv'
  <2>1. ASSUME NEW q \in Requests \ {r} PROVE CredentialOf(q)'
    BY <1>1, OtherRequest, Zenon
  <2>2. CredentialOf(r)'
    BY <1>1, Zenon DEF CredentialOf, Accepted
  <2> QED
    BY <2>1, <2>2, Zenon DEF CredentialInv
<1> QED
  BY <1>1, <1>2, <1>3, <1>4, Zenon DEF RequestInv

\* A step from one place to the next keeps what is known of the request, if its
\* principal is right at the new place.
LEMMA GotoRequest ==
  ASSUME RequestInv, NEW r \in Requests, NEW pc \in Accepted, NEW given, NEW p,
         Goto(r, pc, given, p),
         UNCHANGED <<records, now>>,
         req[r].in \in Inputs,
         Extract(req[r].in).type \in {"bearer", "api_key"},
         Extract(req[r].in).type = "api_key" =>
            /\ Extract(req[r].in).token \in Keys
            /\ records[Extract(req[r].in).token] # NoRecord
            /\ Extract(req[r].in).token \notin req[r].revoked,
         pc = "convert" => Extract(req[r].in).type = "api_key",
         pc \in {"transform", "guard", "handled"} => PrincipalOf(Extract(req[r].in), given),
         pc = "transform" => p = given,
         pc \in {"guard", "handled"} => Returned(given, p),
         pc = "handled" => p # NoPrincipal /\ Passes(p, req[r].guard)
  PROVE  RequestInv'
<1>1. /\ DOMAIN req' = Requests
      /\ req'[r].pc = pc /\ req'[r].in = req[r].in /\ req'[r].guard = req[r].guard
      /\ req'[r].revoked = req[r].revoked /\ req'[r].given = given /\ req'[r].principal = p
      /\ \A q \in Requests \ {r} : req'[q] = req[q]
  BY Stepped, Zenon DEF Goto, RequestInv
<1>2. RecordInv'
  BY Zenon DEF RecordInv, RequestInv
<1>3. RevocationInv'
  <2>1. pc # "authenticate"
    BY Zenon DEF Accepted
  <2> QED
    BY <1>1, <2>1 DEF RevocationInv, RequestInv
<1>4. CredentialInv'
  <2>1. ASSUME NEW q \in Requests \ {r} PROVE CredentialOf(q)'
    BY <1>1, OtherRequest, Zenon
  <2>2. CredentialOf(r)'
    BY <1>1, Zenon DEF CredentialOf, PrincipalOf, Accepted
  <2> QED
    BY <2>1, <2>2, Zenon DEF CredentialInv
<1> QED
  BY <1>1, <1>2, <1>3, <1>4, Zenon DEF RequestInv

\* What Authenticate goes on with was validated by the validator of its type.
LEMMA AuthenticateRequest ==
  ASSUME RequestInv, NEW r \in Requests, Authenticate(r)
  PROVE  RequestInv'
<1> DEFINE in == req[r].in
           cred == Extract(in)
           token == ValidateToken(JWTs[cred.token], req[r].auth.bearer)
           res == IF cred.type = "bearer" THEN token
                  ELSE IF cred.type = "error" THEN Fail(cred.token)
                  ELSE IF ~req[r].auth.keys THEN Fail("not_configured")
                  ELSE Fail(LookupError(cred.token))
<1>1. /\ req[r].pc = "authenticate"
      /\ IF res.err # Empty THEN Reject(r, 401, ErrorCode(res.err))
         ELSE IF cred.type = "bearer" THEN Goto(r, "transform", res.principal, res.principal)
         ELSE Goto(r, "convert", NoPrincipal, NoPrincipal)
      /\ UNCHANGED <<records, now>>
  BY Zenon DEF Authenticate
<1>2. in \in Inputs /\ CredentialOf(r)
  BY <1>1, Zenon DEF RequestInv, CredentialInv, CredentialOf
<1>3. \A k \in req[r].revoked : k \in Keys /\ records[k].revoked
  BY <1>1, Zenon DEF RequestInv, RevocationInv
<1>4. /\ cred.type \in {"bearer", "api_key", "error"}
      /\ cred.type = "error" => cred.token # Empty
  BY <1>2, ExtractOnlyCredential, Zenon
<1> HIDE DEF res, token
<1>5. CASE res.err # Empty
  <2>1. Reject(r, 401, ErrorCode(res.err))
    BY <1>1, <1>5, Zenon
  <2> QED
    BY <1>1, <2>1, RejectRequest
<1>6. CASE res.err = Empty /\ cred.type = "bearer"
  <2>1. res = token
    BY <1>6, Zenon DEF res
  <2>2. token.err = Empty /\ Goto(r, "transform", token.principal, token.principal)
    BY <1>1, <1>6, <2>1, Zenon
  <2>3. token.principal.subject = JWTs[cred.token].claims["sub"]
    BY <2>2, ValidateTokenSubject, Zenon DEF token
  <2>4. PrincipalOf(cred, token.principal)
    BY <1>6, <2>3, Zenon DEF PrincipalOf
  <2>5. "transform" \in Accepted
    BY Zenon DEF Accepted
  <2> QED
    BY <1>1, <1>2, <1>6, <2>2, <2>4, <2>5, GotoRequest, Zenon
<1>7. CASE res.err = Empty /\ cred.type # "bearer"
  <2>1. cred.type = "api_key" /\ res = Fail(LookupError(cred.token))
    <3>1. cred.type # "error" /\ req[r].auth.keys
      BY <1>4, <1>7, FailHasError, WordsNotEmpty, Zenon DEF res
    <3> QED
      BY <1>4, <1>7, <3>1, Zenon DEF res
  <2>2. LookupError(cred.token) = Empty
    BY <1>7, <2>1, FailHasError, Zenon
  <2>3. cred.token \in Keys /\ records[cred.token] # NoRecord /\ ~records[cred.token].revoked
    BY <2>2, LookupAccepts, Zenon
  <2>4. Goto(r, "convert", NoPrincipal, NoPrincipal) /\ "convert" \in Accepted
    BY <1>1, <1>7, Zenon DEF Accepted
  <2>5. cred.token \notin req[r].revoked
    BY <1>3, <2>3, Zenon
  <2> QED
    BY <1>1, <1>2, <2>1, <2>3, <2>4, <2>5, GotoRequest, Zenon
<1> QED
  BY <1>5, <1>6, <1>7, Zenon

\* What is known of a request whose credential was accepted.
LEMMA AcceptedRequest ==
  ASSUME RequestInv, NEW r \in Requests, req[r].pc \in Accepted
  PROVE  /\ req[r].in \in Inputs
         /\ Extract(req[r].in).type \in {"bearer", "api_key"}
         /\ Extract(req[r].in).type = "api_key" =>
              /\ Extract(req[r].in).token \in Keys
              /\ records[Extract(req[r].in).token] # NoRecord
              /\ Extract(req[r].in).token \notin req[r].revoked
<1>1. CredentialOf(r)
  BY Zenon DEF RequestInv, CredentialInv
<1>2. Extract(req[r].in).type = "api_key" => Extract(req[r].in).token \notin req[r].revoked
  BY Zenon DEF RequestInv, RevocationInv
<1> QED
  BY <1>1, <1>2, Zenon DEF CredentialOf

\* ValidateKey makes the principal of the record that is there now.
LEMMA ValidateKeyRequest ==
  ASSUME RequestInv, NEW r \in Requests, ValidateKey(r)
  PROVE  RequestInv'
<1> DEFINE cred == Extract(req[r].in)
<1>1. /\ req[r].pc = "convert" /\ req[r].pc \in Accepted /\ "transform" \in Accepted
      /\ Goto(r, "transform", KeyPrincipal(cred.token), KeyPrincipal(cred.token))
      /\ UNCHANGED <<records, now>>
  BY Zenon DEF ValidateKey, Accepted
<1>2. cred.type = "api_key"
  BY <1>1, Zenon DEF RequestInv, CredentialInv, CredentialOf
<1>3. PrincipalOf(cred, KeyPrincipal(cred.token))
  BY <1>2, Zenon DEF PrincipalOf, KeyPrincipal
<1> QED
  BY <1>1, <1>3, AcceptedRequest, GotoRequest, Zenon

\* What the transformer returns for the principal it was given is stored.
LEMMA TransformRequest ==
  ASSUME RequestInv, NEW r \in Requests, Transform(r)
  PROVE  RequestInv'
<1> DEFINE cred == Extract(req[r].in)
           given == req[r].given
<1>1. /\ req[r].pc = "transform" /\ req[r].pc \in Accepted /\ "guard" \in Accepted
      /\ UNCHANGED <<records, now>>
  BY Zenon DEF Transform, Accepted
<1>2. PrincipalOf(cred, given) /\ req[r].principal = given
  BY <1>1, Zenon DEF RequestInv, CredentialInv, CredentialOf
<1>3. PICK res \in Transformed(given) :
         IF res.err # Empty THEN Reject(r, 401, ErrorCode(res.err))
         ELSE Goto(r, "guard", given, res.principal)
  BY <1>2, Zenon DEF Transform
<1>4. CASE res.err # Empty
  <2>1. Reject(r, 401, ErrorCode(res.err))
    BY <1>3, <1>4, Zenon
  <2> QED
    BY <1>1, <2>1, RejectRequest
<1>5. CASE res.err = Empty
  <2>1. Goto(r, "guard", given, res.principal)
    BY <1>3, <1>5, Zenon
  <2>2. Returned(given, res.principal)
    BY <1>3, <1>5, Zenon DEF Returned
  <2> QED
    BY <1>1, <1>2, <2>1, <2>2, AcceptedRequest, GotoRequest, Zenon
<1> QED
  BY <1>4, <1>5, Zenon

\* The guard lets a principal through that meets it.
LEMMA GuardRequest ==
  ASSUME RequestInv, NEW r \in Requests, Guard(r)
  PROVE  RequestInv'
<1> DEFINE cred == Extract(req[r].in)
<1>1. /\ req[r].pc = "guard" /\ req[r].pc \in Accepted /\ "handled" \in Accepted
      /\ UNCHANGED <<records, now>>
  BY Zenon DEF Guard, Accepted
<1>2. PrincipalOf(cred, req[r].given) /\ Returned(req[r].given, req[r].principal)
  BY <1>1, Zenon DEF RequestInv, CredentialInv, CredentialOf
<1>3. CASE User(r) = NoPrincipal
  <2>1. Reject(r, 401, "unauthorized")
    BY <1>3, Zenon DEF Guard
  <2> QED
    BY <1>1, <2>1, RejectRequest
<1>4. CASE User(r) # NoPrincipal /\ ~Passes(User(r), req[r].guard)
  <2>1. Reject(r, 403, GuardCode(req[r].guard))
    BY <1>4, Zenon DEF Guard
  <2> QED
    BY <1>1, <2>1, RejectRequest
<1>5. CASE User(r) # NoPrincipal /\ Passes(User(r), req[r].guard)
  <2>1. Goto(r, "handled", req[r].given, User(r))
    BY <1>5, Zenon DEF Guard
  <2>2. User(r) = req[r].principal
    BY <1>5, Zenon DEF User
  <2>3. Returned(req[r].given, User(r))
    BY <1>2, <2>2, Zenon
  <2> QED
    BY <1>1, <1>2, <1>5, <2>1, <2>3, AcceptedRequest, GotoRequest, Zenon
<1> QED
  BY <1>3, <1>4, <1>5, Zenon

\* The invariant holds throughout.
LEMMA RequestInvariant == Spec => []RequestInv
<1>1. Init => RequestInv
  <2> SUFFICES ASSUME Init PROVE RequestInv
    BY Zenon
  <2>1. /\ DOMAIN req = Requests
        /\ \A r \in Requests : req[r].pc = "idle"
    BY Zenon DEF Init, NoRequest
  <2>2. RecordInv
    BY DEF Init, RecordInv, NoRecord
  <2>3. RevocationInv
    BY <2>1, Zenon DEF RevocationInv, Accepted
  <2>4. CredentialInv
    BY <2>1, Zenon DEF CredentialInv, CredentialOf, Accepted
  <2> QED
    BY <2>1, <2>2, <2>3, <2>4, Zenon DEF RequestInv
<1>2. RequestInv /\ [Next]_vars => RequestInv'
  <2> SUFFICES ASSUME RequestInv, [Next]_vars PROVE RequestInv'
    BY Zenon
  <2>1. ASSUME NEW k \in Keys, NEW h \in Holders, NEW ttl \in TTLs, CreateKey(k, h, ttl)
        PROVE  RequestInv'
    BY <2>1, CreateKeyRequest, Zenon
  <2>2. ASSUME NEW k \in Keys, RevokeKey(k) PROVE RequestInv'
    BY <2>2, RevokeKeyRequest, Zenon
  <2>3. ASSUME NEW r \in Requests, NEW in \in Inputs, NEW g \in Guards,
         NEW a \in Authenticators, Arrive(r, in, g, a)
        PROVE  RequestInv'
    BY <2>3, ArriveRequest, Zenon
  <2>4. ASSUME NEW r \in Requests, Authenticate(r) PROVE RequestInv'
    BY <2>4, AuthenticateRequest, Zenon
  <2>5. ASSUME NEW r \in Requests, ValidateKey(r) PROVE RequestInv'
    BY <2>5, ValidateKeyRequest, Zenon
  <2>6. ASSUME NEW r \in Requests, Transform(r) PROVE RequestInv'
    BY <2>6, TransformRequest, Zenon
  <2>7. ASSUME NEW r \in Requests, Guard(r) PROVE RequestInv'
    BY <2>7, GuardRequest, Zenon
  <2>8. ASSUME UNCHANGED <<records, req>>, now' \in Int PROVE RequestInv'
    <3>1. CredentialInv'
      BY <2>8, RecordsCredential, Zenon
    <3> QED
      BY <2>8, <3>1, Zenon DEF RequestInv, RecordInv, RevocationInv
  <2>9. CASE Tick
    <3>1. now' \in Int
      BY <2>9 DEF Tick, RequestInv, RecordInv
    <3> QED
      BY <2>8, <2>9, <3>1, Zenon DEF Tick
  <2>10. CASE UNCHANGED vars
    <3>1. now' \in Int
      BY <2>10, Zenon DEF vars, RequestInv, RecordInv
    <3> QED
      BY <2>8, <2>10, <3>1, Zenon DEF vars
  <2> QED
    BY <2>1, <2>2, <2>3, <2>4, <2>5, <2>6, <2>7, <2>9, <2>10, Zenon DEF Next
<1> QED
  BY <1>1, <1>2, PTL DEF Spec

\* A request is not handled with an API key that was revoked before it arrived, however
\* many keys and requests there are and wherever revocations fall between Lookup, the
\* rest of ValidateKey, the transformer and the guard.
THEOREM RevokedKeysRefused == Spec => []RevokedKeyRefused
<1>1. RequestInv => RevokedKeyRefused
  BY Zenon DEF RequestInv, RevocationInv, RevokedKeyRefused, Accepted
<1> QED
  BY <1>1, RequestInvariant, PTL

\* A request that is handled was judged by the only credential in its headers; the
\* transformer was given the principal of that credential and the handler runs with what
\* the transformer returned for it, which meets the guard: for every authenticator, every
\* token, every transformer and every sequence of changes to the key store.
THEOREM HandledByCredential == Spec => []HandledByItsCredential
<1>1. ASSUME RequestInv, NEW r \in Requests, req[r].pc = "handled"
      PROVE  LET cred == Extract(req[r].in)
                 given == req[r].given
                 p == req[r].principal
             IN  /\ Presented(req[r].in) \subseteq {cred}
                 /\ PrincipalOf(cred, given) /\ Returned(given, p)
                 /\ p # NoPrincipal /\ Passes(p, req[r].guard)
  <2>1. CredentialOf(r) /\ req[r].pc \in Accepted
    BY <1>1, Zenon DEF RequestInv, CredentialInv, Accepted
  <2>2. Presented(req[r].in) \subseteq {Extract(req[r].in)}
    BY <1>1, <2>1, AcceptedRequest, ExtractOnlyCredential, Zenon
  <2> QED
    BY <1>1, <2>1, <2>2, Zenon DEF CredentialOf
<1>2. RequestInv => HandledByItsCredential
  BY <1>1, Zenon DEF HandledByItsCredential
<1> QED
  BY <1>2, RequestInvariant, PTL

-----------------------------------------------------------------------------
(* The evidence for a user                                                 *)

\* The flows are words, and a machine is no user.
LEMMA Flows ==
  /\ Empty # ClientCredentials /\ Empty # PKCE /\ Empty # DeviceFlow
  /\ ClientCredentials \notin {PKCE, DeviceFlow}
<1>1. Empty # ClientCredentials /\ Empty # PKCE /\ Empty # DeviceFlow
  BY Zenon DEF Empty, ClientCredentials, PKCE, DeviceFlow
<1>2. ClientCredentials \notin {PKCE, DeviceFlow}
  BY Zenon DEF ClientCredentials, PKCE, DeviceFlow
<1> QED
  BY <1>1, <1>2, Zenon

\* Whatever claims a token has, one for a principal that is its own client is taken for
\* a user's only on the word of its grant type or its authentication methods: the
\* heuristics of determineOAuthFlow that come after cannot do it.
THEOREM UsersNeedEvidence == []UserNeedsEvidence
<1> DEFINE p == Normalize(claims)
           sub == Str(claims, "sub")
           clientID == extractClientID(claims)
           gty == FirstOf(<<Str(claims, "gty"), Str(claims, "grant_type")>>, Empty)
           amr == Words(claims, "amr", {"array"})
           named == [i \in DOMAIN amr |-> AmrFlow(amr[i])]
           evidence == <<GrantFlow(gty), FirstOf(named, Empty), MachineFlow(clientID, sub),
                         IF "device_code" \in DOMAIN claims THEN DeviceFlow ELSE Empty,
                         IF sub # Empty THEN PKCE ELSE Empty, "unknown">>
<1>1. ASSUME p # NoPrincipal, p.subject = p.clientID, p.method \in {PKCE, DeviceFlow},
             GrantFlow(gty) \notin {PKCE, DeviceFlow}
      PROVE  \E w \in Range(amr) : AmrFlow(w) # Empty
  <2>1. /\ sub # Empty /\ sub = clientID
        /\ p.method = determineOAuthFlow(claims, clientID, sub)
    BY <1>1, Zenon DEF Normalize
  <2>2. determineOAuthFlow(claims, clientID, sub) = FirstOf(evidence, Empty)
    BY Zenon DEF determineOAuthFlow
  <2>3. MachineFlow(clientID, sub) = ClientCredentials
    BY <2>1, Zenon DEF MachineFlow
  <2>4. /\ DOMAIN evidence = 1..6 /\ evidence[1] = GrantFlow(gty)
        /\ evidence[2] = FirstOf(named, Empty) /\ evidence[3] = ClientCredentials
    BY <2>3
  <2> HIDE DEF evidence, named
  <2>5. GrantFlow(gty) = Empty
    <3>1. CASE GrantFlow(gty) # Empty
      <4>1. FirstOf(evidence, Empty) = GrantFlow(gty)
        BY <2>4, <3>1, FirstSome
      <4> QED
        BY <1>1, <2>1, <2>2, <4>1, Zenon
    <3> QED
      BY <3>1, Zenon
  <2>6. FirstOf(named, Empty) # Empty
    <3>1. CASE FirstOf(named, Empty) = Empty
      <4>1. \A i \in DOMAIN evidence : i < 3 => evidence[i] = Empty
        BY <2>4, <2>5, <3>1
      <4>2. FirstOf(evidence, Empty) = ClientCredentials
        BY <2>4, <4>1, Flows, FirstSome
      <4> QED
        BY <1>1, <2>1, <2>2, <4>2, Flows, Zenon
    <3> QED
      BY <3>1, Zenon
  <2>7. PICK i \in DOMAIN named : named[i] # Empty
    BY <2>6, FirstOfNothing, Zenon
  <2>8. i \in DOMAIN amr /\ AmrFlow(amr[i]) # Empty
    BY <2>7, Zenon DEF named
  <2> QED
    BY <2>8, Zenon DEF Range
<1>2. UserNeedsEvidence
  BY <1>1, Zenon DEF UserNeedsEvidence, IsUserPresent
<1> QED
  BY <1>2, PTL

-----------------------------------------------------------------------------
(* The OAuth provider                                                      *)

\* Exchange x holds code c, which it took out of the map.
Holds(x, c) == exchange[x] # Idle /\ exchange[x].code = c

\* An authorization code is in one place: not handed out, in the map, in the hands of one
\* exchange, or spent.  No token was signed for it before it is spent.
CodeInv ==
    /\ \A c \in Codes : grant[c] = NoGrant =>
           minted[c] = 0 /\ c \notin authCodes /\ \A x \in Exchanges : ~Holds(x, c)
    /\ \A c \in authCodes : minted[c] = 0 /\ \A x \in Exchanges : ~Holds(x, c)
    /\ \A c \in Codes : \A x \in Exchanges :
           Holds(x, c) => minted[c] = 0 /\ \A y \in Exchanges : Holds(y, c) => y = x
    /\ \A c \in Codes : minted[c] <= 1

\* A device code is in the map from its request to its token, and a user code leads to
\* a device in the map that displays it.
DeviceInv ==
    /\ \A d \in DeviceCodes : device[d] = NoDevice => d \notin deviceCodes /\ minted[d] = 0
    /\ \A d \in deviceCodes : minted[d] = 0
    /\ \A d \in DeviceCodes : minted[d] <= 1
    /\ \A u \in UserCodes : userCodes[u] # None =>
           userCodes[u] \in deviceCodes /\ device[userCodes[u]].userCode = u

\* A device token is signed from an approved record that has left the map.
TokenInv ==
    \A t \in tokens : t.gty = DeviceGrant =>
        /\ t.code \in DeviceCodes \ deviceCodes
        /\ device[t.code].approved
        /\ device[t.code].user = t.sub

ProviderInv == OAuthTypeOK /\ CodeInv /\ DeviceInv /\ TokenInv /\ WaitingApprovable

-----------------------------------------------------------------------------

USE OAuthAssumption

\* What the records of the two maps hold.
Grants == [client : Clients, user : Users, challenge : Challenges, expiresAt : Nat]
Calls == [code : Codes, client : Clients, verifier : Verifiers]
Devices == [client : Clients, userCode : UserCodes, approved : BOOLEAN,
            user : Users \cup {None}, expiresAt : Nat]

\* A record in use differs from the one of a code that was not handed out.
LEMMA RecordsInUse ==
    /\ \A g \in Grants : g # NoGrant
    /\ \A e \in Calls : e # Idle
    /\ \A d \in Devices : d # NoDevice
BY DEF Grants, Calls, Devices, NoGrant, Idle, NoDevice

\* A provider starts without codes and without tokens.
LEMMA InitInv == OAuthInit => ProviderInv
<1> SUFFICES ASSUME OAuthInit PROVE ProviderInv
  BY Zenon
<1>1. OAuthTypeOK
  BY DEF OAuthInit, OAuthTypeOK
<1>2. CodeInv
  BY DEF OAuthInit, CodeInv, Holds
<1>3. DeviceInv
  BY DEF OAuthInit, DeviceInv
<1>4. TokenInv /\ WaitingApprovable
  BY Zenon DEF OAuthInit, TokenInv, WaitingApprovable
<1> QED
  BY <1>1, <1>2, <1>3, <1>4, Zenon DEF ProviderInv

-----------------------------------------------------------------------------
(* Client credentials and the clock                                        *)

\* Client credentials touch neither codes nor device codes.
LEMMA CredentialsInv ==
    ASSUME ProviderInv, NEW c \in Clients, NEW s \in Secrets,
           RegisterClient(c, s) \/ IssueClientCredentialsToken(c, s)
    PROVE  ProviderInv'
<1> USE DEF ProviderInv, RegisterClient, IssueClientCredentialsToken
<1>1. OAuthTypeOK'
  BY DEF OAuthTypeOK
<1>2. CodeInv'
  BY DEF CodeInv, Holds
<1>3. DeviceInv' /\ WaitingApprovable'
  BY DEF DeviceInv, WaitingApprovable, TakenBy
<1>4. TokenInv'
  BY DEF TokenInv, Token, DeviceGrant
<1> QED
  BY <1>1, <1>2, <1>3, <1>4, Zenon

\* Time changes what is expired, not what was issued.
LEMMA TickInv == ASSUME ProviderInv, TimePasses PROVE ProviderInv'
<1> USE DEF ProviderInv, TimePasses
<1>1. OAuthTypeOK'
  BY DEF OAuthTypeOK
<1>2. CodeInv'
  BY Zenon DEF CodeInv, Holds
<1>3. DeviceInv' /\ TokenInv' /\ WaitingApprovable'
  BY Zenon DEF DeviceInv, TokenInv, WaitingApprovable, TakenBy
<1> QED
  BY <1>1, <1>2, <1>3, Zenon

-----------------------------------------------------------------------------
(* Authorization codes                                                     *)

\* A fresh code is not spent and has no token.
LEMMA AuthorizeInv ==
    ASSUME ProviderInv, NEW code \in Codes, NEW client \in Clients, NEW user \in Users,
           NEW ch \in Challenges, AuthorizePKCE(code, client, user, ch)
    PROVE  ProviderInv'
<1> USE DEF ProviderInv, AuthorizePKCE
<1> DEFINE g == [client |-> client, user |-> user, challenge |-> ch, expiresAt |-> ExpiresAt(CodeTTL)]
<1>1. g \in Grants
  BY DEF Grants, ExpiresAt, OAuthTypeOK
<1>2. OAuthTypeOK'
  BY <1>1, Zenon DEF OAuthTypeOK, Grants
<1>3. CodeInv'
  <2>1. \A c \in Codes : grant'[c] = NoGrant => grant[c] = NoGrant /\ c # code
    BY <1>1, RecordsInUse, Zenon DEF OAuthTypeOK
  <2>2. \A x, c : Holds(x, c)' <=> Holds(x, c)
    BY Zenon DEF Holds
  <2> HIDE DEF g
  <2> QED
    BY <2>1, <2>2 DEF CodeInv, OAuthTypeOK
<1>4. DeviceInv' /\ TokenInv' /\ WaitingApprovable'
  BY Zenon DEF DeviceInv, TokenInv, WaitingApprovable, TakenBy
<1> QED
  BY <1>2, <1>3, <1>4, Zenon

\* Taking a code deletes it: only this exchange holds it from now on.
LEMMA TakeInv ==
    ASSUME ProviderInv, NEW x \in Exchanges, NEW client \in Clients, NEW code \in Codes,
           NEW v \in Verifiers, TakeCode(x, client, code, v)
    PROVE  ProviderInv'
<1> USE DEF ProviderInv, TakeCode
<1> DEFINE e == [code |-> code, client |-> client, verifier |-> v]
<1>1. e \in Calls /\ e # Idle /\ e.code = code
  BY RecordsInUse, Zenon DEF Calls
<1>2. OAuthTypeOK'
  BY <1>1, Zenon DEF OAuthTypeOK, Calls
<1>3. CodeInv'
  <2>1. \A y \in Exchanges, c \in Codes : Holds(y, c)' <=> IF y = x THEN c = code ELSE Holds(y, c)
    BY <1>1, Zenon DEF Holds, OAuthTypeOK
  <2>2. grant[code] # NoGrant /\ minted[code] = 0 /\ \A y \in Exchanges : ~Holds(y, code)
    BY Zenon DEF CodeInv
  <2> HIDE DEF e
  <2> QED
    BY <2>1, <2>2 DEF CodeInv, OAuthTypeOK
<1>4. DeviceInv' /\ TokenInv' /\ WaitingApprovable'
  BY DEF DeviceInv, TokenInv, WaitingApprovable, TakenBy
<1> QED
  BY <1>2, <1>3, <1>4, Zenon

\* The exchange that holds a code issues its one token, or none.
LEMMA CheckInv ==
    ASSUME ProviderInv, NEW x \in Exchanges, CheckCode(x)
    PROVE  ProviderInv'
<1> USE DEF ProviderInv, CheckCode
<1> DEFINE code == exchange[x].code
<1>1. code \in Codes /\ Holds(x, code) /\ minted[code] = 0
  BY DEF OAuthTypeOK, Holds, CodeInv
<1>2. \/ minted' = [minted EXCEPT ![code] = 1]
      \/ minted' = minted
  BY <1>1 DEF OAuthTypeOK
<1>3. OAuthTypeOK'
  <2>1. minted' \in [Codes \cup DeviceCodes -> Nat]
    BY <1>1, <1>2 DEF OAuthTypeOK
  <2> QED
    BY <2>1, Zenon DEF OAuthTypeOK
<1>4. CodeInv'
  <2>1. \A y \in Exchanges, c \in Codes : Holds(y, c)' <=> y # x /\ Holds(y, c)
    BY Zenon DEF Holds, OAuthTypeOK
  <2>2. \A c \in Codes : c # code => minted'[c] = minted[c]
    BY <1>2, Zenon DEF OAuthTypeOK
  <2>3. minted'[code] <= 1
    BY <1>1, <1>2 DEF OAuthTypeOK
  <2>4. grant[code] # NoGrant /\ code \notin authCodes /\ \A y \in Exchanges : Holds(y, code) => y = x
    BY <1>1, Zenon DEF CodeInv
  <2>5. authCodes' = authCodes /\ grant' = grant
    BY Zenon
  <2> HIDE DEF code, CheckCode
  <2> QED
    BY <1>1, <2>1, <2>2, <2>3, <2>4, <2>5 DEF CodeInv, OAuthTypeOK
<1>5. DeviceInv'
  <2>1. \A d \in DeviceCodes : minted'[d] = minted[d]
    BY <1>1, <1>2 DEF OAuthTypeOK
  <2> QED
    BY <2>1, Zenon DEF DeviceInv, OAuthTypeOK
<1>6. TokenInv'
  BY DEF TokenInv, Token, DeviceGrant
<1>7. WaitingApprovable'
  <2>1. \A d \in DeviceCodes : minted'[d] = minted[d]
    BY <1>1, <1>2 DEF OAuthTypeOK
  <2>2. UNCHANGED <<device, deviceCodes, userCodes>>
    BY Zenon
  <2> HIDE DEF CheckCode, code
  <2> QED
    BY <2>1, <2>2 DEF WaitingApprovable, TakenBy
<1> QED
  BY <1>3, <1>4, <1>5, <1>6, <1>7, Zenon

-----------------------------------------------------------------------------
(* Device codes                                                            *)

\* A device code that is requested waits for its user code.
LEMMA DeviceRequestInv ==
    ASSUME ProviderInv, NEW d \in DeviceCodes, NEW u \in UserCodes, NEW client \in Clients,
           RequestDeviceCode(d, u, client)
    PROVE  ProviderInv'
<1> USE DEF ProviderInv, RequestDeviceCode
<1> DEFINE r == [client |-> client, userCode |-> u, approved |-> FALSE, user |-> None,
                 expiresAt |-> ExpiresAt(DeviceTTL)]
<1>1. r \in Devices /\ r # NoDevice /\ r.userCode = u
  <2>1. ExpiresAt(DeviceTTL) \in Nat
    BY DEF ExpiresAt, OAuthTypeOK
  <2>2. r \in Devices /\ r.userCode = u
    BY <2>1, Zenon DEF Devices
  <2> QED
    BY <2>2, RecordsInUse, Zenon
<1>2. device' = [device EXCEPT ![d] = r] /\ d \notin deviceCodes /\ minted[d] = 0
  BY Zenon DEF DeviceInv
<1> HIDE DEF r
<1>3. OAuthTypeOK'
  BY <1>1, <1>2 DEF OAuthTypeOK, Devices
<1>4. CodeInv'
  BY DEF CodeInv, Holds
<1>5. DeviceInv'
  <2>1. \A f \in DeviceCodes : f # d => device'[f] = device[f] /\ (f \in deviceCodes' <=> f \in deviceCodes)
    BY <1>2, Zenon DEF OAuthTypeOK
  <2>2. device'[d] = r /\ minted' = minted /\ deviceCodes' = deviceCodes \cup {d}
    BY <1>2, Zenon DEF OAuthTypeOK
  <2>3. \A w \in UserCodes : userCodes'[w] # None =>
            userCodes'[w] \in deviceCodes' /\ device'[userCodes'[w]].userCode = w
    <3> TAKE w \in UserCodes
    <3>1. CASE w = u
      BY <1>1, <2>2, <3>1, Zenon DEF OAuthTypeOK
    <3>2. CASE w # u
      <4>1. userCodes'[w] = userCodes[w]
        BY <3>2, Zenon DEF OAuthTypeOK
      <4> QED
        BY <1>2, <2>1, <2>2, <4>1 DEF DeviceInv, OAuthTypeOK
    <3> QED
      BY <3>1, <3>2, Zenon
  <2> HIDE DEF RequestDeviceCode
  <2> QED
    BY <1>1, <1>2, <2>1, <2>2, <2>3, Zenon DEF DeviceInv, OAuthTypeOK
<1>6. TokenInv'
  <2>1. \A t \in tokens : t.gty = DeviceGrant => t.code # d
    BY DEF TokenInv, NoDevice
  <2> QED
    BY <1>2, <2>1, Zenon DEF TokenInv, OAuthTypeOK
<1>7. WaitingApprovable'
  <2> SUFFICES ASSUME NEW f \in deviceCodes', ~device'[f].approved, userCodes'[device'[f].userCode] # f
               PROVE  \E e \in DeviceCodes \ {f} : TakenBy(f, e)'
    BY Zenon DEF WaitingApprovable
  <2>1. device'[d] = r /\ userCodes'[u] = d /\ minted' = minted
        /\ \A g \in DeviceCodes : g # d => device'[g] = device[g]
        /\ \A w \in UserCodes : w # u => userCodes'[w] = userCodes[w]
    BY <1>2, Zenon DEF OAuthTypeOK
  <2>2. f # d
    BY <1>1, <2>1, Zenon
  <2>3. f \in deviceCodes /\ f \in DeviceCodes /\ device[f].userCode \in UserCodes
    BY <2>2 DEF OAuthTypeOK, DeviceInv
  <2>4. CASE device[f].userCode = u
    BY <1>1, <2>1, <2>2, <2>3, <2>4, Zenon DEF TakenBy
  <2>5. CASE device[f].userCode # u
    <3>1. PICK e \in DeviceCodes \ {f} : TakenBy(f, e)
      BY <2>1, <2>2, <2>3, <2>5, Zenon DEF WaitingApprovable
    <3>2. e # d
      BY <2>3, <3>1 DEF TakenBy, NoDevice
    <3> QED
      BY <2>1, <2>2, <2>3, <2>5, <3>1, <3>2, Zenon DEF TakenBy
  <2> QED
    BY <2>4, <2>5, Zenon
<1> QED
  BY <1>3, <1>4, <1>5, <1>6, <1>7, Zenon

\* An approval finds the device code that its user code stands for.
LEMMA ApproveInv ==
    ASSUME ProviderInv, NEW u \in UserCodes, NEW user \in Users, ApproveDeviceCode(u, user)
    PROVE  ProviderInv'
<1> USE DEF ProviderInv, ApproveDeviceCode
<1> DEFINE d == userCodes[u]
<1>1. d \in deviceCodes /\ d \in DeviceCodes /\ device[d] # NoDevice
  BY Zenon DEF DeviceInv, OAuthTypeOK
<1>2. device[d] \in Devices
  BY <1>1, Zenon DEF OAuthTypeOK, Devices
<1>3. device'[d] \in Devices /\ device'[d].userCode = device[d].userCode
      /\ device'[d].approved
  BY <1>1, <1>2, Zenon DEF OAuthTypeOK, Devices
<1>4. \A f \in DeviceCodes : f # d => device'[f] = device[f]
  BY <1>1, Zenon DEF OAuthTypeOK
<1>5. DOMAIN device' = DeviceCodes /\ device' = [f \in DeviceCodes |-> device'[f]]
  BY Zenon DEF OAuthTypeOK
<1>6. UNCHANGED <<clientSecret, grant, authCodes, exchange, deviceCodes, userCodes, minted, tokens, time>>
  BY Zenon
<1> HIDE DEF d, ApproveDeviceCode
<1>7. OAuthTypeOK'
  <2>1. \A f \in DeviceCodes : device'[f] \in {NoDevice} \cup Devices
    BY <1>3, <1>4, Zenon DEF OAuthTypeOK, Devices
  <2>2. device' \in [DeviceCodes -> {NoDevice} \cup Devices]
    BY <1>5, <2>1, Zenon
  <2> QED
    BY <1>6, <2>2, Zenon DEF OAuthTypeOK, Devices
<1>8. CodeInv'
  BY <1>6 DEF CodeInv, Holds
<1>9. DeviceInv'
  <2>1. \A f \in DeviceCodes : device'[f].userCode = device[f].userCode
    BY <1>3, <1>4, Zenon
  <2>2. \A f \in DeviceCodes : device'[f] = NoDevice => device[f] = NoDevice
    BY <1>3, <1>4, RecordsInUse, Zenon
  <2> QED
    BY <1>6, <2>1, <2>2, Zenon DEF DeviceInv, OAuthTypeOK
<1>10. TokenInv'
  BY <1>1, <1>4, <1>6, Zenon DEF TokenInv
<1>11. WaitingApprovable'
  <2>1. \A f \in DeviceCodes : device'[f].userCode = device[f].userCode
                               /\ (device[f].approved => device'[f].approved)
    BY <1>3, <1>4, Zenon
  <2> QED
    BY <1>6, <2>1 DEF WaitingApprovable, TakenBy, OAuthTypeOK
<1> QED
  BY <1>7, <1>8, <1>9, <1>10, <1>11, Zenon

\* A poll that gets a token removes the device code.
LEMMA PollInv ==
    ASSUME ProviderInv, NEW d \in DeviceCodes, NEW client \in Clients, PollDeviceToken(d, client)
    PROVE  ProviderInv'
<1> USE DEF ProviderInv, PollDeviceToken
<1> DEFINE w == device[d].userCode
<1>1. d \in deviceCodes /\ device[d].approved
  BY Zenon DEF PollAnswer
<1>2. minted[d] = 0 /\ w \in UserCodes
  BY <1>1 DEF DeviceInv, OAuthTypeOK
<1>3. minted' = [minted EXCEPT ![d] = 1]
  BY <1>2 DEF OAuthTypeOK
<1>4. userCodes' = [userCodes EXCEPT ![w] = None]
  BY Zenon
<1>5. deviceCodes' = deviceCodes \ {d}
      /\ UNCHANGED <<clientSecret, grant, authCodes, exchange, device, time>>
  BY Zenon
<1>6. tokens' = tokens \cup {Token(DeviceGrant, device[d].user, device[d].client, d)}
  BY Zenon
<1> HIDE DEF PollDeviceToken
<1>7. OAuthTypeOK'
  BY <1>2, <1>3, <1>4, <1>5, Zenon DEF OAuthTypeOK
<1>8. CodeInv'
  <2>1. \A c \in Codes : minted'[c] = minted[c]
    BY <1>3, Zenon DEF OAuthTypeOK
  <2>2. \A x, c : Holds(x, c)' <=> Holds(x, c)
    BY <1>5, Zenon DEF Holds
  <2> QED
    BY <1>5, <2>1, <2>2, Zenon DEF CodeInv, OAuthTypeOK
<1>9. DeviceInv'
  <2>1. \A f \in DeviceCodes : minted'[f] = IF f = d THEN 1 ELSE minted[f]
    BY <1>3, Zenon DEF OAuthTypeOK
  <2>2. \A u \in UserCodes : userCodes'[u] = IF u = w THEN None ELSE userCodes[u]
    BY <1>2, <1>4, Zenon DEF OAuthTypeOK
  <2>3. device[d] # NoDevice
    BY <1>1, Zenon DEF DeviceInv
  <2>4. \A u \in UserCodes : userCodes'[u] # None => userCodes[u] # d
    BY <2>2 DEF DeviceInv
  <2> HIDE DEF w
  <2> QED
    BY <1>5, <2>1, <2>2, <2>3, <2>4 DEF DeviceInv, OAuthTypeOK
<1>10. TokenInv'
  BY <1>1, <1>5, <1>6 DEF TokenInv, Token
<1>11. WaitingApprovable'
  <2> SUFFICES ASSUME NEW f \in deviceCodes, f # d, ~device[f].approved
               PROVE  userCodes'[device[f].userCode] = f \/ \E e \in DeviceCodes \ {f} : TakenBy(f, e)'
    BY <1>5, Zenon DEF WaitingApprovable
  <2>1. f \in DeviceCodes /\ device[f].userCode \in UserCodes
    BY DEF OAuthTypeOK, DeviceInv
  <2>2. minted'[d] = 1 /\ \A e \in DeviceCodes : minted[e] > 0 => minted'[e] > 0
    BY <1>3 DEF OAuthTypeOK
  <2>3. minted'[d] > 0
    BY <2>2
  <2>4. CASE device[f].userCode = w
    BY <1>5, <2>1, <2>3, <2>4, Zenon DEF TakenBy
  <2>5. CASE device[f].userCode # w
    <3>1. userCodes'[device[f].userCode] = userCodes[device[f].userCode]
      BY <1>4, <2>1, <2>5, Zenon DEF OAuthTypeOK
    <3> QED
      BY <1>5, <2>2, <3>1, Zenon DEF WaitingApprovable, TakenBy
  <2> QED
    BY <2>4, <2>5, Zenon
<1> QED
  BY <1>7, <1>8, <1>9, <1>10, <1>11, Zenon

-----------------------------------------------------------------------------

\* The invariant of the provider holds in every state.
LEMMA ProviderInvariant == OAuthSpec => []ProviderInv
<1>1. ProviderInv /\ [OAuthNext]_oauthVars => ProviderInv'
  <2> SUFFICES ASSUME ProviderInv, [OAuthNext]_oauthVars PROVE ProviderInv'
    BY Zenon
  <2>1. CASE UNCHANGED oauthVars
    BY <2>1 DEF oauthVars, ProviderInv, OAuthTypeOK, CodeInv, Holds, DeviceInv, TokenInv, WaitingApprovable, TakenBy
  <2>2. CASE OAuthNext
    BY <2>2, CredentialsInv, TickInv, AuthorizeInv, TakeInv, CheckInv, DeviceRequestInv, ApproveInv, PollInv, Zenon
       DEF OAuthNext
  <2> QED
    BY <2>1, <2>2, Zenon
<1> QED
  BY <1>1, InitInv, PTL DEF OAuthSpec

\* The variables of the provider keep their types.
THEOREM ProviderTypes == OAuthSpec => []OAuthTypeOK
<1>1. ProviderInv => OAuthTypeOK
  BY Zenon DEF ProviderInv
<1> QED
  BY <1>1, ProviderInvariant, PTL

\* However many exchanges and polls race, at most one token is signed for a code: the
\* deletes of ExchangeAuthCode and PollDeviceToken under the mutex are enough.
THEOREM CodesAreSingleUse == OAuthSpec => []OneTokenPerCode
<1>1. ProviderInv => OneTokenPerCode
  BY Zenon DEF ProviderInv, CodeInv, DeviceInv, OneTokenPerCode
<1> QED
  BY <1>1, ProviderInvariant, PTL

\* No approval reaches the record of a device token that was signed, although user codes
\* are handed out again.
THEOREM DeviceTokensStand == OAuthSpec => []DeviceTokenStands
<1>1. ProviderInv => DeviceTokenStands
  BY Zenon DEF ProviderInv, TokenInv, DeviceTokenStands
<1> QED
  BY <1>1, ProviderInvariant, PTL

\* A waiting device stays reachable through its user code unless the code was handed out
\* again.
THEOREM WaitingDevicesApprovable == OAuthSpec => []WaitingApprovable
<1>1. ProviderInv => WaitingApprovable
  BY Zenon DEF ProviderInv
<1> QED
  BY <1>1, ProviderInvariant, PTL

\* A code that was presented never returns to the map.
THEOREM CodesStaySpent == OAuthSpec => CodeSpentForGood
<1>1. [OAuthNext]_oauthVars => [\A c \in Codes : grant[c] # NoGrant /\ c \notin authCodes
                                        => c \notin authCodes']_oauthVars
  BY Zenon DEF OAuthNext, oauthVars, RegisterClient, IssueClientCredentialsToken, AuthorizePKCE, TakeCode,
         CheckCode, RequestDeviceCode, ApproveDeviceCode, PollDeviceToken, TimePasses
<1> QED
  BY <1>1, PTL DEF OAuthSpec, CodeSpentForGood

-----------------------------------------------------------------------------
(* What the validator makes of the tokens                                  *)

\* The first alternative is taken if it is something, or if nothing else is either.
LEMMA FirstTaken ==
  ASSUME NEW s, NEW nothing, DOMAIN s \subseteq Nat \ {0}, 1 \in DOMAIN s,
         s[1] # nothing \/ \A i \in DOMAIN s : s[i] = nothing
  PROVE  FirstOf(s, nothing) = s[1]
<1> DEFINE Some == {i \in DOMAIN s : s[i] # nothing}
<1>1. CASE s[1] # nothing
  <2>1. 1 \in Some /\ \A j \in Some : 1 <= j
    BY <1>1
  <2>2. \A i \in Some : (\A j \in Some : i <= j) => i = 1
    BY <2>1
  <2>3. 1 = CHOOSE i \in Some : \A j \in Some : i <= j
    BY <2>1, <2>2, Zenon
  <2> QED
    BY <2>1, <2>3, Zenon DEF FirstOf
<1>2. CASE \A i \in DOMAIN s : s[i] = nothing
  BY <1>2 DEF FirstOf
<1> QED
  BY <1>1, <1>2, Zenon

\* The names of flows and grants are words.
LEMMA FlowsNotEmpty ==
  /\ Empty # PKCE /\ Empty # ClientCredentials /\ Empty # DeviceFlow
  /\ Empty # "authorization_code" /\ Empty # "client_credentials" /\ Empty # DeviceGrant
BY Zenon DEF Empty, PKCE, ClientCredentials, DeviceFlow, DeviceGrant

\* A grant type that names a flow settles it.
LEMMA GrantSettlesFlow ==
  ASSUME NEW cs, NEW clientID, NEW sub, NEW gty, gty # Empty,
         Str(cs, "gty") = gty, GrantFlow(gty) # Empty
  PROVE  determineOAuthFlow(cs, clientID, sub) = GrantFlow(gty)
<1> DEFINE grants == <<Str(cs, "gty"), Str(cs, "grant_type")>>
           amr == Words(cs, "amr", {"array"})
           Tried(g) == <<GrantFlow(g),
                         FirstOf([i \in DOMAIN amr |-> AmrFlow(amr[i])], Empty),
                         MachineFlow(clientID, sub),
                         IF "device_code" \in DOMAIN cs THEN DeviceFlow ELSE Empty,
                         IF sub # Empty THEN PKCE ELSE Empty,
                         "unknown">>
<1>1. determineOAuthFlow(cs, clientID, sub) = FirstOf(Tried(FirstOf(grants, Empty)), Empty)
  BY Zenon DEF determineOAuthFlow
<1>2. DOMAIN grants = 1..2 /\ grants[1] = gty
  OBVIOUS
<1>3. FirstOf(grants, Empty) = gty
  <2> HIDE DEF grants
  <2> QED
    BY <1>2, FirstTaken
<1>4. DOMAIN Tried(gty) = 1..6 /\ Tried(gty)[1] = GrantFlow(gty)
  OBVIOUS
<1>5. FirstOf(Tried(gty), Empty) = GrantFlow(gty)
  <2> HIDE DEF Tried
  <2> QED
    BY <1>4, FirstTaken
<1> HIDE DEF Tried, grants
<1> QED
  BY <1>1, <1>3, <1>5, Zenon

\* The tokens the provider has signed: for a machine, a code or a device.
TokenKinds ==
    \A t \in tokens :
        \/ t.gty = "client_credentials" /\ t.code = None
        \/ t.gty = "authorization_code" /\ t.code \in Codes
        \/ t.gty = DeviceGrant /\ t.code \in DeviceCodes

\* A token that is new has the grant it was issued by.
LEMMA NextTokenKinds == OAuthTypeOK /\ TokenKinds /\ [OAuthNext]_oauthVars => TokenKinds'
<1> SUFFICES ASSUME OAuthTypeOK, TokenKinds, [OAuthNext]_oauthVars, NEW t \in tokens', t \notin tokens
             PROVE  \/ t.gty = "client_credentials" /\ t.code = None
                    \/ t.gty = "authorization_code" /\ t.code \in Codes
                    \/ t.gty = DeviceGrant /\ t.code \in DeviceCodes
  BY Zenon DEF TokenKinds
<1>1. ASSUME NEW c \in Clients, NEW s \in Secrets, IssueClientCredentialsToken(c, s)
      PROVE  t.gty = "client_credentials" /\ t.code = None
  BY <1>1 DEF IssueClientCredentialsToken, Token
<1>2. ASSUME NEW x \in Exchanges, CheckCode(x)
      PROVE  t.gty = "authorization_code" /\ t.code \in Codes
  <2>1. exchange[x].code \in Codes
    BY <1>2, Zenon DEF CheckCode, OAuthTypeOK
  <2> QED
    BY <1>2, <2>1 DEF CheckCode, Token
<1>3. ASSUME NEW d \in DeviceCodes, NEW client \in Clients, PollDeviceToken(d, client)
      PROVE  t.gty = DeviceGrant /\ t.code \in DeviceCodes
  BY <1>3 DEF PollDeviceToken, Token
<1> QED
  BY <1>1, <1>2, <1>3, Zenon DEF OAuthNext, oauthVars, RegisterClient, AuthorizePKCE, TakeCode,
     RequestDeviceCode, ApproveDeviceCode, TimePasses

\* Every token the provider signs is classified by determineOAuthFlow as the flow it was
\* signed in, whatever the names of users and clients, the empty one included.
THEOREM FlowsAreRecognised == OAuthSpec => []FlowRecognised
<1>1. ASSUME TokenKinds, NEW t \in tokens
      PROVE  TokenRecognised(t)
  <2> DEFINE cs == ClaimsOf(t)
             p == Normalize(cs)
             names == <<Str(cs, "client_id"), Str(cs, "azp"), Str(cs, "cid")>>
  <2>1. t.gty \in {"client_credentials", "authorization_code", DeviceGrant}
    BY <1>1, Zenon DEF TokenKinds
  <2>2. /\ Str(cs, "sub") = t.sub /\ Str(cs, "client_id") = t.client
        /\ Str(cs, "gty") = t.gty
        /\ Str(cs, "azp") = Empty /\ Str(cs, "cid") = Empty
    BY Zenon DEF Str, ClaimsOf
  <2>3. extractClientID(cs) = t.client
    <3>1. extractClientID(cs) = FirstOf(names, Empty)
      BY Zenon DEF extractClientID
    <3>2. DOMAIN names = 1..3 /\ names[1] = t.client /\ names[2] = Empty /\ names[3] = Empty
      BY <2>2
    <3> HIDE DEF names
    <3> QED
      BY <3>1, <3>2, FirstTaken
  <2>4. GrantFlow(t.gty) = CASE t.gty = DeviceGrant -> DeviceFlow
                             [] t.gty = "authorization_code" -> PKCE
                             [] OTHER -> ClientCredentials
    BY <2>1, Zenon DEF GrantFlow, DeviceGrant
  <2>5. GrantFlow(t.gty) \in {PKCE, ClientCredentials, DeviceFlow}
    BY <2>1, Zenon DEF GrantFlow, DeviceGrant
  <2>6. t.gty # Empty /\ GrantFlow(t.gty) # Empty
    BY <2>1, <2>5, FlowsNotEmpty, Zenon
  <2>7. determineOAuthFlow(cs, t.client, t.sub) = GrantFlow(t.gty)
    BY <2>2, <2>6, GrantSettlesFlow, Zenon
  <2>8. CASE t.sub = Empty
    BY <2>2, <2>8, Zenon DEF Normalize, TokenRecognised
  <2>9. CASE t.sub # Empty
    <3>1. p.subject = t.sub /\ p.clientID = t.client /\ p.method = GrantFlow(t.gty)
      BY <2>2, <2>3, <2>7, <2>9, Zenon DEF Normalize
    <3>2. (GrantFlow(t.gty) \in {PKCE, DeviceFlow}) <=> t.code # None
      <4>1. t.gty = "client_credentials" <=> t.code = None
        BY <1>1, OAuthAssumption, Zenon DEF TokenKinds, DeviceGrant
      <4> QED
        BY <2>1, <4>1, Zenon DEF GrantFlow, DeviceGrant, PKCE, DeviceFlow, ClientCredentials
    <3> QED
      BY <2>4, <2>9, <3>1, <3>2, Zenon DEF TokenRecognised, IsUserPresent
  <2> QED
    BY <2>8, <2>9, Zenon
<1>2. TokenKinds => FlowRecognised
  BY <1>1, Zenon DEF FlowRecognised
<1>3. OAuthInit => TokenKinds
  BY Zenon DEF OAuthInit, TokenKinds
<1>4. OAuthSpec => []TokenKinds
  BY <1>3, NextTokenKinds, ProviderTypes, PTL DEF OAuthSpec
<1> QED
  BY <1>2, <1>4, PTL

=============================================================================
