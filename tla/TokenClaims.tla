------------------------------ MODULE TokenClaims ------------------------------
(***************************************************************************)
(* What the token validators make of the claims of a verified token: the   *)
(* extraction of client, scopes, roles and OAuth flow, and the standard    *)
(* and the Cognito normalizer.                                             *)
(*                                                                         *)
(* Claims are a function from the names present to their values.  A string *)
(* claim is a string, "" standing for one that is empty or of another type *)
(* (the code treats them alike).  A list claim is a record of its JSON     *)
(* kind and its words, without the blanks around them; a blank word and a  *)
(* word that is no string are "" (among groups and methods only an empty   *)
(* word is skipped, which comes to the same).                              *)
(***************************************************************************)
EXTENDS Naturals, Functions, Lists

CONSTANTS
    MachineNamed,  \* subjects that begin with "service-account-" or "client-"
    Lower          \* Lower[w]: a word in lower case

Empty == ""

Str(claims, k) == IF k \in DOMAIN claims THEN claims[k] ELSE Empty

\* The first of the alternatives that is not nothing.
FirstOf(alternatives, nothing) ==
    LET Some == {i \in DOMAIN alternatives : alternatives[i] # nothing}
    IN  IF Some = {} THEN nothing
        ELSE alternatives[CHOOSE i \in Some : \A j \in Some : i <= j]

extractClientID(claims) ==
    FirstOf(<<Str(claims, "client_id"), Str(claims, "azp"), Str(claims, "cid")>>, Empty)

\* The words of a list claim, if it has one of the kinds.
Words(claims, k, kinds) ==
    IF k \in DOMAIN claims /\ claims[k].kind \in kinds
    THEN Without(claims[k].words, {Empty}) ELSE << >>

\* scope may be a string or an array, scp only an array.
extractScopes(claims) ==
    FirstOf(<<Words(claims, "scope", {"string", "array"}),
              Words(claims, "scp", {"array"})>>, << >>)

extractRoles(claims) ==
    FirstOf(<<Words(claims, "roles", {"array"}),
              Words(claims, "permissions", {"array"}),
              Words(claims, "realm_access", {"array"})>>, << >>)

PKCE == "oauth:auth_code_pkce"
ClientCredentials == "oauth:client_credentials"
DeviceFlow == "oauth:device_flow"

\* The flow a grant type names, "" if none; grant types are in lower case here.
GrantFlow(g) ==
    CASE g \in {"client_credentials", "client-credentials"} -> ClientCredentials
      [] g \in {"urn:ietf:params:oauth:grant-type:device_code", "device_code",
                "device"} -> DeviceFlow
      [] g \in {"authorization_code", "auth_code", "pkce"} -> PKCE
      [] OTHER -> Empty

\* The flow an authentication method names; "device" stands for all the words
\* that contain it.
AmrFlow(w) ==
    CASE w = "pkce" -> PKCE [] w = "device" -> DeviceFlow [] OTHER -> Empty

\* Mutant: a subject is only judged by its name.
MachineFlowByName(clientID, sub) ==
    IF clientID # Empty /\ sub \in MachineNamed THEN ClientCredentials ELSE Empty

\* The heuristic for tokens of machines.
MachineFlow(clientID, sub) ==
    IF clientID # Empty /\ (sub = clientID \/ sub \in MachineNamed)
    THEN ClientCredentials ELSE Empty

\* Mutant: the heuristic comes before the explicit claims.
determineOAuthFlowHeuristicFirst(claims, clientID, sub) ==
    FirstOf(<<MachineFlow(clientID, sub), GrantFlow(Str(claims, "gty")), PKCE>>, Empty)

determineOAuthFlow(claims, clientID, sub) ==
    LET gty == FirstOf(<<Str(claims, "gty"), Str(claims, "grant_type")>>, Empty)
        amr == Words(claims, "amr", {"array"})
    IN  FirstOf(<<GrantFlow(gty),
                  FirstOf([i \in DOMAIN amr |-> AmrFlow(amr[i])], Empty),
                  MachineFlow(clientID, sub),
                  IF "device_code" \in DOMAIN claims THEN DeviceFlow ELSE Empty,
                  IF sub # Empty THEN PKCE ELSE Empty,
                  "unknown">>, Empty)

StandardClaims == {"iss", "sub", "aud", "exp", "nbf", "iat", "jti", "scope", "scp",
                   "roles", "permissions"}

\* The names of the claims that become metadata.
filterStandardClaims(claims) == DOMAIN claims \ StandardClaims

NoPrincipal == [subject |-> Empty]

\* StandardOIDCNormalizer.Normalize; a token without a subject is an error.
Normalize(claims) ==
    LET sub == Str(claims, "sub")
        clientID == extractClientID(claims)
    IN  IF sub = Empty THEN NoPrincipal
        ELSE [subject |-> sub, clientID |-> clientID,
              method |-> determineOAuthFlow(claims, clientID, sub),
              scopes |-> extractScopes(claims), roles |-> extractRoles(claims),
              metadata |-> filterStandardClaims(claims)]

\* Mutant: the table of known roles is not kept up to date in the loop.
AddGroupsStale(roles, groups) ==
    roles \o SelectSeq(groups, LAMBDA g :
        \A i \in DOMAIN roles : Lower[roles[i]] # Lower[g])

\* The groups that are not roles yet, whatever their case, are added in order.
AddGroups(roles, groups) ==
    LET Known(rs, g) == \E i \in DOMAIN rs : Lower[rs[i]] = Lower[g]
        after[n \in 0..Len(groups)] ==
            IF n = 0 THEN roles
            ELSE IF Known(after[n - 1], groups[n]) THEN after[n - 1]
            ELSE Append(after[n - 1], groups[n])
    IN  after[Len(groups)]

\* The audience of an ID token stands in for a client that no claim names.
CognitoClientID(claims, clientID) ==
    LET aud == IF "aud" \in DOMAIN claims THEN claims["aud"].words ELSE << >>
    IN  IF clientID = Empty /\ Str(claims, "token_use") = "id" /\ aud # << >>
        THEN aud[1] ELSE clientID

\* The metadata the Cognito normalizer adds.  The claim identities stands for the
\* provider name in its first element, "saml" for all names taken for Google SAML.
CognitoMetadata(claims) ==
    (IF "identities" \in DOMAIN claims THEN {"federated_provider"} ELSE {})
        \cup (IF Str(claims, "identities") = "saml" THEN {"auth_origin"} ELSE {})
        \cup (IF Str(claims, "cognito:username") # Empty THEN {"cognito_username"} ELSE {})

\* CognitoClaimsNormalizer.Normalize.
CognitoNormalize(claims) ==
    LET p == Normalize(claims)
        groups == Words(claims, "cognito:groups", {"array"})
    IN  IF p = NoPrincipal THEN NoPrincipal
        ELSE [p EXCEPT !.roles = AddGroups(@, groups),
                       !.clientID = CognitoClientID(claims, @),
                       !.metadata = @ \cup CognitoMetadata(claims)]

\* An end user takes part: IsUserPresent.
IsUserPresent(p) == p.method \in {PKCE, DeviceFlow}

=============================================================================
