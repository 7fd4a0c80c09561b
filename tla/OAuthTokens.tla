------------------------------- MODULE OAuthTokens -------------------------------
(***************************************************************************)
(* The provider's tokens as the JWT validator sees them.                   *)
(***************************************************************************)
EXTENDS OAuthProvider, TokenClaims

\* The claims the provider signs into a token that the normalizer looks at.
ClaimsOf(t) ==
    IF t.gty = "authorization_code"
    THEN [sub |-> t.sub, client_id |-> t.client, gty |-> t.gty,
          amr |-> [kind |-> "array", words |-> <<"pkce", "pwd">>]]
    ELSE IF t.gty = DeviceGrant
    THEN [sub |-> t.sub, client_id |-> t.client, gty |-> t.gty, device_code |-> t.code]
    ELSE [sub |-> t.sub, client_id |-> t.client, gty |-> t.gty]

\* The normalizer makes of a token what its flow was.
TokenRecognised(t) ==
    LET p == Normalize(ClaimsOf(t))
    IN  IF t.sub = Empty THEN p = NoPrincipal
        ELSE /\ p.subject = t.sub /\ p.clientID = t.client
             /\ p.method = CASE t.gty = DeviceGrant -> DeviceFlow
                             [] t.gty = "authorization_code" -> PKCE
                             [] OTHER -> ClientCredentials
             /\ IsUserPresent(p) <=> t.code # None

\* Every token the provider signs is classified as the flow it was signed in, for
\* the same subject and client, whatever names users and clients have: a user named
\* like a client is not taken for a machine, nor a machine for a user.  Only a token
\* for an empty name, which the provider signs too, is refused.
FlowRecognised == \A t \in tokens : TokenRecognised(t)

=============================================================================
