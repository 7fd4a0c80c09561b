---------------------------- MODULE MCAuthentication ----------------------------
(***************************************************************************)
(* Requests, keys and tokens for Authentication, and the claims an issuer   *)
(* may put into a token. Claims are collected before the first request.     *)
(***************************************************************************)
EXTENDS Authentication, IssuedClaims, TLC

-----------------------------------------------------------------------------
(* Requests                                                                *)

In(scheme, token, header, query) ==
    [scheme |-> scheme, token |-> token, header |-> header, query |-> query]

JWT(signed, exp, nbf, iss, sub) ==
    [signed |-> signed, exp |-> exp, nbf |-> nbf, iss |-> iss,
     claims |-> [sub |-> sub, gty |-> "authorization_code",
                 aud |-> [kind |-> "array", words |-> <<"api">>],
                 scope |-> [kind |-> "string", words |-> <<"read">>],
                 roles |-> [kind |-> "array", words |-> <<"Admin">>]]]

MCKeys == {"k1", "k2"}

MCHolders == {[owner |-> "o", client |-> "c", scopes |-> <<"read">>, roles |-> << >>]}

A(bearer, keys) == [bearer |-> bearer, keys |-> keys]

MCAuthenticators == {A("jwt", TRUE), A("oidc", FALSE), A("none", TRUE)}

\* The transformer of an application: it fails, finds no one, leaves the principal alone
\* or puts another one in its place.
MCTransformed(p) ==
    {Fail("no_credentials"), Ok(NoPrincipal), Ok(p),
     Ok([p EXCEPT !.subject = "service", !.scopes = << >>, !.roles = <<"Ops">>])}

MCJWTs ==
    [expiring |-> JWT(TRUE, 0, 0, "idp", "u"), later |-> JWT(TRUE, 3, 2, "idp", "u"),
     foreign |-> JWT(TRUE, 3, 0, "other", "u"), forged |-> JWT(FALSE, 3, 0, "idp", "u"),
     nobody |-> JWT(TRUE, 3, 0, "idp", ""),
     elsewhere |-> [JWT(TRUE, 3, 0, "idp", "u") EXCEPT !.claims.aud.words = <<"web">>]]

MCTTLs == {-1, 0, 1}

MCInputs ==
    {In("", "", "", ""), In("basic", "t", "", ""),
     In("apikey", "k1", "", ""), In("apikey", "k1", "k2", ""), In("", "", "k1", "k2"),
     In("", "", "", "k2"), In("bearer", "later", "k1", "")}
    \cup {In("bearer", t, "", "") : t \in DOMAIN MCJWTs}

G(kind, args) == [kind |-> kind, args |-> args]

MCGuards == {G("RequireScope", {"read"}), G("RequireAnyScope", {}),
             G("RequireMethod", {PKCE}), G("RequireRole", {"admin"}), G("RequireAnyRole", {"ops"})}

LowerCase == [w \in {"Admin", "admin", "Ops", "ops", "read", PKCE} |->
                 CASE w = "Admin" -> "admin" [] w = "Ops" -> "ops" [] OTHER -> w]

-----------------------------------------------------------------------------
(* Claims                                                                  *)

Array(words) == [kind |-> "array", words |-> words]

MCMenu ==
    ("cognito:groups" :> {Array(<<"admin", "Ops", "ops">>)}) @@
    [sub |-> {"alice", "app"}, client_id |-> {"app"}, gty |-> {"client_credentials", "password"},
     grant_type |-> {"device_code"}, amr |-> {Array(<<"pwd", "pkce">>), Array(<<"device">>)},
     device_code |-> {"d"}, scope |-> {[kind |-> "string", words |-> <<"r", "">>]},
     scp |-> {Array(<<"w">>), [kind |-> "string", words |-> <<"w">>]},
     roles |-> {Array(<<"Admin">>), Array(<<"">>)}, permissions |-> {Array(<<"ops">>)},
     aud |-> {Array(<<"app">>)}, token_use |-> {"id"}, identities |-> {"saml"}]

-----------------------------------------------------------------------------

AuthnInit == Init /\ ClaimsInit

AuthnNext ==
    \/ claims = << >> /\ Next /\ UNCHANGED claims
    \/ Init /\ ClaimsNext /\ UNCHANGED vars

AuthnSpec == AuthnInit /\ [][AuthnNext]_<<vars, claims>>

=============================================================================
