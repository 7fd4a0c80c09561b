----------------------------- MODULE IssuedClaims ------------------------------
(***************************************************************************)
(* An issuer that puts one claim after the other into a token, with one of *)
(* the values that a menu offers for it, until every set of claims from    *)
(* the menu is reached; and what the normalizers make of the claims so     *)
(* far.                                                                    *)
(***************************************************************************)
EXTENDS TokenClaims

CONSTANT Menu  \* Menu[k]: the values that the claim k may have

VARIABLE claims

ListClaims == {"scope", "scp", "roles", "permissions", "realm_access", "amr", "aud", "cognito:groups"}

ASSUME MenuAssumption == \A k \in ListClaims \cap DOMAIN Menu : \A v \in Menu[k] : IsList(v.words)

ClaimsInit == claims = << >>

AddClaim(k) ==
    /\ k \notin DOMAIN claims
    /\ \E v \in Menu[k] : claims' = [x \in DOMAIN claims \cup {k} |-> IF x = k THEN v ELSE claims[x]]

ClaimsNext == \E k \in DOMAIN Menu : AddClaim(k)

ClaimsSpec == ClaimsInit /\ [][ClaimsNext]_claims

-----------------------------------------------------------------------------

LowerSet(roles) == {Lower[roles[i]] : i \in DOMAIN roles}

\* The roles of a Cognito principal are its own roles, in their order, and then groups;
\* up to case all groups are there, and no group was listed before in another case.
RolesMatchReference ==
    LET p == CognitoNormalize(claims)
        own == extractRoles(claims)
        groups == Words(claims, "cognito:groups", {"array"})
    IN  p # NoPrincipal =>
            /\ LowerSet(p.roles) = LowerSet(own) \cup LowerSet(groups)
            /\ Len(p.roles) >= Len(own)
            /\ \A i \in 1..Len(p.roles) :
                 IF i <= Len(own) THEN p.roles[i] = own[i]
                 ELSE \A j \in 1..(i - 1) : Lower[p.roles[j]] # Lower[p.roles[i]]

\* A machine is not taken for an end user: a principal that is its own client counts
\* as an interactive user only if the grant type or the authentication methods of the
\* token say so (determineOAuthFlow's order of evidence).
UserNeedsEvidence ==
    LET p == Normalize(claims)
        gty == FirstOf(<<Str(claims, "gty"), Str(claims, "grant_type")>>, Empty)
    IN  p # NoPrincipal /\ p.subject = p.clientID =>
            (IsUserPresent(p) =>
                \/ GrantFlow(gty) \in {PKCE, DeviceFlow}
                \/ \E w \in Range(Words(claims, "amr", {"array"})) : AmrFlow(w) # Empty)

=============================================================================
