-------------------------------- MODULE PARCRules --------------------------------
(***************************************************************************)
(* When a permission rule applies to a request, and what a set of rules    *)
(* decides.                                                                *)
(***************************************************************************)
CONSTANTS
    Patterns, Values,  \* patterns of rules, and what they are matched against
    PathMatch,         \* PathMatch[p, v]: "yes", "no" or "bad" of path.Match
    Lower,             \* Lower[s]: a pattern or value in lower case
    Tenants,
    Star, Empty         \* the strings "*" and ""

ASSUME PatternsAssumption ==
    /\ PathMatch \in [Patterns \X Values -> {"yes", "no", "bad"}]
    /\ {Star, Empty} \subseteq Patterns

Rules == [action : Patterns, type : Patterns, id : Patterns,
          tenant : Tenants \cup {Star, Empty}, effect : {"permit", "deny", ""}]

PARCRequests == [action : Values, method : Values, type : Values, id : Values,
                 tenant : Tenants \cup {Empty}]

matchGlob(p, v) ==
    \/ p \in {Star, Empty}
    \/ p = v
    \/ PathMatch[p, v] = "yes"
    \/ PathMatch[p, v] = "bad" /\ Lower[p] = Lower[v]

\* PermissionRule.Matches; the action is matched by name or by HTTP method.
Matches(rule, q) ==
    /\ matchGlob(rule.action, q.action) \/ matchGlob(rule.action, q.method)
    /\ matchGlob(rule.type, q.type)
    /\ matchGlob(rule.id, q.id)
    /\ rule.tenant \in {Star, Empty, q.tenant} \/ q.tenant = Empty

\* What a set of rules decides, whatever their order: some rule permits and none
\* denies.
DenyOverrides(rules, q) ==
    /\ \E r \in rules : Matches(r, q) /\ r.effect = "permit"
    /\ \A r \in rules : Matches(r, q) => r.effect # "deny"

=============================================================================
