------------------------------ MODULE Requirements ------------------------------
(***************************************************************************)
(* The requirements of an authorization policy; a policy is a sequence of  *)
(* them. Field go is the Go type of the requirement.                       *)
(***************************************************************************)

RequireScope(s) == [go |-> "ScopeRequirement", scopes |-> s, all |-> TRUE]
RequireAnyScope(s) == [go |-> "ScopeRequirement", scopes |-> s, all |-> FALSE]
RequireRole(s) == [go |-> "RoleRequirement", roles |-> s]
RequireUser == [go |-> "UserPresentRequirement"]
RequireM2M == [go |-> "M2MRequirement"]
RequirePARC(a, t) == [go |-> "PARCRequirement", action |-> a, type |-> t]
\* The assertion is the set of subjects it holds for; a nil Func holds for none.
Custom(name, s) == [go |-> "CustomRequirement", name |-> name, func |-> s]

=============================================================================
