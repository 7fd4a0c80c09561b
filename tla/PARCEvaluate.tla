------------------------------ MODULE PARCEvaluate ------------------------------
(***************************************************************************)
(* The loop of PrincipalPermissions.Evaluate, which looks at the rules of  *)
(* a bundle one after the other and returns early on a deny.  The bundle   *)
(* is built one grant at a time, as MemoryPermissionRepository builds it,  *)
(* and evaluated for one request after the other.                          *)
(***************************************************************************)
EXTENDS PARCRules, Integers, Sequences

CONSTANTS
    BundleRules, \* rules that are granted
    Asked,       \* requests that are evaluated
    MaxRules     \* bound: rules in the bundle

ASSUME EvaluateAssumption ==
    BundleRules \subseteq Rules /\ Asked \subseteq PARCRequests /\ MaxRules \in Nat

VARIABLES rules, q, i, matchedPermit, decision

evaluateVars == <<rules, q, i, matchedPermit, decision>>

Reasons == {"no permissions", "denied", "no permit"}

EvaluateInit ==
    /\ rules = << >>
    /\ q \in Asked
    /\ i = 1
    /\ matchedPermit = FALSE
    /\ decision = "none"

\* GrantPermission appends a rule to the bundle.
Grant(r) ==
    /\ decision # "running"
    /\ Len(rules) < MaxRules
    /\ rules' = Append(rules, r)
    /\ decision' = "none"
    /\ UNCHANGED <<q, i, matchedPermit>>

\* Evaluate is called with a request.
Begin(p) ==
    /\ decision # "running"
    /\ q' = p
    /\ i' = 1
    /\ matchedPermit' = FALSE
    /\ decision' = IF rules = << >> THEN "no permissions" ELSE "running"
    /\ UNCHANGED rules

\* Mutant: a permit ends the loop as a deny does.
RuleStepFirstMatch ==
    /\ decision = "running"
    /\ i <= Len(rules)
    /\ i' = i + 1
    /\ matchedPermit' = (matchedPermit \/ Matches(rules[i], q))
    /\ decision' = IF ~Matches(rules[i], q) THEN "running"
                   ELSE IF rules[i].effect = "deny" THEN "denied" ELSE "allowed"
    /\ UNCHANGED <<rules, q>>

\* One turn of the loop.
RuleStep ==
    /\ decision = "running"
    /\ i <= Len(rules)
    /\ i' = i + 1
    /\ matchedPermit' = (matchedPermit
                           \/ (Matches(rules[i], q) /\ rules[i].effect = "permit"))
    /\ decision' = IF Matches(rules[i], q) /\ rules[i].effect = "deny"
                   THEN "denied" ELSE "running"
    /\ UNCHANGED <<rules, q>>

\* After the loop.
Finish ==
    /\ decision = "running"
    /\ i > Len(rules)
    /\ decision' = IF matchedPermit THEN "allowed" ELSE "no permit"
    /\ UNCHANGED <<rules, q, i, matchedPermit>>

EvaluateNext ==
    \/ \E r \in BundleRules : Grant(r)
    \/ \E p \in Asked : Begin(p)
    \/ RuleStep
    \/ Finish

EvaluateSpec == EvaluateInit /\ [][EvaluateNext]_evaluateVars

-----------------------------------------------------------------------------
(* Properties                                                              *)

LoopTypeOK ==
    /\ rules \in Seq(Rules)
    /\ q \in PARCRequests
    /\ i \in 1..Len(rules) + 1
    /\ matchedPermit \in BOOLEAN
    /\ decision \in {"none", "running", "allowed"} \cup Reasons

\* Evaluate allows a request exactly if some rule of the bundle permits it and none
\* denies it: the early return and the order of the rules make no difference.
EvaluateIsDenyOverrides ==
    decision \notin {"none", "running"} =>
        (decision = "allowed" <=> DenyOverrides({rules[k] : k \in 1..Len(rules)}, q))

=============================================================================
