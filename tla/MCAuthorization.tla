----------------------------- MODULE MCAuthorization -----------------------------
(***************************************************************************)
(* Authorization in three parts, of which a behaviour runs one: bundles    *)
(* that are evaluated rule by rule; an engine with many kinds of policies; *)
(* and an engine whose permissions change while requests run.              *)
(***************************************************************************)
EXTENDS Authorization, PARCEvaluate, TLC

-----------------------------------------------------------------------------
(* Strings: "[" is a pattern path.Match rejects; "r*" stands for a pattern *)
(* with a star.                                                            *)

Strings == {"*", "", "read", "GET", "report", "r1", "["}
MCPatterns == Strings \cup {"r*"}

MCPathMatch == [pv \in MCPatterns \X Strings |->
    CASE pv[1] = "[" -> "bad"
      [] pv = <<"r*", "read">> \/ (pv[1] = pv[2] /\ pv[1] # "[") -> "yes"
      [] OTHER -> "no"]

MCLower == [s \in MCPatterns |-> IF s = "GET" THEN "get" ELSE s]

-----------------------------------------------------------------------------
(* Bundles                                                                 *)

R(action, id, tenant, effect) ==
    [action |-> action, type |-> "*", id |-> id, tenant |-> tenant, effect |-> effect]

MCBundleRules ==
    {R("*", "*", "*", "permit"), R("r*", "*", "", "deny"), R("", "[", "t1", "permit"),
     R("*", "[", "", "deny"), R("r*", "", "t2", "permit"), R("*", "*", "*", "")}

MCAsked ==
    [action : {"read", "GET"}, method : {"GET"}, type : {"read"}, id : {"read", "["},
     tenant : {"t1", "t2", ""}]

-----------------------------------------------------------------------------
(* Engines                                                                 *)

Alice == [subject |-> "alice", roles |-> {"admin"}, scopes |-> {"read"},
          method |-> "oauth:auth_code_pkce"]
Job == [subject |-> "job", roles |-> {}, scopes |-> {"read", "write"}, method |-> "api_key"]

Rule(action, id, effect) ==
    [action |-> action, type |-> "report", id |-> id, tenant |-> "", effect |-> effect]

MCUsers == {Alice, Job}
ReportRules == {Rule("read", "*", "permit"), Rule("*", "r1", "deny")}

On(kind, policy, engine_, id) ==
    [kind |-> kind, policy |-> policy, engine |-> engine_,
     resource |-> IF id = "" THEN [type |-> "", id |-> "", tenant |-> ""]
                  ELSE [type |-> "report", id |-> id, tenant |-> ""]]
Use == [kind |-> "UseAuthorization"]
Plain == [kind |-> "application", mentions |-> FALSE]
Mentions == [kind |-> "application", mentions |-> TRUE]
Anyone == [kind |-> "AllowAnonymous"]
Parc(id) == [kind |-> "RequirePARC", action |-> "read", type |-> "report",
             resource |-> On("", "", FALSE, id).resource]

\* The policies: several requirements, PARC twice, and assertions.
MCNamed ==
    ("people" :> {<<RequireRole({"admin"}), RequireScope({"read"}), RequireUser>>})
    @@ ("reports" :> {<<RequirePARC("read", "report"), RequirePARC("", "")>>})
    @@ ("own" :> {<<[go |-> "AppRequirement"], Custom("Named", {"alice", "job"}),
                    RequireM2M, RequireAnyScope({"admin", "write"})>>})

MCSpare == {<<Custom("", {"alice", "job"}), RequirePARC("read", "report")>>}
MCAppHandlers == ("AppRequirement" :> "app") @@ ("Named" :> "custom")

MCRoutes ==
    {<<Use, Plain>>, <<Use, Mentions>>, <<Use, Anyone, Plain>>, 
     <<On("Authorize", "reports", FALSE, "")>>, <<On("AuthorizeResource", "own", FALSE, "r1")>>,
     <<Use, On("Authorize", "own", TRUE, ""), Parc("")>>,
     <<Use, On("AuthorizeResource", "reports", FALSE, "r1")>>}

\* The routes that ask for permissions.
PermissionRoutes ==
    {<<Use, Plain>>, <<Parc("r1")>>,
     <<Use, On("Authorize", "people", FALSE, ""), On("RequirePolicy", "reports", TRUE, "r1")>>,
     <<Use, On("AuthorizeResource", "reports", FALSE, "r1")>>}

AllRoutes == MCRoutes \cup PermissionRoutes

-----------------------------------------------------------------------------
(* The parts                                                               *)

VARIABLE part

\* Engines of all kinds, for users without permissions.
PoliciesPart ==
    /\ \A s \in Subjects : bundles[s] = {}
    /\ options.default = NoOption
    /\ req.pc # "idle" => req.route \in MCRoutes

\* Permissions that change, with fewer policies and one user.
PermissionsPart ==
    /\ DOMAIN options.policies \cup DOMAIN engine.policies \subseteq {"people", "reports"}
    /\ options.handlers \subseteq {"parc"}
    /\ DOMAIN engine.handlers \cap DOMAIN AppHandlers = {}
    /\ \A s \in Subjects \ {"alice"} : bundles[s] = {}
    /\ req.pc # "idle" => req.user \in {Alice, Anonymous} /\ req.route \in PermissionRoutes

AuthzInit ==
    /\ part \in {"bundle", "policies", "permissions"}
    /\ Init /\ EvaluateInit
    /\ part # "bundle" => q = CHOOSE p \in Asked : TRUE

AuthzNext ==
    /\ UNCHANGED part
    /\ \/ part = "bundle" /\ EvaluateNext /\ UNCHANGED vars
       \/ part = "policies" /\ Next /\ PoliciesPart' /\ UNCHANGED evaluateVars
       \/ part = "permissions" /\ Next /\ PermissionsPart' /\ UNCHANGED evaluateVars

AuthzSpec == AuthzInit /\ [][AuthzNext]_<<vars, part, evaluateVars>>

=============================================================================
