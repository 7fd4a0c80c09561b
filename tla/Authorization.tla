------------------------------ MODULE Authorization ------------------------------
(***************************************************************************)
(* The policy engine, its builder, and the handlers of a route that ask it. *)
(* The application configures and builds the engine, then requests run     *)
(* along their route; each requirement of a policy is evaluated in a step  *)
(* of its own while permissions are granted and revoked.                   *)
(***************************************************************************)
EXTENDS PARCRules, Requirements, Integers, Sequences, Functions

CONSTANTS
    Subjects, Users,    \* a user is [subject, roles, scopes, method]; roles in lower case
    Anonymous,          \* no user on the request
    Named,              \* Named[n]: policies the application may register under n
    Defaults, Fallbacks, \* policies it may make its default, its fallback policy
    AppHandlers,        \* requirement handlers of the application, by requirement type
    AppAllows,          \* subjects that the application's handlers allow
    Granted,            \* rules that are granted
    Routes,             \* sequences of handlers, see Explicit
    NoBundle            \* nothing in the permission cache

\* The requirement types that the package has handlers for.
BuiltIn == {"ScopeRequirement", "RoleRequirement", "UserPresentRequirement",
            "M2MRequirement", "CustomRequirement", "PARCRequirement"}

AuthMethods == {"oauth:auth_code_pkce", "oauth:device_flow", "oauth:client_credentials",
                "api_key", "unknown"}

\* A named assertion has a name of its own, and the application's handlers are for the
\* requirements they are made for.
WellFormed(m) ==
    /\ m.go = "CustomRequirement" /\ m.name # Empty =>
           /\ m.name \notin BuiltIn
           /\ m.name \in DOMAIN AppHandlers => AppHandlers[m.name] = "custom"
    /\ m.go \notin BuiltIn /\ m.go \in DOMAIN AppHandlers => AppHandlers[m.go] = "app"

IsPolicy(p) == p \in Seq(Range(p)) /\ \A m \in Range(p) : WellFormed(m)

ASSUME AuthorizationAssumption ==
    /\ DOMAIN AppHandlers \cap BuiltIn = {}
    /\ \A n \in DOMAIN Named : \A p \in Named[n] : IsPolicy(p)
    /\ \A p \in Fallbacks : IsPolicy(p)
    /\ \A u \in Users : u.subject \in Subjects /\ u.method \in AuthMethods
    /\ \A route \in Routes : route \in Seq(Range(route))
    /\ \A b \in SUBSET Granted : b # NoBundle

VARIABLES options, engine, mw, bundles, cached, req

vars == <<options, engine, mw, bundles, cached, req>>

-----------------------------------------------------------------------------
(* Requirements and what their handlers say of them                        *)

RequireAuthenticatedUser == Custom(Empty, Subjects \ {Empty})

RequirementType(m) ==
    IF m.go = "CustomRequirement" /\ m.name # Empty THEN m.name ELSE m.go

\* The request the PARC handler puts together.
Assemble(m, ctx) ==
    [ctx EXCEPT !.action = IF m.action # Empty THEN m.action ELSE @,
                !.type = IF m.type # Empty /\ @ = Empty THEN m.type ELSE @]

\* Mutant: any of several scopes is read as all of them.
HandleAllScopes(h, u, m, ctx, b) ==
    CASE h = "scope" -> m.scopes \subseteq u.scopes
      [] h = "parc" -> DenyOverrides(b, Assemble(m, ctx))
      [] h = "m2m" -> u.method \in {"oauth:client_credentials", "api_key"}
      [] OTHER -> TRUE

\* What handler h says of requirement m, for bundle b of the user.
Handle(h, u, m, ctx, b) ==
    CASE h = "scope" -> /\ m.go = "ScopeRequirement"
                        /\ IF m.all THEN m.scopes \subseteq u.scopes
                           ELSE m.scopes = {} \/ m.scopes \cap u.scopes # {}
      [] h = "role" -> m.go = "RoleRequirement" /\ m.roles \subseteq u.roles
      [] h = "user" -> u.method \in {"oauth:auth_code_pkce", "oauth:device_flow"}
      [] h = "m2m" -> u.method \in {"oauth:client_credentials", "api_key"}
      [] h = "custom" -> m.go = "CustomRequirement" /\ u.subject \in m.func
      [] h = "parc" -> m.go = "PARCRequirement" /\ DenyOverrides(b, Assemble(m, ctx))
      [] OTHER -> u.subject \in AppAllows

DefaultHandlers ==
    [ScopeRequirement |-> "scope", RoleRequirement |-> "role",
     UserPresentRequirement |-> "user", M2MRequirement |-> "m2m",
     CustomRequirement |-> "custom"]

\* Assignment to a key of a map.
Put(map, k, v) == [x \in DOMAIN map \cup {k} |-> IF x = k THEN v ELSE map[x]]

-----------------------------------------------------------------------------
(* Configuration                                                           *)

Idle == [pc |-> "idle"]
InFlight == req.pc \in {"handler", "evaluate"}
NoOption == {}   \* an optional policy is a set of at most one

Init ==
    /\ options = [policies |-> << >>, default |-> NoOption, fallback |-> NoOption,
                  handlers |-> {}, err |-> FALSE]
    /\ engine = [built |-> FALSE, policies |-> << >>, handlers |-> << >>,
                 default |-> NoOption, fallback |-> NoOption]
    /\ mw = [set |-> FALSE, default |-> NoOption, fallback |-> NoOption]
    /\ bundles = [s \in Subjects |-> {}]
    /\ cached = [s \in Subjects |-> NoBundle]
    /\ req = Idle

Configure(o) ==
    /\ ~engine.built
    /\ options' = o
    /\ UNCHANGED <<engine, mw, bundles, cached, req>>

AddPolicy(n, p) == Configure([options EXCEPT !.policies = Put(@, n, p)])
WithDefaultPolicy(p) == Configure([options EXCEPT !.default = {p}])
WithFallbackPolicy(p) == Configure([options EXCEPT !.fallback = {p}])
WithHandler(t) == Configure([options EXCEPT !.handlers = @ \cup {AppHandlers[t]}])

\* A nil repository is an error that Build reports; later calls of WithPARC do nothing.
WithPARC(repo) ==
    Configure(IF options.err THEN options
              ELSE IF repo = "nil" THEN [options EXCEPT !.err = TRUE]
              ELSE [options EXCEPT !.handlers = @ \cup {"parc"}])

\* NewAuthorizationService keeps, of the handlers it is given, a PARC handler.
Build ==
    /\ ~engine.built /\ ~options.err
    /\ engine' = [built |-> TRUE, policies |-> options.policies,
                  handlers |-> IF "parc" \in options.handlers
                               THEN Put(DefaultHandlers, "PARCRequirement", "parc")
                               ELSE DefaultHandlers,
                  default |-> options.default, fallback |-> options.fallback]
    /\ UNCHANGED <<options, mw, bundles, cached, req>>

\* UseAuthorization, with a fallback policy among its options or without.
New(f) ==
    /\ engine.built /\ ~mw.set
    /\ mw' = [set |-> TRUE, default |-> engine.default,
              fallback |-> IF f # NoOption THEN f ELSE engine.fallback]
    /\ UNCHANGED <<options, engine, bundles, cached, req>>

\* The maps of the engine have no lock: they change only while no request runs.
RegisterPolicy(n, p) ==
    /\ mw.set /\ ~InFlight
    /\ engine' = [engine EXCEPT !.policies = Put(@, n, p)]
    /\ req' = Idle
    /\ UNCHANGED <<options, mw, bundles, cached>>

RegisterHandler(t) ==
    /\ mw.set /\ ~InFlight
    /\ engine' = [engine EXCEPT !.handlers = Put(@, t, AppHandlers[t])]
    /\ req' = Idle
    /\ UNCHANGED <<options, mw, bundles, cached>>

-----------------------------------------------------------------------------
(* Permissions and requests                                                *)

\* What the request's user could have been granted since the request arrived.
Seen(b) ==
    IF InFlight /\ req.user # Anonymous
    THEN [req EXCEPT !.seen = @ \cup {b[req.user.subject]}] ELSE req

GrantPermission(s, rule) ==
    /\ mw.set
    /\ bundles' = [bundles EXCEPT ![s] = @ \cup {rule}]
    /\ req' = Seen(bundles')
    /\ UNCHANGED <<options, engine, mw, cached>>

RevokeAll(s) ==
    /\ mw.set
    /\ bundles' = [bundles EXCEPT ![s] = {}]
    /\ req' = Seen(bundles')
    /\ UNCHANGED <<options, engine, mw, cached>>

\* The cached bundle expires or is revoked.
CacheExpire(s) ==
    /\ cached[s] # NoBundle
    /\ cached' = [cached EXCEPT ![s] = NoBundle]
    /\ UNCHANGED <<options, engine, mw, bundles, req>>

NoContext == [action |-> Empty, method |-> "GET", type |-> Empty, id |-> Empty, tenant |-> Empty]

Arrive(route, u) ==
    /\ mw.set /\ ~InFlight
    /\ req' = [pc |-> "handler", route |-> route, user |-> u, pos |-> 1, todo |-> << >>,
               ctx |-> NoContext, repoFailed |-> FALSE,
               seen |-> IF u = Anonymous THEN {}
                        ELSE {bundles[u.subject], cached[u.subject]} \ {NoBundle}]
    /\ UNCHANGED <<options, engine, mw, bundles, cached>>

\* Some handler of the route has a function name that mentions authorization.  A
\* handler of the application may have one, too.
Explicit(route) ==
    \E h \in Range(route) :
        h.kind \in {"AllowAnonymous", "Authorize", "RequirePolicy", "RequirePARC"}
          \/ (h.kind = "application" /\ h.mentions)

Answer(code) == req' = [req EXCEPT !.pc = code]
Advance == req' = [req EXCEPT !.pc = "handler", !.pos = @ + 1]

\* The middleware ran before this handler and stored the service.
ServiceStored == \E k \in 1..req.pos : req.route[k].kind = "UseAuthorization"

\* A user is asked for, then the requirements are evaluated one by one.
BeginPolicy(p, ctx) ==
    IF req.user = Anonymous THEN Answer("401")
    ELSE req' = [req EXCEPT !.pc = "evaluate", !.todo = p, !.ctx = ctx]

Context(action, res) ==
    [NoContext EXCEPT !.action = action, !.type = res.type, !.id = res.id, !.tenant = res.tenant]

Running(kinds) ==
    /\ req.pc = "handler"
    /\ req.pos <= Len(req.route)
    /\ req.route[req.pos].kind \in kinds
    /\ UNCHANGED <<options, engine, mw, bundles, cached>>

NoResource == [type |-> Empty, id |-> Empty, tenant |-> Empty]

\* The pipeline middleware; it stores the service for the handlers behind it.
UseAuthorization ==
    /\ Running({"UseAuthorization"})
    /\ IF mw.fallback # NoOption /\ ~Explicit(req.route)
       THEN \E p \in mw.fallback : BeginPolicy(p, Context(NoContext.method, NoResource))
       ELSE Advance

\* Handlers that only pass on; AllowAnonymous sets a key that nothing reads.
PassOn == Running({"AllowAnonymous", "application"}) /\ Advance

\* A policy that is not registered is refused after the user was asked for.
BeginNamed(n, ctx) ==
    IF req.user # Anonymous /\ n \notin DOMAIN engine.policies THEN Answer("403")
    ELSE BeginPolicy(IF n \in DOMAIN engine.policies THEN engine.policies[n] ELSE << >>, ctx)

Authorize ==
    /\ Running({"Authorize", "RequirePolicy"})
    /\ LET h == req.route[req.pos]
       IN  IF h.kind = "Authorize" /\ ~h.engine /\ ~ServiceStored THEN Answer("panic")
           ELSE BeginNamed(h.policy, Context(NoContext.method, h.resource))

RequirePARCHandler ==
    /\ Running({"RequirePARC"})
    /\ LET h == req.route[req.pos]
           res == IF h.resource # NoResource THEN h.resource
                  ELSE [NoResource EXCEPT !.type = h.type, !.id = Star]
       IN  BeginPolicy(<<RequirePARC(h.action, h.type)>>, Context(h.action, res))

\* An endpoint that asks with AuthorizeResource and answers 403 itself.
AuthorizeResource ==
    /\ Running({"AuthorizeResource"})
    /\ LET h == req.route[req.pos]
       IN  IF ~ServiceStored \/ req.user = Anonymous THEN Answer("403")
           ELSE BeginNamed(h.policy, Context(NoContext.method, h.resource))

\* Mutant: a requirement that holds ends the evaluation.
EvaluateRequirementOr(ok) ==
    /\ req.pc = "evaluate" /\ req.todo # << >> /\ ok
    /\ LET m == Head(req.todo)
           t == RequirementType(m)
       IN  IF /\ t \in DOMAIN engine.handlers
              /\ Handle(engine.handlers[t], req.user, m, req.ctx, bundles[req.user.subject])
           THEN req' = [req EXCEPT !.todo = << >>] ELSE Answer("403")
    /\ UNCHANGED <<options, engine, mw, bundles, cached>>

\* One turn of Evaluate's loop; ok is whether the repository answers if it is asked.
EvaluateRequirement(ok) ==
    /\ req.pc = "evaluate"
    /\ req.todo # << >>
    /\ LET m == Head(req.todo)
           t == RequirementType(m)
           s == req.user.subject
           h == IF t \in DOMAIN engine.handlers THEN engine.handlers[t] ELSE "none"
           fetch == h = "parc" /\ m.go = "PARCRequirement" /\ cached[s] = NoBundle
           b == IF cached[s] # NoBundle THEN cached[s] ELSE bundles[s]
       IN  /\ ok \/ fetch
           /\ cached' = IF fetch /\ ok THEN [cached EXCEPT ![s] = b] ELSE cached
           /\ IF ~ok THEN req' = [req EXCEPT !.pc = "403", !.repoFailed = TRUE]
              ELSE IF h # "none" /\ Handle(h, req.user, m, req.ctx, b)
              THEN req' = [req EXCEPT !.todo = Tail(@)]
              ELSE Answer("403")
    /\ UNCHANGED <<options, engine, mw, bundles>>

\* All requirements hold: c.Next.
PolicyHolds ==
    /\ req.pc = "evaluate" /\ req.todo = << >>
    /\ Advance
    /\ UNCHANGED <<options, engine, mw, bundles, cached>>

Serve ==
    /\ req.pc = "handler" /\ req.pos > Len(req.route)
    /\ Answer("served")
    /\ UNCHANGED <<options, engine, mw, bundles, cached>>

Next ==
    \/ \E n \in DOMAIN Named : \E p \in Named[n] : AddPolicy(n, p) \/ RegisterPolicy(n, p)
    \/ \E p \in Defaults : WithDefaultPolicy(p)
    \/ \E p \in Fallbacks : WithFallbackPolicy(p)
    \/ \E t \in DOMAIN AppHandlers : WithHandler(t) \/ RegisterHandler(t)
    \/ \E repo \in {"nil", "memory"} : WithPARC(repo)
    \/ Build
    \/ \E f \in {NoOption} \cup {{p} : p \in Fallbacks} : New(f)
    \/ \E s \in Subjects : RevokeAll(s) \/ CacheExpire(s) \/ \E r \in Granted : GrantPermission(s, r)
    \/ \E route \in Routes, u \in Users \cup {Anonymous} : Arrive(route, u)
    \/ UseAuthorization \/ PassOn \/ Authorize \/ RequirePARCHandler \/ AuthorizeResource
    \/ \E ok \in BOOLEAN : EvaluateRequirement(ok)
    \/ PolicyHolds
    \/ Serve

Spec == Init /\ [][Next]_vars

-----------------------------------------------------------------------------
(* Properties                                                              *)

\* What a requirement means, whichever handler is asked.
Meets(u, m, ctx, b) ==
    CASE m.go = "ScopeRequirement" ->
             IF m.all THEN \A s \in m.scopes : s \in u.scopes
             ELSE m.scopes # {} => \E s \in m.scopes : s \in u.scopes
      [] m.go = "RoleRequirement" -> \A r \in m.roles : r \in u.roles
      [] m.go = "UserPresentRequirement" ->
             u.method \notin {"oauth:client_credentials", "api_key", "unknown"}
      [] m.go = "M2MRequirement" ->
             u.method \notin {"oauth:auth_code_pkce", "oauth:device_flow", "unknown"}
      [] m.go = "CustomRequirement" -> u.subject \in m.func
      [] m.go = "PARCRequirement" -> DenyOverrides(b, Assemble(m, ctx))
      [] OTHER -> u.subject \in AppAllows

\* The policies that a handler of the request's route asks about, each with the context
\* it is evaluated in; a name without a policy gives none.
AskedBy(h) ==
    CASE h.kind \in {"Authorize", "RequirePolicy", "AuthorizeResource"} ->
           {[policy |-> engine.policies[n], ctx |-> Context(NoContext.method, h.resource)] :
              n \in {h.policy} \cap DOMAIN engine.policies}
      [] h.kind = "RequirePARC" ->
           {[policy |-> <<RequirePARC(h.action, h.type)>>,
             ctx |-> Context(h.action, IF h.resource # NoResource THEN h.resource
                                       ELSE [NoResource EXCEPT !.type = h.type, !.id = Star])]}
      [] h.kind = "UseAuthorization" /\ ~Explicit(req.route) ->
           {[policy |-> p, ctx |-> Context(NoContext.method, NoResource)] : p \in mw.fallback}
      [] OTHER -> {}

\* Every policy that the route names is registered.
Registered(handlers) ==
    \A h \in handlers : h.kind \in {"Authorize", "RequirePolicy", "AuthorizeResource"} =>
        h.policy \in DOMAIN engine.policies

\* A request reaches its endpoint only if every policy on its route is registered, there
\* is a user, and each requirement of each policy held for a bundle that the user had, or
\* that was cached, at some moment since the request arrived: PolicyEngine.Evaluate's
\* loop, the guards and the fallback of the middleware.
AllowedHeld ==
    req.pc = "served" =>
        /\ Registered(Range(req.route))
        /\ \A h \in Range(req.route) : \A a \in AskedBy(h) :
               /\ req.user # Anonymous
               /\ \A m \in Range(a.policy) : \E b \in req.seen : Meets(req.user, m, a.ctx, b)

\* A request is refused with 403 only for a reason at the handler that refuses: its policy
\* or a requirement's handler is missing, the repository failed, an endpoint that asks had
\* no service or user, or a requirement did not hold at some moment since the request
\* arrived.
RefusedForReason ==
    req.pc = "403" =>
        LET h == req.route[req.pos]
        IN  \/ req.repoFailed
            \/ ~Registered({h})
            \/ h.kind = "AuthorizeResource" /\ (~ServiceStored \/ req.user = Anonymous)
            \/ \E a \in AskedBy(h) : \E m \in Range(a.policy) :
                   \/ RequirementType(m) \notin DOMAIN engine.handlers
                   \/ \E b \in req.seen : ~Meets(req.user, m, a.ctx, b)

=============================================================================
