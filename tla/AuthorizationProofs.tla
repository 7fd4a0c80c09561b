--------------------------- MODULE AuthorizationProofs ---------------------------
(***************************************************************************)
(* The loop of Evaluate computes deny-overrides, for every bundle and every *)
(* request; and what the policy engine lets through and refuses, for every  *)
(* set of policies, routes, users and permissions.                          *)
(***************************************************************************)
EXTENDS Authorization, PARCEvaluate, TLAPS

-----------------------------------------------------------------------------
(* The loop of PrincipalPermissions.Evaluate                               *)

\* While the loop runs, what it has seen: no deny, and a permit if it remembers one.
SeenRules ==
    /\ \A k \in 1..(i - 1) : Matches(rules[k], q) => rules[k].effect # "deny"
    /\ matchedPermit <=> \E k \in 1..(i - 1) :
                             Matches(rules[k], q) /\ rules[k].effect = "permit"

LoopInv == LoopTypeOK /\ (decision = "running" => SeenRules) /\ EvaluateIsDenyOverrides

\* Before the first rule nothing was seen.
LEMMA InitLoop == EvaluateInit => LoopInv
  <1> SUFFICES ASSUME EvaluateInit PROVE LoopInv
    BY Zenon
  <1>a. rules \in Seq(Rules) /\ i \in 1..(Len(rules) + 1)
    <2>1. rules = << >> /\ i = 1
      BY Zenon DEF EvaluateInit
    <2>2. QED
      BY <2>1
  <1>1. LoopTypeOK
    BY <1>a, EvaluateAssumption, Zenon DEF EvaluateInit, LoopTypeOK
  <1>2. QED
    BY <1>1, Zenon DEF EvaluateInit, LoopInv, EvaluateIsDenyOverrides

\* Every step keeps the types; the index stays within one of the rules.
LEMMA NextType == LoopTypeOK /\ [EvaluateNext]_evaluateVars => LoopTypeOK'
  <1> SUFFICES ASSUME LoopTypeOK, [EvaluateNext]_evaluateVars PROVE LoopTypeOK'
    BY Zenon
  <1>1. ASSUME NEW r \in BundleRules, Grant(r) PROVE LoopTypeOK'
    <2>1. r \in Rules /\ rules \in Seq(Rules) /\ i \in 1..(Len(rules) + 1)
      BY EvaluateAssumption, Zenon DEF LoopTypeOK
    <2>2. rules' = Append(rules, r) /\ i' = i
      BY <1>1, Zenon DEF Grant
    <2>3. rules' \in Seq(Rules) /\ i' \in 1..(Len(rules') + 1)
      BY <2>1, <2>2
    <2>4. QED
      BY <1>1, <2>3, Zenon DEF Grant, LoopTypeOK
  <1>2. ASSUME NEW p \in Asked, Begin(p) PROVE LoopTypeOK'
    <2>1. rules \in Seq(Rules) /\ 1 \in 1..(Len(rules) + 1)
      <3>1. rules \in Seq(Rules)
        BY EvaluateAssumption, Zenon DEF LoopTypeOK
      <3>2. QED
        BY <3>1
    <2>2. rules' = rules /\ i' = 1 /\ q' \in PARCRequests
      BY <1>2, EvaluateAssumption, Zenon DEF Begin
    <2>3. matchedPermit' \in BOOLEAN /\ decision' \in {"running", "no permissions"}
      BY <1>2, Zenon DEF Begin
    <2>4. QED
      BY <2>1, <2>2, <2>3, Zenon DEF LoopTypeOK, Reasons
  <1>3. CASE RuleStep
    <2>1. matchedPermit' \in BOOLEAN
      BY <1>3, Zenon DEF RuleStep, LoopTypeOK
    <2>2. QED
      BY <1>3, <2>1 DEF RuleStep, LoopTypeOK, Reasons
  <1>4. CASE Finish
    BY <1>4, Zenon DEF Finish, LoopTypeOK, Reasons
  <1>5. CASE UNCHANGED evaluateVars
    BY <1>5, Zenon DEF evaluateVars, LoopTypeOK
  <1>6. QED
    BY <1>1, <1>2, <1>3, <1>4, <1>5, Zenon DEF EvaluateNext

\* One turn of the loop extends what has been seen by one rule.
LEMMA StepSeen ==
    ASSUME LoopTypeOK, SeenRules, RuleStep, decision' = "running"
    PROVE  SeenRules'
  <1>1. i \in 1..Len(rules) /\ i' = i + 1 /\ rules' = rules /\ q' = q
    BY DEF RuleStep, LoopTypeOK
  <1>2. Matches(rules[i], q) => rules[i].effect # "deny"
    BY Zenon DEF RuleStep
  <1>3. \A k \in 1..i : Matches(rules[k], q) => rules[k].effect # "deny"
    <2> SUFFICES ASSUME NEW k \in 1..i PROVE Matches(rules[k], q) => rules[k].effect # "deny"
      BY Zenon
    <2>1. CASE k = i
      BY <2>1, <1>2, Zenon
    <2>2. CASE k # i
      <3>1. k \in 1..(i - 1)
        BY <1>1, <2>2
      <3>2. QED
        BY <3>1, Zenon DEF SeenRules
    <2>3. QED
      BY <2>1, <2>2, Zenon
  <1>4. matchedPermit' <=> \E k \in 1..i : Matches(rules[k], q) /\ rules[k].effect = "permit"
    <2>1. matchedPermit' <=> matchedPermit \/ (Matches(rules[i], q) /\ rules[i].effect = "permit")
      BY Zenon DEF RuleStep
    <2>2. 1..i = (1..(i - 1)) \cup {i}
      BY <1>1
    <2>3. QED
      BY <2>1, <2>2, Zenon DEF SeenRules
  <1>5. i' - 1 = i
    BY <1>1
  <1>6. QED
    BY <1>1, <1>3, <1>4, <1>5, Zenon DEF SeenRules

\* What the loop has seen of all the rules is what deny-overrides asks.
LEMMA SeenAll ==
    ASSUME LoopTypeOK, SeenRules, i = Len(rules) + 1
    PROVE  matchedPermit <=> DenyOverrides({rules[k] : k \in 1..Len(rules)}, q)
  <1>1. i - 1 = Len(rules)
    BY DEF LoopTypeOK
  <1>2. QED
    BY <1>1, Zenon DEF SeenRules, DenyOverrides

\* Every step keeps the loop's invariant.
LEMMA NextLoop == LoopInv /\ [EvaluateNext]_evaluateVars => LoopInv'
  <1> SUFFICES ASSUME LoopInv, [EvaluateNext]_evaluateVars PROVE LoopInv'
    BY Zenon
  <1>1. LoopTypeOK /\ LoopTypeOK'
    BY NextType, Zenon DEF LoopInv
  <1>2. ASSUME NEW r \in BundleRules, Grant(r) PROVE LoopInv'
    BY <1>1, <1>2, Zenon DEF Grant, LoopInv, EvaluateIsDenyOverrides
  <1>3. ASSUME NEW p \in Asked, Begin(p) PROVE LoopInv'
    <2>1. decision' = "running" => SeenRules'
      BY <1>3 DEF Begin, SeenRules
    <2>2. EvaluateIsDenyOverrides'
      <3>1. CASE rules = << >>
        <4>0. rules' = << >>
          BY <1>3, <3>1, Zenon DEF Begin
        <4>1. {rules'[k] : k \in 1..Len(rules')} = {}
          BY <4>0
        <4>2. ~DenyOverrides({}, q')
          BY Zenon DEF DenyOverrides
        <4>3. decision' = "no permissions"
          BY <1>3, <3>1, Zenon DEF Begin
        <4>4. QED
          BY <4>1, <4>2, <4>3, Zenon DEF EvaluateIsDenyOverrides
      <3>2. CASE rules # << >>
        BY <1>3, <3>2, Zenon DEF Begin, EvaluateIsDenyOverrides
      <3>3. QED
        BY <3>1, <3>2, Zenon
    <2>3. QED
      BY <1>1, <2>1, <2>2, Zenon DEF LoopInv
  <1>4. CASE RuleStep
    <2>1. decision' = "running" => SeenRules'
      BY <1>1, <1>4, StepSeen, Zenon DEF LoopInv, RuleStep
    <2>2. EvaluateIsDenyOverrides'
      <3>1. CASE decision' = "running"
        BY <3>1, Zenon DEF EvaluateIsDenyOverrides
      <3>2. CASE decision' = "denied"
        <4>1. Matches(rules[i], q) /\ rules[i].effect = "deny" /\ i \in 1..Len(rules)
          BY <1>1, <1>4, <3>2 DEF RuleStep, LoopTypeOK
        <4>2. ~DenyOverrides({rules[k] : k \in 1..Len(rules)}, q)
          BY <4>1, Zenon DEF DenyOverrides
        <4>3. rules' = rules /\ q' = q
          BY <1>4, Zenon DEF RuleStep
        <4>4. QED
          BY <3>2, <4>2, <4>3, Zenon DEF EvaluateIsDenyOverrides
      <3>3. QED
        BY <1>4, <3>1, <3>2, Zenon DEF RuleStep
    <2>3. QED
      BY <1>1, <2>1, <2>2, Zenon DEF LoopInv
  <1>5. CASE Finish
    <2>1. SeenRules /\ i = Len(rules) + 1
      <3>1. SeenRules /\ i > Len(rules) /\ rules \in Seq(Rules) /\ i \in 1..(Len(rules) + 1)
        BY <1>1, <1>5, Zenon DEF Finish, LoopInv, LoopTypeOK
      <3>2. QED
        BY <3>1
    <2>2. matchedPermit <=> DenyOverrides({rules[k] : k \in 1..Len(rules)}, q)
      BY <1>1, <2>1, SeenAll, Zenon
    <2>3. decision' = "allowed" <=> matchedPermit
      BY <1>5, Zenon DEF Finish
    <2>4. rules' = rules /\ q' = q /\ decision' # "running"
      BY <1>5, Zenon DEF Finish
    <2>5. QED
      BY <1>1, <2>2, <2>3, <2>4, Zenon DEF LoopInv, EvaluateIsDenyOverrides
  <1>6. CASE UNCHANGED evaluateVars
    BY <1>1, <1>6, Zenon DEF evaluateVars, LoopInv, SeenRules, EvaluateIsDenyOverrides
  <1>7. QED
    BY <1>2, <1>3, <1>4, <1>5, <1>6, Zenon DEF EvaluateNext

\* The index of Evaluate's loop never leaves the rules by more than one.
THEOREM EvaluateTypes == EvaluateSpec => []LoopTypeOK
  <1>1. LoopInv => LoopTypeOK
    BY Zenon DEF LoopInv
  <1>2. QED
    BY InitLoop, NextLoop, <1>1, PTL DEF EvaluateSpec

\* PrincipalPermissions.Evaluate decides by deny-overrides, whatever the rules, their
\* order and the request.
THEOREM EvaluateCorrect == EvaluateSpec => []EvaluateIsDenyOverrides
  <1>1. LoopInv => EvaluateIsDenyOverrides
    BY Zenon DEF LoopInv
  <1>2. QED
    BY InitLoop, NextLoop, <1>1, PTL DEF EvaluateSpec

-----------------------------------------------------------------------------
(* The policy engine                                                       *)

\* The handlers that may be registered for a requirement type.
HandlerFor(t, h) ==
    \/ t = "ScopeRequirement" /\ h = "scope"
    \/ t = "RoleRequirement" /\ h = "role"
    \/ t = "UserPresentRequirement" /\ h = "user"
    \/ t = "M2MRequirement" /\ h = "m2m"
    \/ t = "CustomRequirement" /\ h = "custom"
    \/ t = "PARCRequirement" /\ h = "parc"
    \/ t \in DOMAIN AppHandlers /\ h = AppHandlers[t]

OptionalFallback == {NoOption} \cup {{p} : p \in Fallbacks}

EngineInv ==
    /\ DOMAIN options = {"policies", "default", "fallback", "handlers", "err"}
    /\ DOMAIN engine = {"built", "policies", "handlers", "default", "fallback"}
    /\ \A n \in DOMAIN options.policies : IsPolicy(options.policies[n])
    /\ \A n \in DOMAIN engine.policies : IsPolicy(engine.policies[n])
    /\ {options.fallback, engine.fallback, mw.fallback} \subseteq OptionalFallback
    /\ \A t \in DOMAIN engine.handlers : HandlerFor(t, engine.handlers[t])
    /\ mw.set => engine.built
    /\ bundles \in [Subjects -> SUBSET Granted]
    /\ DOMAIN cached = Subjects

\* The request has a bundle for which it meets requirement m.
Met(m, ctx) == \E b \in req.seen : Meets(req.user, m, ctx, b)

\* Handler h let the request pass, for good reasons.
Passed(h) ==
    /\ Registered({h})
    /\ \A a \in AskedBy(h) : req.user # Anonymous /\ \A m \in Range(a.policy) : Met(m, a.ctx)

\* The requirements of handler h's policy that are not left to evaluate are met.
Evaluating(h) ==
    /\ req.user # Anonymous /\ Registered({h}) /\ IsPolicy(req.todo)
    /\ \A a \in AskedBy(h) :
           a.ctx = req.ctx /\ \A m \in Range(a.policy) : m \in Range(req.todo) \/ Met(m, a.ctx)
    /\ \E a \in AskedBy(h) : a.ctx = req.ctx /\ Range(req.todo) \subseteq Range(a.policy)

\* What a request sees of its user's permissions is recorded.
Recorded ==
    LET s == req.user.subject
    IN  req.user # Anonymous =>
            bundles[s] \in req.seen /\ (cached[s] # NoBundle => cached[s] \in req.seen)

\* The handlers that the request passed, and the one it is at.
Behind == {req.route[k] : k \in 1..(req.pos - 1)}
Here == {req.route[req.pos]}

FlightInv ==
    /\ req.route \in Routes /\ req.user \in Users \cup {Anonymous}
    /\ req.pos \in 1..(Len(req.route) + 1)
    /\ Recorded
    /\ \A h \in Behind : Passed(h)
    /\ req.pc = "evaluate" => req.pos <= Len(req.route) /\ \A h \in Here : Evaluating(h)

RouteInv ==
    /\ req.pc # "idle" =>
          /\ DOMAIN req = {"pc", "route", "user", "pos", "todo", "ctx", "repoFailed", "seen"}
          /\ mw.set
    /\ InFlight => FlightInv
    /\ AllowedHeld /\ RefusedForReason

PolicyInv == EngineInv /\ RouteInv

-----------------------------------------------------------------------------
(* What the handlers say is what the requirements mean                     *)

\* The handler that is registered for a requirement's type decides what the requirement
\* means: the dispatch by RequirementType, with the names of assertions, finds no other.
LEMMA HandleMeets ==
  ASSUME NEW m, WellFormed(m), NEW h, HandlerFor(RequirementType(m), h),
         NEW u \in Users, NEW ctx, NEW b
  PROVE  Handle(h, u, m, ctx, b) <=> Meets(u, m, ctx, b)
<1> DEFINE t == RequirementType(m)
<1>1. DOMAIN AppHandlers \cap BuiltIn = {} /\ u.method \in AuthMethods
  BY AuthorizationAssumption, Zenon
<1>2. CASE m.go = "ScopeRequirement"
  <2>1. h = "scope"
    BY <1>1, <1>2, Zenon DEF HandlerFor, RequirementType, BuiltIn
  <2> QED
    BY <1>2, <2>1, Zenon DEF Handle, Meets
<1>3. CASE m.go = "RoleRequirement"
  <2>1. h = "role"
    BY <1>1, <1>3, Zenon DEF HandlerFor, RequirementType, BuiltIn
  <2> QED
    BY <1>3, <2>1, Zenon DEF Handle, Meets
<1>4. CASE m.go = "UserPresentRequirement"
  <2>1. h = "user"
    BY <1>1, <1>4, Zenon DEF HandlerFor, RequirementType, BuiltIn
  <2> QED
    BY <1>1, <1>4, <2>1, Zenon DEF Handle, Meets, AuthMethods
<1>5. CASE m.go = "M2MRequirement"
  <2>1. h = "m2m"
    BY <1>1, <1>5, Zenon DEF HandlerFor, RequirementType, BuiltIn
  <2> QED
    BY <1>1, <1>5, <2>1, Zenon DEF Handle, Meets, AuthMethods
<1>6. CASE m.go = "CustomRequirement"
  <2>1. h = "custom"
    <3>1. CASE m.name = Empty
      BY <1>1, <1>6, <3>1, Zenon DEF HandlerFor, RequirementType, BuiltIn
    <3>2. CASE m.name # Empty
      <4>1. t = m.name /\ m.name \notin BuiltIn
        BY <1>6, <3>2, Zenon DEF RequirementType, WellFormed
      <4>2. t \in DOMAIN AppHandlers /\ h = AppHandlers[t]
        BY <4>1, Zenon DEF HandlerFor, BuiltIn
      <4> QED
        BY <1>6, <3>2, <4>1, <4>2, Zenon DEF WellFormed
    <3> QED
      BY <3>1, <3>2, Zenon
  <2> QED
    BY <1>6, <2>1, Zenon DEF Handle, Meets
<1>7. CASE m.go = "PARCRequirement"
  <2>1. h = "parc"
    BY <1>1, <1>7, Zenon DEF HandlerFor, RequirementType, BuiltIn
  <2> QED
    BY <1>7, <2>1, Zenon DEF Handle, Meets
<1>8. CASE m.go \notin BuiltIn
  <2>1. t = m.go
    BY <1>8, Zenon DEF RequirementType, BuiltIn
  <2>2. t \in DOMAIN AppHandlers /\ h = AppHandlers[t]
    BY <1>8, <2>1, Zenon DEF HandlerFor, BuiltIn
  <2>3. h = "app"
    BY <1>8, <2>1, <2>2, Zenon DEF WellFormed
  <2> QED
    BY <1>8, <2>3, Zenon DEF Handle, Meets, BuiltIn
<1> QED
  BY <1>2, <1>3, <1>4, <1>5, <1>6, <1>7, <1>8, Zenon DEF BuiltIn

-----------------------------------------------------------------------------
(* Configuration                                                           *)

\* While the engine is configured there is no request.
LEMMA NoRequestYet == RouteInv /\ ~mw.set /\ UNCHANGED req => RouteInv'
BY DEF RouteInv, InFlight, AllowedHeld, RefusedForReason

\* After a registration there is no request.
LEMMA NoRequestLeft == req' = Idle => RouteInv'
BY DEF RouteInv, Idle, InFlight, AllowedHeld, RefusedForReason

\* Before the configuration there is neither a policy nor a request.
LEMMA InitPolicy == Init => PolicyInv
<1> SUFFICES ASSUME Init PROVE PolicyInv
  BY Zenon
<1>1. EngineInv
  BY DEF Init, EngineInv, OptionalFallback
<1>2. RouteInv
  BY Zenon DEF Init, RouteInv, Idle, InFlight, AllowedHeld, RefusedForReason
<1> QED
  BY <1>1, <1>2, Zenon DEF PolicyInv

\* Options that are set keep their shape.
LEMMA ConfigurePolicy ==
  ASSUME PolicyInv, NEW o, Configure(o),
         DOMAIN o = {"policies", "default", "fallback", "handlers", "err"},
         \A n \in DOMAIN o.policies : IsPolicy(o.policies[n]),
         o.fallback \in OptionalFallback
  PROVE  PolicyInv'
<1>1. EngineInv'
  BY Zenon DEF PolicyInv, EngineInv, Configure
<1>2. ~mw.set /\ UNCHANGED req
  BY Zenon DEF PolicyInv, EngineInv, Configure
<1> QED
  BY <1>1, <1>2, NoRequestYet, Zenon DEF PolicyInv

\* Each option that the application sets is well formed.
LEMMA OptionsPolicy ==
  ASSUME PolicyInv,
         \/ \E n \in DOMAIN Named : \E p \in Named[n] : AddPolicy(n, p)
         \/ \E p \in Defaults : WithDefaultPolicy(p)
         \/ \E p \in Fallbacks : WithFallbackPolicy(p)
         \/ \E t \in DOMAIN AppHandlers : WithHandler(t)
         \/ \E repo \in {"nil", "memory"} : WithPARC(repo)
  PROVE  PolicyInv'
<1>0. /\ DOMAIN options = {"policies", "default", "fallback", "handlers", "err"}
      /\ \A n \in DOMAIN options.policies : IsPolicy(options.policies[n])
      /\ options.fallback \in OptionalFallback
  BY Zenon DEF PolicyInv, EngineInv
<1>1. ASSUME NEW n \in DOMAIN Named, NEW p \in Named[n], AddPolicy(n, p) PROVE PolicyInv'
  <2> DEFINE o == [options EXCEPT !.policies = Put(@, n, p)]
  <2>1. Configure(o)
    BY <1>1, Zenon DEF AddPolicy
  <2>2. /\ DOMAIN o = DOMAIN options /\ o.fallback = options.fallback
        /\ o.policies = Put(options.policies, n, p)
    BY <1>0, Zenon
  <2>3. \A j \in DOMAIN o.policies : IsPolicy(o.policies[j])
    <3>1. IsPolicy(p)
      BY AuthorizationAssumption, Zenon
    <3> HIDE DEF o
    <3> QED
      BY <1>0, <2>2, <3>1, Zenon DEF Put
  <2> HIDE DEF o
  <2> QED
    BY <1>0, <2>1, <2>2, <2>3, ConfigurePolicy, Zenon
<1>2. ASSUME NEW p \in Defaults, WithDefaultPolicy(p) PROVE PolicyInv'
  <2> DEFINE o == [options EXCEPT !.default = {p}]
  <2>1. /\ Configure(o) /\ DOMAIN o = DOMAIN options
        /\ o.fallback = options.fallback /\ o.policies = options.policies
    BY <1>0, <1>2, Zenon DEF WithDefaultPolicy
  <2> HIDE DEF o
  <2> QED
    BY <1>0, <2>1, ConfigurePolicy, Zenon
<1>3. ASSUME NEW p \in Fallbacks, WithFallbackPolicy(p) PROVE PolicyInv'
  <2> DEFINE o == [options EXCEPT !.fallback = {p}]
  <2>1. /\ Configure(o) /\ DOMAIN o = DOMAIN options
        /\ o.fallback = {p} /\ o.policies = options.policies
    BY <1>0, <1>3, Zenon DEF WithFallbackPolicy
  <2> HIDE DEF o
  <2> QED
    BY <1>0, <2>1, ConfigurePolicy, Zenon DEF OptionalFallback
<1>4. ASSUME NEW t \in DOMAIN AppHandlers, WithHandler(t) PROVE PolicyInv'
  <2> DEFINE o == [options EXCEPT !.handlers = @ \cup {AppHandlers[t]}]
  <2>1. /\ Configure(o) /\ DOMAIN o = DOMAIN options
        /\ o.fallback = options.fallback /\ o.policies = options.policies
    BY <1>0, <1>4, Zenon DEF WithHandler
  <2> HIDE DEF o
  <2> QED
    BY <1>0, <2>1, ConfigurePolicy, Zenon
<1>5. ASSUME NEW repo, WithPARC(repo) PROVE PolicyInv'
  <2> DEFINE o == IF options.err THEN options
                  ELSE IF repo = "nil" THEN [options EXCEPT !.err = TRUE]
                  ELSE [options EXCEPT !.handlers = @ \cup {"parc"}]
  <2>1. /\ Configure(o) /\ DOMAIN o = DOMAIN options
        /\ o.fallback = options.fallback /\ o.policies = options.policies
    BY <1>0, <1>5, Zenon DEF WithPARC
  <2> HIDE DEF o
  <2> QED
    BY <1>0, <2>1, ConfigurePolicy, Zenon
<1> QED
  BY <1>1, <1>2, <1>3, <1>4, <1>5, Zenon
\* Build and UseAuthorization hand on the options.
LEMMA BuildPolicy ==
  ASSUME PolicyInv, Build PROVE PolicyInv'
<1>1. ~mw.set /\ UNCHANGED req
  BY Zenon DEF PolicyInv, EngineInv, Build
<1>2. \A t \in DOMAIN engine'.handlers : HandlerFor(t, engine'.handlers[t])
  <2>1. \A t \in DOMAIN DefaultHandlers : HandlerFor(t, DefaultHandlers[t])
    BY DEF DefaultHandlers, HandlerFor
  <2>2. HandlerFor("PARCRequirement", "parc")
    BY Zenon DEF HandlerFor
  <2>3. engine'.handlers \in {DefaultHandlers, Put(DefaultHandlers, "PARCRequirement", "parc")}
    BY Zenon DEF Build
  <2> QED
    BY <2>1, <2>2, <2>3 DEF Put
<1>3. EngineInv'
  <2>1. /\ engine'.policies = options.policies /\ engine'.fallback = options.fallback
        /\ DOMAIN engine' = {"built", "policies", "handlers", "default", "fallback"}
        /\ engine'.built
    BY Zenon DEF Build
  <2> QED
    BY <1>2, <2>1, Zenon DEF PolicyInv, EngineInv, Build
<1> QED
  BY <1>1, <1>3, NoRequestYet, Zenon DEF PolicyInv

\* The pipeline middleware takes the fallback policy of its option or of the engine.
LEMMA NewPolicy ==
  ASSUME PolicyInv, NEW f \in OptionalFallback, New(f) PROVE PolicyInv'
<1>1. ~mw.set /\ UNCHANGED req
  BY Zenon DEF New
<1>2. EngineInv'
  <2>1. mw'.fallback \in {f, engine.fallback}
    BY Zenon DEF New
  <2> QED
    BY <2>1, Zenon DEF PolicyInv, EngineInv, New
<1> QED
  BY <1>1, <1>2, NoRequestYet, Zenon DEF PolicyInv

\* A registration adds a policy that is well formed or a handler for its type.
LEMMA RegisterPolicies ==
  ASSUME PolicyInv,
         \/ \E n \in DOMAIN Named : \E p \in Named[n] : RegisterPolicy(n, p)
         \/ \E t \in DOMAIN AppHandlers : RegisterHandler(t)
  PROVE  PolicyInv'
<1>1. ASSUME NEW n \in DOMAIN Named, NEW p \in Named[n], RegisterPolicy(n, p) PROVE PolicyInv'
  <2>1. IsPolicy(p)
    BY AuthorizationAssumption, Zenon
  <2>2. /\ engine'.policies = Put(engine.policies, n, p)
        /\ engine'.handlers = engine.handlers /\ engine'.fallback = engine.fallback
        /\ engine'.built = engine.built /\ DOMAIN engine' = DOMAIN engine
    BY <1>1, Zenon DEF PolicyInv, EngineInv, RegisterPolicy
  <2>3. \A j \in DOMAIN engine'.policies : IsPolicy(engine'.policies[j])
    BY <2>1, <2>2 DEF PolicyInv, EngineInv, Put
  <2>4. EngineInv'
    BY <1>1, <2>2, <2>3, Zenon DEF PolicyInv, EngineInv, RegisterPolicy
  <2> QED
    BY <1>1, <2>4, NoRequestLeft, Zenon DEF PolicyInv, RegisterPolicy
<1>2. ASSUME NEW t \in DOMAIN AppHandlers, RegisterHandler(t) PROVE PolicyInv'
  <2>1. HandlerFor(t, AppHandlers[t])
    BY Zenon DEF HandlerFor
  <2>2. /\ engine'.handlers = Put(engine.handlers, t, AppHandlers[t])
        /\ engine'.policies = engine.policies /\ engine'.fallback = engine.fallback
        /\ engine'.built = engine.built /\ DOMAIN engine' = DOMAIN engine
    BY <1>2, Zenon DEF PolicyInv, EngineInv, RegisterHandler
  <2>3. \A j \in DOMAIN engine'.handlers : HandlerFor(j, engine'.handlers[j])
    BY <2>1, <2>2, Zenon DEF PolicyInv, EngineInv, Put
  <2>4. EngineInv'
    BY <1>2, <2>2, <2>3, Zenon DEF PolicyInv, EngineInv, RegisterHandler
  <2> QED
    BY <1>2, <2>4, NoRequestLeft, Zenon DEF PolicyInv, RegisterHandler
<1> QED
  BY <1>1, <1>2, Zenon
-----------------------------------------------------------------------------
(* Requests                                                                *)

\* A step of the request that keeps its route and its user and forgets no bundle.
SameRequest ==
    /\ UNCHANGED <<engine, mw>>
    /\ req'.route = req.route /\ req'.user = req.user
    /\ req.seen \subseteq req'.seen

\* What handler h asks, and that it let the request pass, stays true.
LEMMA AskedStays ==
  ASSUME SameRequest, NEW h
  PROVE  /\ AskedBy(h)' = AskedBy(h)
         /\ Registered({h})' <=> Registered({h})
         /\ \A m, ctx : Met(m, ctx) => Met(m, ctx)'
         /\ Passed(h) => Passed(h)'
<1>1. AskedBy(h)' = AskedBy(h)
  BY Zenon DEF SameRequest, AskedBy, Explicit
<1>2. Registered({h})' <=> Registered({h})
  BY Zenon DEF SameRequest, Registered
<1>3. ASSUME NEW m, NEW ctx, Met(m, ctx) PROVE Met(m, ctx)'
  <2>1. PICK b \in req.seen : Meets(req.user, m, ctx, b)
    BY <1>3, Zenon DEF Met
  <2>2. Meets(req'.user, m, ctx, b)
    BY <2>1, Zenon DEF SameRequest
  <2> QED
    BY <2>1, <2>2, Zenon DEF SameRequest, Met
<1>4. Passed(h) => Passed(h)'
  <2> SUFFICES ASSUME Passed(h) PROVE Passed(h)'
    BY Zenon
  <2>1. ASSUME NEW a \in AskedBy(h)'
        PROVE  req'.user # Anonymous /\ \A m \in Range(a.policy) : Met(m, a.ctx)'
    BY <1>1, <1>3, <2>1, Zenon DEF Passed, SameRequest
  <2> QED
    BY <1>2, <2>1, Zenon DEF Passed
<1> QED
  BY <1>1, <1>2, <1>3, <1>4, Zenon

\* The evaluation at handler h stays as far as it was.
LEMMA EvaluatingStays ==
  ASSUME SameRequest, req'.todo = req.todo, req'.ctx = req.ctx, NEW h, Evaluating(h)
  PROVE  Evaluating(h)'
<1>1. /\ AskedBy(h)' = AskedBy(h) /\ (Registered({h})' <=> Registered({h}))
      /\ \A m, ctx : Met(m, ctx) => Met(m, ctx)'
  BY AskedStays, Zenon
<1>2. ASSUME NEW a \in AskedBy(h)'
      PROVE  a.ctx = req'.ctx /\ \A m \in Range(a.policy) : m \in Range(req'.todo) \/ Met(m, a.ctx)'
  BY <1>1, <1>2, Zenon DEF Evaluating
<1>3. \E a \in AskedBy(h)' : a.ctx = req'.ctx /\ Range(req'.todo) \subseteq Range(a.policy)
  BY <1>1, Zenon DEF Evaluating
<1>4. req'.user # Anonymous /\ Registered({h})' /\ IsPolicy(req'.todo)
  BY <1>1, Zenon DEF Evaluating, SameRequest
<1> QED
  BY <1>2, <1>3, <1>4, Zenon DEF Evaluating

\* The engine stays as it is while requests run.
LEMMA EngineStays ==
  ASSUME EngineInv, UNCHANGED <<options, engine, mw>>,
         bundles' \in [Subjects -> SUBSET Granted], DOMAIN cached' = Subjects
  PROVE  EngineInv'
BY DEF EngineInv
\* A request that no step touches keeps what was established for it.
LEMMA RequestStays ==
  ASSUME RouteInv, UNCHANGED <<engine, mw, req>>, (InFlight => Recorded')
  PROVE  RouteInv'
<1>1. SameRequest
  BY Zenon DEF SameRequest
<1>2. AllowedHeld' /\ RefusedForReason'
  <2>1. AllowedHeld'
    <3>1. \A h : AskedBy(h)' = AskedBy(h)
      BY <1>1, AskedStays, Zenon
    <3>2. Registered(Range(req.route))' <=> Registered(Range(req.route))
      BY Zenon DEF Registered
    <3> QED
      BY <3>1, <3>2, Zenon DEF RouteInv, AllowedHeld
  <2>2. RefusedForReason'
    BY Zenon DEF RouteInv, RefusedForReason, AskedBy, Registered, Explicit, ServiceStored
  <2> QED
    BY <2>1, <2>2, Zenon
<1>3. InFlight' => FlightInv'
  <2> SUFFICES ASSUME InFlight' PROVE FlightInv'
    BY Zenon
  <2>1. InFlight /\ FlightInv /\ Recorded'
    BY Zenon DEF RouteInv, InFlight
  <2>2. Behind' = Behind /\ Here' = Here
    BY Zenon DEF Behind, Here
  <2>3. \A h \in Behind' : Passed(h)'
    BY <1>1, <2>1, <2>2, AskedStays, Zenon DEF FlightInv
  <2>4. req'.pc = "evaluate" => req'.pos <= Len(req'.route) /\ \A h \in Here' : Evaluating(h)'
    BY <1>1, <2>1, <2>2, EvaluatingStays, Zenon DEF FlightInv
  <2> QED
    BY <2>1, <2>3, <2>4, Zenon DEF FlightInv
<1> QED
  BY <1>2, <1>3, Zenon DEF RouteInv

\* Permissions that change while a request runs are recorded.
LEMMA PermissionsPolicy ==
  ASSUME PolicyInv, NEW s \in Subjects,
         RevokeAll(s) \/ \E rule \in Granted : GrantPermission(s, rule)
  PROVE  PolicyInv'
<1>1. /\ bundles' \in [Subjects -> SUBSET Granted]
      /\ UNCHANGED <<options, engine, mw, cached>> /\ req' = Seen(bundles')
  BY DEF PolicyInv, EngineInv, RevokeAll, GrantPermission
<1>2. EngineInv'
  BY <1>1, EngineStays, Zenon DEF PolicyInv, EngineInv
<1>3. CASE ~(InFlight /\ req.user # Anonymous)
  <2>1. UNCHANGED req
    BY <1>1, <1>3, Zenon DEF Seen
  <2>2. InFlight => Recorded'
    BY <1>3, <2>1, Zenon DEF Recorded
  <2> QED
    BY <1>1, <1>2, <2>1, <2>2, RequestStays, Zenon DEF PolicyInv
<1>4. CASE InFlight /\ req.user # Anonymous
  <2>1. /\ FlightInv
        /\ DOMAIN req = {"pc", "route", "user", "pos", "todo", "ctx", "repoFailed", "seen"}
        /\ mw.set
    BY <1>4, Zenon DEF PolicyInv, RouteInv, InFlight
  <2>2. /\ req'.pc = req.pc /\ req'.route = req.route /\ req'.user = req.user
        /\ req'.pos = req.pos /\ req'.todo = req.todo /\ req'.ctx = req.ctx
        /\ DOMAIN req' = DOMAIN req
        /\ req'.seen = req.seen \cup {bundles'[req.user.subject]}
    BY <1>1, <1>4, <2>1, Zenon DEF Seen
  <2>3. SameRequest
    BY <1>1, <2>2, Zenon DEF SameRequest
  <2>4. Recorded'
    BY <1>1, <2>1, <2>2, Zenon DEF Recorded, FlightInv
  <2>5. Behind' = Behind /\ Here' = Here
    BY <2>2, Zenon DEF Behind, Here
  <2>6. \A h \in Behind' : Passed(h)'
    BY <2>1, <2>3, <2>5, AskedStays, Zenon DEF FlightInv
  <2>7. req'.pc = "evaluate" => req'.pos <= Len(req'.route) /\ \A h \in Here' : Evaluating(h)'
    BY <2>1, <2>2, <2>3, <2>5, EvaluatingStays, Zenon DEF FlightInv
  <2>8. FlightInv'
    BY <2>1, <2>2, <2>4, <2>6, <2>7, Zenon DEF FlightInv
  <2>9. AllowedHeld' /\ RefusedForReason'
    BY <1>4, <2>2, Zenon DEF InFlight, AllowedHeld, RefusedForReason
  <2> QED
    BY <1>1, <1>2, <2>1, <2>2, <2>8, <2>9, Zenon DEF PolicyInv, RouteInv
<1> QED
  BY <1>3, <1>4, Zenon

\* A cached bundle that goes was recorded, and the request reads the present one next.
LEMMA ExpirePolicy ==
  ASSUME PolicyInv, NEW s \in Subjects, CacheExpire(s) PROVE PolicyInv'
<1>1. DOMAIN cached = Subjects /\ bundles \in [Subjects -> SUBSET Granted]
  BY Zenon DEF PolicyInv, EngineInv
<1>2. EngineInv'
  BY <1>1, EngineStays, Zenon DEF PolicyInv, CacheExpire
<1>3. InFlight => Recorded'
  <2> SUFFICES ASSUME InFlight, req.user # Anonymous PROVE Recorded'
    BY Zenon DEF Recorded, CacheExpire
  <2>1. req.user.subject \in Subjects /\ Recorded
    BY AuthorizationAssumption, Zenon DEF PolicyInv, RouteInv, FlightInv
  <2> QED
    BY <1>1, <2>1, Zenon DEF Recorded, CacheExpire
<1> QED
  BY <1>2, <1>3, RequestStays, Zenon DEF PolicyInv, CacheExpire

\* A request that arrives passed nothing yet; what its user has, or had, is recorded.
LEMMA ArrivePolicy ==
  ASSUME PolicyInv, NEW route \in Routes, NEW u \in Users \cup {Anonymous}, Arrive(route, u)
  PROVE  PolicyInv'
<1>1. EngineInv'
  BY EngineStays, Zenon DEF PolicyInv, EngineInv, Arrive
<1>2. /\ req'.pc = "handler" /\ req'.route = route /\ req'.user = u /\ req'.pos = 1
      /\ DOMAIN req' = {"pc", "route", "user", "pos", "todo", "ctx", "repoFailed", "seen"}
      /\ req'.seen = IF u = Anonymous THEN {}
                     ELSE {bundles[u.subject], cached[u.subject]} \ {NoBundle}
      /\ UNCHANGED <<bundles, cached, mw>> /\ mw.set
  BY Zenon DEF Arrive
<1>3. Recorded'
  <2> SUFFICES ASSUME u # Anonymous
               PROVE  /\ bundles[u.subject] \in req'.seen
                      /\ cached[u.subject] # NoBundle => cached[u.subject] \in req'.seen
    BY <1>2, Zenon DEF Recorded
  <2>1. bundles[u.subject] # NoBundle
    BY AuthorizationAssumption, Zenon DEF PolicyInv, EngineInv
  <2> QED
    BY <1>2, <2>1, Zenon
<1>4. Behind' = {}
  BY <1>2 DEF Behind
<1>5. FlightInv'
  <2>1. Len(route) \in Nat
    BY AuthorizationAssumption
  <2> QED
    BY <1>2, <1>3, <1>4, <2>1 DEF FlightInv
<1> QED
  BY <1>1, <1>2, <1>5, Zenon DEF PolicyInv, RouteInv, AllowedHeld, RefusedForReason
\* A reason for handler h to refuse the request.
Reason(h) ==
    \/ ~Registered({h})
    \/ h.kind = "AuthorizeResource" /\ (~ServiceStored \/ req.user = Anonymous)
    \/ \E a \in AskedBy(h) : \E m \in Range(a.policy) :
           \/ RequirementType(m) \notin DOMAIN engine.handlers
           \/ \E b \in req.seen : ~Meets(req.user, m, a.ctx, b)

\* An answer ends the request; a refusal needs its reason.
LEMMA AnswerPolicy ==
  ASSUME PolicyInv, InFlight, UNCHANGED <<options, engine, mw, bundles>>,
         DOMAIN cached' = Subjects,
         NEW code \in {"401", "panic", "403"}, Answer(code),
         code = "403" => \A h \in Here : Reason(h)
  PROVE  PolicyInv'
<1>1. EngineInv'
  BY EngineStays, Zenon DEF PolicyInv, EngineInv
<1>2. DOMAIN req = {"pc", "route", "user", "pos", "todo", "ctx", "repoFailed", "seen"} /\ mw.set
  BY Zenon DEF PolicyInv, RouteInv, InFlight
<1>3. /\ req'.pc = code /\ req'.route = req.route /\ req'.user = req.user
      /\ req'.pos = req.pos /\ req'.seen = req.seen /\ DOMAIN req' = DOMAIN req
  BY <1>2, Zenon DEF Answer
<1>4. SameRequest
  BY <1>3, Zenon DEF SameRequest
<1>5. RefusedForReason'
  <2> SUFFICES ASSUME code = "403" PROVE RefusedForReason'
    BY <1>3, Zenon DEF RefusedForReason
  <2> DEFINE hh == req.route[req.pos]
  <2>1. Reason(hh)
    BY Zenon DEF Here
  <2>2. AskedBy(hh)' = AskedBy(hh) /\ (Registered({hh})' <=> Registered({hh}))
    BY <1>3, <1>4, Zenon DEF AskedBy, Registered, Explicit, SameRequest
  <2>3. ServiceStored' <=> ServiceStored
    BY <1>3, Zenon DEF ServiceStored
  <2> QED
    BY <1>3, <2>1, <2>2, <2>3, Zenon DEF RefusedForReason, Reason
<1> QED
  BY <1>1, <1>2, <1>3, <1>5, Zenon DEF PolicyInv, RouteInv, InFlight, AllowedHeld

\* A request goes on to the next handler when this one let it pass.
LEMMA AdvancePolicy ==
  ASSUME PolicyInv, InFlight, UNCHANGED <<options, engine, mw, bundles, cached>>,
         req.pos <= Len(req.route), \A h \in Here : Passed(h), Advance
  PROVE  PolicyInv'
<1>1. EngineInv'
  BY EngineStays, Zenon DEF PolicyInv, EngineInv
<1>2. /\ DOMAIN req = {"pc", "route", "user", "pos", "todo", "ctx", "repoFailed", "seen"}
      /\ mw.set /\ FlightInv
  BY Zenon DEF PolicyInv, RouteInv, InFlight
<1>3. /\ req'.pc = "handler" /\ req'.route = req.route /\ req'.user = req.user
      /\ req'.pos = req.pos + 1 /\ req'.seen = req.seen /\ DOMAIN req' = DOMAIN req
  BY <1>2, Zenon DEF Advance
<1>4. SameRequest
  BY <1>3, Zenon DEF SameRequest
<1>5. req.pos \in Nat /\ Len(req.route) \in Nat
  BY <1>2, AuthorizationAssumption DEF FlightInv
<1>6. Behind' = Behind \cup Here
  <2>1. 1..(req'.pos - 1) = 1..(req.pos - 1) \cup {req.pos}
    BY <1>2, <1>3, <1>5 DEF FlightInv
  <2> QED
    BY <1>3, <2>1, Zenon DEF Behind, Here
<1>7. \A h \in Behind' : Passed(h)'
  BY <1>2, <1>4, <1>6, AskedStays, Zenon DEF FlightInv
<1>8. Recorded'
  BY <1>2, <1>3, Zenon DEF FlightInv, Recorded
<1>9. FlightInv'
  BY <1>2, <1>3, <1>5, <1>7, <1>8 DEF FlightInv
<1> QED
  BY <1>1, <1>2, <1>3, <1>9, Zenon DEF PolicyInv, RouteInv, AllowedHeld, RefusedForReason

\* The evaluation of a policy begins with nothing met, at the handler that asks for it.
LEMMA BeginPolicyStep ==
  ASSUME PolicyInv, InFlight, UNCHANGED <<options, engine, mw, bundles, cached>>,
         req.pos <= Len(req.route), NEW p, IsPolicy(p), NEW ctx,
         \A h \in Here : AskedBy(h) = {[policy |-> p, ctx |-> ctx]} /\ Registered({h}),
         BeginPolicy(p, ctx)
  PROVE  PolicyInv'
<1>1. CASE req.user = Anonymous
  BY <1>1, AnswerPolicy, Zenon DEF BeginPolicy, PolicyInv, EngineInv
<1>2. CASE req.user # Anonymous
  <2>1. EngineInv'
    BY EngineStays, Zenon DEF PolicyInv, EngineInv
  <2>2. /\ DOMAIN req = {"pc", "route", "user", "pos", "todo", "ctx", "repoFailed", "seen"}
        /\ mw.set /\ FlightInv
    BY Zenon DEF PolicyInv, RouteInv, InFlight
  <2>3. /\ req'.pc = "evaluate" /\ req'.route = req.route /\ req'.user = req.user
        /\ req'.pos = req.pos /\ req'.seen = req.seen /\ DOMAIN req' = DOMAIN req
        /\ req'.todo = p /\ req'.ctx = ctx
    BY <1>2, <2>2, Zenon DEF BeginPolicy
  <2>4. SameRequest
    BY <2>3, Zenon DEF SameRequest
  <2>5. Behind' = Behind /\ Here' = Here
    BY <2>3, Zenon DEF Behind, Here
  <2>6. \A h \in Behind' : Passed(h)'
    BY <2>2, <2>4, <2>5, AskedStays, Zenon DEF FlightInv
  <2>7. ASSUME NEW h \in Here' PROVE Evaluating(h)'
    <3>1. AskedBy(h)' = {[policy |-> p, ctx |-> ctx]} /\ Registered({h})'
      BY <2>4, <2>5, <2>7, AskedStays, Zenon
    <3> QED
      BY <1>2, <2>3, <3>1 DEF Evaluating
  <2>8. Recorded'
    BY <2>2, <2>3, Zenon DEF FlightInv, Recorded
  <2>9. FlightInv'
    BY <2>2, <2>3, <2>6, <2>7, <2>8, Zenon DEF FlightInv
  <2> QED
    BY <2>1, <2>2, <2>3, <2>9, Zenon DEF PolicyInv, RouteInv, AllowedHeld, RefusedForReason
<1> QED
  BY <1>1, <1>2, Zenon
\* A handler runs for a request that is in flight.
LEMMA RunningFacts ==
  ASSUME PolicyInv, NEW kinds, Running(kinds)
  PROVE  /\ InFlight /\ UNCHANGED <<options, engine, mw, bundles, cached>>
         /\ req.pos <= Len(req.route) /\ DOMAIN cached' = Subjects
         /\ \A h \in Here : h.kind \in kinds /\ h = req.route[req.pos]
BY Zenon DEF PolicyInv, EngineInv, Running, InFlight, Here

\* The middleware evaluates its fallback policy unless the route is explicit.
LEMMA UseAuthorizationPolicy ==
  ASSUME PolicyInv, UseAuthorization PROVE PolicyInv'
<1>0. /\ InFlight /\ UNCHANGED <<options, engine, mw, bundles, cached>>
      /\ req.pos <= Len(req.route) /\ DOMAIN cached' = Subjects
      /\ \A h \in Here : h.kind = "UseAuthorization"
  BY RunningFacts, Zenon DEF UseAuthorization
<1>1. \A h \in Here : Registered({h})
  BY <1>0, Zenon DEF Registered
<1>2. CASE mw.fallback # NoOption /\ ~Explicit(req.route)
  <2>1. PICK p \in mw.fallback : BeginPolicy(p, Context(NoContext.method, NoResource))
    BY <1>2, Zenon DEF UseAuthorization
  <2>2. mw.fallback = {p} /\ IsPolicy(p)
    <3>1. mw.fallback \in OptionalFallback
      BY Zenon DEF PolicyInv, EngineInv
    <3>2. mw.fallback = {p} /\ p \in Fallbacks
      BY <2>1, <3>1, Zenon DEF OptionalFallback, NoOption
    <3> QED
      BY <3>2, AuthorizationAssumption, Zenon
  <2> DEFINE ctx == Context(NoContext.method, NoResource)
  <2>3. \A h \in Here : AskedBy(h) = {[policy |-> p, ctx |-> ctx]}
    <3> HIDE DEF ctx
    <3>1. ASSUME NEW h \in Here
          PROVE  AskedBy(h) = {[policy |-> q1, ctx |-> Context(NoContext.method, NoResource)] :
                                 q1 \in mw.fallback}
      BY <1>0, <1>2, <3>1, Zenon DEF AskedBy
    <3> QED
      BY <2>2, <3>1, Zenon DEF ctx
  <2> HIDE DEF ctx
  <2>4. BeginPolicy(p, ctx)
    BY <2>1, Zenon DEF ctx
  <2> QED
    BY <1>0, <1>1, <2>2, <2>3, <2>4, BeginPolicyStep, Zenon
<1>3. CASE ~(mw.fallback # NoOption /\ ~Explicit(req.route))
  <2>1. Advance
    BY <1>3, Zenon DEF UseAuthorization
  <2>2. ASSUME NEW h \in Here PROVE AskedBy(h) = {}
    <3>1. CASE mw.fallback = NoOption
      BY <1>0, <2>2, <3>1, Zenon DEF AskedBy, NoOption
    <3>2. CASE Explicit(req.route)
      BY <1>0, <2>2, <3>2, Zenon DEF AskedBy
    <3> QED
      BY <1>3, <3>1, <3>2, Zenon
  <2> QED
    BY <1>0, <1>1, <2>1, <2>2, AdvancePolicy, Zenon DEF Passed
<1> QED
  BY <1>2, <1>3, Zenon

\* Handlers that only pass on ask for nothing.
LEMMA PassOnPolicy ==
  ASSUME PolicyInv, PassOn PROVE PolicyInv'
<1>1. /\ InFlight /\ UNCHANGED <<options, engine, mw, bundles, cached>>
      /\ req.pos <= Len(req.route)
      /\ \A h \in Here : h.kind \in {"AllowAnonymous", "application"}
  BY RunningFacts, Zenon DEF PassOn
<1>2. \A h \in Here : AskedBy(h) = {} /\ Registered({h})
  BY <1>1, Zenon DEF AskedBy, Registered
<1> QED
  BY <1>1, <1>2, AdvancePolicy, Zenon DEF Passed, PassOn

\* A named policy is evaluated when it is registered, and refused when it is not.
LEMMA BeginNamedPolicy ==
  ASSUME PolicyInv, InFlight, UNCHANGED <<options, engine, mw, bundles, cached>>,
         req.pos <= Len(req.route), NEW h, h = req.route[req.pos],
         h.kind \in {"Authorize", "RequirePolicy", "AuthorizeResource"},
         BeginNamed(h.policy, Context(NoContext.method, h.resource))
  PROVE  PolicyInv'
<1> DEFINE n == h.policy
           ctx == Context(NoContext.method, h.resource)
<1>0. Here = {h} /\ DOMAIN cached' = Subjects
  BY Zenon DEF Here, PolicyInv, EngineInv
<1>1. CASE n \in DOMAIN engine.policies
  <2> DEFINE p == engine.policies[n]
  <2>1. IsPolicy(p) /\ Registered({h})
    BY <1>1, Zenon DEF PolicyInv, EngineInv, Registered
  <2>2. AskedBy(h) = {[policy |-> p, ctx |-> ctx]}
    <3>1. AskedBy(h) = {[policy |-> engine.policies[j],
                         ctx |-> Context(NoContext.method, h.resource)] :
                          j \in {h.policy} \cap DOMAIN engine.policies}
      BY Zenon DEF AskedBy
    <3>2. {h.policy} \cap DOMAIN engine.policies = {n}
      BY <1>1, Zenon
    <3> QED
      BY <3>1, <3>2, Zenon
  <2>3. BeginPolicy(p, ctx)
    BY <1>1, Zenon DEF BeginNamed
  <2> HIDE DEF p, ctx
  <2> QED
    BY <1>0, <2>1, <2>2, <2>3, BeginPolicyStep, Zenon
<1>2. CASE n \notin DOMAIN engine.policies
  <2>1. CASE req.user = Anonymous
    BY <1>0, <1>2, <2>1, AnswerPolicy, Zenon DEF BeginNamed, BeginPolicy
  <2>2. CASE req.user # Anonymous
    <3>1. Answer("403")
      BY <1>2, <2>2, Zenon DEF BeginNamed
    <3>2. Reason(h)
      BY <1>2, Zenon DEF Reason, Registered
    <3> QED
      BY <1>0, <3>1, <3>2, AnswerPolicy, Zenon
  <2> QED
    BY <2>1, <2>2, Zenon
<1> QED
  BY <1>1, <1>2, Zenon

\* Authorize and RequirePolicy ask for a policy by its name, or panic without a service.
LEMMA AuthorizePolicy ==
  ASSUME PolicyInv, Authorize PROVE PolicyInv'
<1> DEFINE hh == req.route[req.pos]
<1>1. /\ InFlight /\ UNCHANGED <<options, engine, mw, bundles, cached>>
      /\ req.pos <= Len(req.route) /\ DOMAIN cached' = Subjects
      /\ hh.kind \in {"Authorize", "RequirePolicy"}
  BY RunningFacts, Zenon DEF Authorize, Here
<1>2. \/ Answer("panic")
      \/ BeginNamed(hh.policy, Context(NoContext.method, hh.resource))
  BY Zenon DEF Authorize
<1>3. PICK h : h = hh
  BY Zenon
<1>4. CASE Answer("panic")
  BY <1>1, <1>4, AnswerPolicy, Zenon
<1>5. CASE BeginNamed(h.policy, Context(NoContext.method, h.resource))
  BY <1>1, <1>3, <1>5, BeginNamedPolicy, Zenon
<1> QED
  BY <1>2, <1>3, <1>4, <1>5, Zenon

\* An endpoint that asks refuses without a service or a user.
LEMMA AuthorizeResourcePolicy ==
  ASSUME PolicyInv, AuthorizeResource PROVE PolicyInv'
<1> DEFINE hh == req.route[req.pos]
<1>1. /\ InFlight /\ UNCHANGED <<options, engine, mw, bundles, cached>>
      /\ req.pos <= Len(req.route) /\ DOMAIN cached' = Subjects
      /\ hh.kind = "AuthorizeResource" /\ Here = {hh}
  BY RunningFacts DEF AuthorizeResource, Here
<1>2. PICK h : h = hh
  BY Zenon
<1>3. CASE ~ServiceStored \/ req.user = Anonymous
  <2>1. Answer("403")
    BY <1>3, Zenon DEF AuthorizeResource
  <2>2. \A j \in Here : Reason(j)
    BY <1>1, <1>3, Zenon DEF Reason
  <2> QED
    BY <1>1, <2>1, <2>2, AnswerPolicy, Zenon
<1>4. CASE ~(~ServiceStored \/ req.user = Anonymous)
  <2>1. BeginNamed(h.policy, Context(NoContext.method, h.resource))
    BY <1>2, <1>4, Zenon DEF AuthorizeResource
  <2> QED
    BY <1>1, <1>2, <2>1, BeginNamedPolicy, Zenon
<1> QED
  BY <1>3, <1>4, Zenon
\* A policy of one PARC requirement is evaluated for RequirePARC.
LEMMA RequirePARCPolicy ==
  ASSUME PolicyInv, RequirePARCHandler PROVE PolicyInv'
<1> DEFINE hh == req.route[req.pos]
           m == RequirePARC(hh.action, hh.type)
           res == IF hh.resource # NoResource THEN hh.resource
                  ELSE [NoResource EXCEPT !.type = hh.type, !.id = Star]
           ctx == Context(hh.action, res)
<1>1. /\ InFlight /\ UNCHANGED <<options, engine, mw, bundles, cached>>
      /\ req.pos <= Len(req.route) /\ hh.kind = "RequirePARC" /\ Here = {hh}
  BY RunningFacts DEF RequirePARCHandler, Here
<1>2. IsPolicy(<<m>>)
  <2>1. WellFormed(m)
    BY Zenon DEF WellFormed, RequirePARC, BuiltIn
  <2> HIDE DEF m
  <2>2. Range(<<m>>) = {m} /\ <<m>> \in Seq({m})
    BY DEF Range
  <2> QED
    BY <2>1, <2>2, Zenon DEF IsPolicy
<1>3. AskedBy(hh) = {[policy |-> <<m>>, ctx |-> ctx]} /\ Registered({hh})
  BY <1>1, Zenon DEF AskedBy, Registered
<1>4. BeginPolicy(<<m>>, ctx)
  BY Zenon DEF RequirePARCHandler
<1> DEFINE p == <<m>>
<1>5. PICK pp, cc : pp = p /\ cc = ctx
  BY Zenon
<1> HIDE DEF p, ctx
<1>6. BeginPolicy(pp, cc) /\ IsPolicy(pp)
  BY <1>2, <1>4, <1>5, Zenon DEF p
<1>7. \A h \in Here : AskedBy(h) = {[policy |-> pp, ctx |-> cc]} /\ Registered({h})
  BY <1>1, <1>3, <1>5, Zenon DEF p
<1> QED
  BY <1>1, <1>6, <1>7, BeginPolicyStep, Zenon

\* The first requirement of a policy that is left, and the rest.
LEMMA PolicyHead ==
  ASSUME NEW p, IsPolicy(p), p # << >>
  PROVE  /\ WellFormed(Head(p)) /\ IsPolicy(Tail(p))
         /\ Range(p) = {Head(p)} \cup Range(Tail(p))
<1>1. p \in Seq(Range(p)) /\ Len(p) \in Nat \ {0}
  BY DEF IsPolicy
<1>2. /\ Tail(p) \in Seq(Range(p)) /\ Len(Tail(p)) = Len(p) - 1
      /\ \A k \in 1..Len(Tail(p)) : Tail(p)[k] = p[k + 1]
      /\ Head(p) = p[1] /\ DOMAIN p = 1..Len(p) /\ DOMAIN Tail(p) = 1..(Len(p) - 1)
  BY <1>1
<1>3. Range(p) = {Head(p)} \cup Range(Tail(p))
  <2>1. ASSUME NEW m \in Range(p) PROVE m = Head(p) \/ m \in Range(Tail(p))
    <3>1. PICK k \in 1..Len(p) : m = p[k]
      BY <1>2, <2>1, Zenon DEF Range
    <3>2. CASE k = 1
      BY <1>2, <3>1, <3>2, Zenon
    <3>3. CASE k # 1
      <4>1. k - 1 \in 1..(Len(p) - 1) /\ Tail(p)[k - 1] = m
        BY <1>1, <1>2, <3>1, <3>3
      <4> QED
        BY <1>2, <4>1, Zenon DEF Range
    <3> QED
      BY <3>2, <3>3, Zenon
  <2>2. Head(p) \in Range(p)
    BY <1>1, <1>2 DEF Range
  <2>3. ASSUME NEW m \in Range(Tail(p)) PROVE m \in Range(p)
    BY <1>1, <1>2, <2>3 DEF Range
  <2> QED
    BY <2>1, <2>2, <2>3, Zenon
<1>4. Tail(p) \in Seq(Range(Tail(p)))
  <2> DEFINE s == Tail(p)
  <2>1. s \in Seq(Range(p)) /\ \A k \in 1..Len(s) : s[k] \in Range(s)
    BY <1>1, <1>2, Zenon DEF Range
  <2> HIDE DEF s
  <2>2. s \in Seq(Range(s))
    BY ONLY <2>1
  <2> QED
    BY <2>2, Zenon DEF s
<1> QED
  BY <1>3, <1>4, Zenon DEF IsPolicy

\* The handler of a well-formed requirement is one of the handlers there are.
LEMMA HandlerThere ==
  ASSUME NEW m, WellFormed(m), NEW h, HandlerFor(RequirementType(m), h) PROVE h # "none"
<1>1. DOMAIN AppHandlers \cap BuiltIn = {}
  BY AuthorizationAssumption, Zenon
<1>2. CASE h \in {"scope", "role", "user", "m2m", "custom", "parc"}
  BY <1>2, Zenon
<1>3. CASE RequirementType(m) \in DOMAIN AppHandlers /\ h = AppHandlers[RequirementType(m)]
  <2>1. CASE m.go = "CustomRequirement" /\ m.name # Empty
    BY <1>3, <2>1, Zenon DEF RequirementType, WellFormed
  <2>2. CASE ~(m.go = "CustomRequirement" /\ m.name # Empty)
    <3>1. RequirementType(m) = m.go
      BY <2>2, Zenon DEF RequirementType
    <3> QED
      BY <1>1, <1>3, <3>1, Zenon DEF WellFormed
  <2> QED
    BY <2>1, <2>2, Zenon
<1> QED
  BY <1>2, <1>3, Zenon DEF HandlerFor
\* One turn of the loop: a requirement that its handler allows is met by a bundle that the
\* request saw, and one that it refuses is not met by one.
LEMMA EvaluatePolicy ==
  ASSUME PolicyInv, NEW ok \in BOOLEAN, EvaluateRequirement(ok) PROVE PolicyInv'
<1> DEFINE m == Head(req.todo)
           t == RequirementType(m)
           s == req.user.subject
           h == IF t \in DOMAIN engine.handlers THEN engine.handlers[t] ELSE "none"
           fetch == h = "parc" /\ m.go = "PARCRequirement" /\ cached[s] = NoBundle
           b == IF cached[s] # NoBundle THEN cached[s] ELSE bundles[s]
<1>1. /\ req.pc = "evaluate" /\ req.todo # << >> /\ InFlight
      /\ UNCHANGED <<options, engine, mw, bundles>>
      /\ ok \/ fetch
      /\ cached' = IF fetch /\ ok THEN [cached EXCEPT ![s] = b] ELSE cached
  BY Zenon DEF EvaluateRequirement, InFlight
<1>2. /\ DOMAIN req = {"pc", "route", "user", "pos", "todo", "ctx", "repoFailed", "seen"}
      /\ mw.set /\ FlightInv /\ DOMAIN cached = Subjects
  BY <1>1, Zenon DEF PolicyInv, EngineInv, RouteInv, InFlight
<1>3. req.pos <= Len(req.route) /\ Evaluating(req.route[req.pos])
  BY <1>1, <1>2, Zenon DEF FlightInv, Here
<1>4. req.user \in Users /\ s \in Subjects
  BY <1>2, <1>3, AuthorizationAssumption, Zenon DEF FlightInv, Evaluating
<1>5. WellFormed(m) /\ IsPolicy(Tail(req.todo)) /\ Range(req.todo) = {m} \cup Range(Tail(req.todo))
  BY <1>1, <1>3, PolicyHead, Zenon DEF Evaluating
<1>6. b \in req.seen /\ DOMAIN cached' = Subjects
  <2>1. b \in req.seen
    BY <1>2, <1>3, Zenon DEF FlightInv, Recorded, Evaluating
  <2>2. DOMAIN cached' = Subjects
    BY <1>1, <1>2, Zenon
  <2> QED
    BY <2>1, <2>2, Zenon
<1>7. EngineInv'
  BY <1>1, <1>6, EngineStays, Zenon DEF PolicyInv, EngineInv
<1>8. PICK a \in AskedBy(req.route[req.pos]) : a.ctx = req.ctx /\ Range(req.todo) \subseteq Range(a.policy)
  BY <1>3, Zenon DEF Evaluating
<1>9. m \in Range(a.policy)
  BY <1>5, <1>8, Zenon
<1>10. t \in DOMAIN engine.handlers => HandlerFor(t, h)
  BY Zenon DEF PolicyInv, EngineInv
<1>11. t \in DOMAIN engine.handlers =>
         h # "none" /\ (Handle(h, req.user, m, req.ctx, b) <=> Meets(req.user, m, req.ctx, b))
  <2> SUFFICES ASSUME t \in DOMAIN engine.handlers
               PROVE  h # "none" /\ (Handle(h, req.user, m, req.ctx, b) <=> Meets(req.user, m, req.ctx, b))
    BY Zenon
  <2> HIDE DEF h, m, b
  <2>1. HandlerFor(RequirementType(m), h)
    BY <1>10, Zenon
  <2> QED
    BY <1>4, <1>5, <2>1, HandlerThere, HandleMeets, Zenon
<1>12. CASE ~ok
  <2>1. req' = [req EXCEPT !.pc = "403", !.repoFailed = TRUE]
    BY <1>12, Zenon DEF EvaluateRequirement
  <2>2. req'.pc = "403" /\ req'.repoFailed /\ DOMAIN req' = DOMAIN req
    BY <1>2, <2>1, Zenon
  <2> QED
    BY <1>1, <1>2, <1>7, <2>2, Zenon DEF PolicyInv, RouteInv, InFlight, AllowedHeld, RefusedForReason
<1>13. CASE ok /\ ~(h # "none" /\ Handle(h, req.user, m, req.ctx, b))
  <2>1. Answer("403")
    BY <1>13, Zenon DEF EvaluateRequirement
  <2>2. t \notin DOMAIN engine.handlers \/ ~Meets(req.user, m, a.ctx, b)
    BY <1>8, <1>11, <1>13, Zenon
  <2> HIDE DEF m, b
  <2>3. Reason(req.route[req.pos])
    BY <1>6, <1>8, <1>9, <2>2, Zenon DEF Reason
  <2>4. \A j \in Here : Reason(j)
    BY <2>3, Zenon DEF Here
  <2> QED
    BY <1>1, <1>6, <2>1, <2>4, AnswerPolicy, Zenon
<1>14. CASE ok /\ h # "none" /\ Handle(h, req.user, m, req.ctx, b)
  <2>1. req' = [req EXCEPT !.todo = Tail(@)]
    BY <1>14, Zenon DEF EvaluateRequirement
  <2>2. /\ req'.pc = "evaluate" /\ req'.route = req.route /\ req'.user = req.user
        /\ req'.pos = req.pos /\ req'.seen = req.seen /\ req'.ctx = req.ctx
        /\ req'.todo = Tail(req.todo) /\ DOMAIN req' = DOMAIN req
    BY <1>1, <1>2, <2>1, Zenon
  <2>3. SameRequest
    BY <1>1, <2>2, Zenon DEF SameRequest
  <2>4. Behind' = Behind /\ Here' = Here
    BY <2>2, Zenon DEF Behind, Here
  <2>5. Met(m, req.ctx)
    <3>1. t \in DOMAIN engine.handlers
      BY <1>14, Zenon
    <3> HIDE DEF m, b
    <3> QED
      BY <1>6, <1>11, <1>14, <3>1, Zenon DEF Met
  <2>6. ASSUME NEW j \in Here' PROVE Evaluating(j)'
    <3>1. Evaluating(j) /\ j = req.route[req.pos]
      BY <1>3, <2>4, <2>6, Zenon DEF Here
    <3>2. /\ AskedBy(j)' = AskedBy(j) /\ (Registered({j})' <=> Registered({j}))
          /\ \A m1, ctx : Met(m1, ctx) => Met(m1, ctx)'
      BY <2>3, AskedStays, Zenon
    <3> HIDE DEF m
    <3>3. ASSUME NEW a1 \in AskedBy(j)'
          PROVE  /\ a1.ctx = req'.ctx
                 /\ \A m1 \in Range(a1.policy) : m1 \in Range(req'.todo) \/ Met(m1, a1.ctx)'
      <4>1. a1 \in AskedBy(j) /\ a1.ctx = req.ctx
        BY <3>1, <3>2, <3>3, Zenon DEF Evaluating
      <4>2. ASSUME NEW m1 \in Range(a1.policy)
            PROVE  m1 \in Range(req'.todo) \/ Met(m1, a1.ctx)'
        <5>1. m1 \in Range(req.todo) \/ Met(m1, a1.ctx)
          BY <3>1, <4>1, <4>2, Zenon DEF Evaluating
        <5>2. m1 = m \/ m1 \in Range(req'.todo) \/ Met(m1, a1.ctx)
          BY <1>5, <2>2, <5>1, Zenon
        <5> QED
          BY <2>5, <3>2, <4>1, <5>2, Zenon
      <4> QED
        BY <2>2, <4>1, <4>2, Zenon
    <3>4. \E a1 \in AskedBy(j)' : a1.ctx = req'.ctx /\ Range(req'.todo) \subseteq Range(a1.policy)
      BY <1>5, <1>8, <2>2, <3>1, <3>2, Zenon
    <3> QED
      BY <1>5, <2>2, <3>1, <3>2, <3>3, <3>4, Zenon DEF Evaluating
  <2>7. \A j \in Behind' : Passed(j)'
    BY <1>2, <2>3, <2>4, AskedStays, Zenon DEF FlightInv
  <2>8. Recorded'
    <3>1. Recorded
      BY <1>2, Zenon DEF FlightInv
    <3>2. cached'[s] \in {cached[s], b}
      BY <1>1, <1>2, <1>4, Zenon
    <3> QED
      BY <1>1, <1>6, <2>2, <3>1, <3>2, Zenon DEF Recorded
  <2>9. FlightInv'
    BY <1>2, <1>3, <2>2, <2>6, <2>7, <2>8, Zenon DEF FlightInv
  <2> QED
    BY <1>1, <1>2, <1>7, <2>2, <2>9, Zenon DEF PolicyInv, RouteInv, AllowedHeld, RefusedForReason
<1> QED
  BY <1>12, <1>13, <1>14, Zenon
\* With no requirement left, all of them are met.
LEMMA HoldsPolicy ==
  ASSUME PolicyInv, PolicyHolds PROVE PolicyInv'
<1>1. /\ InFlight /\ UNCHANGED <<options, engine, mw, bundles, cached>>
      /\ req.pc = "evaluate" /\ req.todo = << >> /\ Advance
  BY Zenon DEF PolicyHolds, InFlight
<1>2. req.pos <= Len(req.route) /\ \A h \in Here : Evaluating(h)
  BY <1>1, Zenon DEF PolicyInv, RouteInv, FlightInv
<1>3. Range(req.todo) = {}
  BY <1>1 DEF Range
<1>4. \A h \in Here : Passed(h)
  BY <1>2, <1>3, Zenon DEF Evaluating, Passed
<1> QED
  BY <1>1, <1>2, <1>4, AdvancePolicy, Zenon

\* A request that is served passed every handler of its route.
LEMMA ServePolicy ==
  ASSUME PolicyInv, Serve PROVE PolicyInv'
<1>1. /\ InFlight /\ UNCHANGED <<options, engine, mw, bundles, cached>>
      /\ req.pos > Len(req.route) /\ Answer("served")
  BY Zenon DEF Serve, InFlight
<1>2. /\ DOMAIN req = {"pc", "route", "user", "pos", "todo", "ctx", "repoFailed", "seen"}
      /\ mw.set /\ FlightInv
  BY <1>1, Zenon DEF PolicyInv, RouteInv, InFlight
<1>3. /\ req'.pc = "served" /\ req'.route = req.route /\ req'.user = req.user
      /\ req'.seen = req.seen /\ DOMAIN req' = DOMAIN req
  BY <1>1, <1>2, Zenon DEF Answer
<1>4. EngineInv'
  BY <1>1, EngineStays, Zenon DEF PolicyInv, EngineInv
<1>5. SameRequest
  BY <1>1, <1>3, Zenon DEF SameRequest
<1>6. Range(req.route) = Behind
  <2>1. DOMAIN req.route = 1..Len(req.route) /\ Len(req.route) \in Nat
    BY <1>2, AuthorizationAssumption DEF FlightInv
  <2>2. 1..(req.pos - 1) = 1..Len(req.route)
    BY <1>1, <1>2, <2>1 DEF FlightInv
  <2> QED
    BY <2>1, <2>2, Zenon DEF Range, Behind
<1>7. ASSUME NEW h \in Range(req'.route) PROVE Passed(h)'
  BY <1>2, <1>3, <1>5, <1>6, <1>7, AskedStays, Zenon DEF FlightInv
<1>8. AllowedHeld'
  <2>1. Registered(Range(req.route))'
    BY <1>7, Zenon DEF Passed, Registered
  <2>2. ASSUME NEW h \in Range(req'.route), NEW a \in AskedBy(h)'
        PROVE  /\ req'.user # Anonymous
               /\ \A m \in Range(a.policy) : \E b \in req'.seen : Meets(req'.user, m, a.ctx, b)
    <3>1. Passed(h)'
      BY <1>7, <2>2, Zenon
    <3> QED
      BY <2>2, <3>1, Zenon DEF Passed, Met
  <2> QED
    BY <2>1, <2>2, Zenon DEF AllowedHeld
<1> QED
  BY <1>1, <1>2, <1>3, <1>4, <1>8, Zenon DEF PolicyInv, RouteInv, InFlight, RefusedForReason

\* The invariant holds in every state: of the engine's configuration, of the requests that
\* run, and of the answers they get.
LEMMA PolicyInvariant == Spec => []PolicyInv
<1>1. PolicyInv /\ [Next]_vars => PolicyInv'
  <2> SUFFICES ASSUME PolicyInv, [Next]_vars PROVE PolicyInv'
    BY Zenon
  <2>1. CASE Next
    BY <2>1, OptionsPolicy, BuildPolicy, NewPolicy, RegisterPolicies, PermissionsPolicy,
       ExpirePolicy, ArrivePolicy, UseAuthorizationPolicy, PassOnPolicy, AuthorizePolicy,
       RequirePARCPolicy, AuthorizeResourcePolicy, EvaluatePolicy, HoldsPolicy, ServePolicy, Zenon
       DEF Next, OptionalFallback
  <2>2. CASE UNCHANGED vars
    <3>1. EngineInv'
      BY <2>2, EngineStays, Zenon DEF vars, PolicyInv, EngineInv
    <3>2. InFlight => Recorded'
      BY <2>2, Zenon DEF vars, PolicyInv, RouteInv, FlightInv, Recorded
    <3> QED
      BY <2>2, <3>1, <3>2, RequestStays, Zenon DEF vars, PolicyInv
  <2> QED
    BY <2>1, <2>2, Zenon
<1> QED
  BY <1>1, InitPolicy, PTL DEF Spec

\* A request reaches its endpoint only if every policy on its route is registered, there
\* is a user, and each requirement of each policy held for a bundle that the user had, or
\* that was cached, since the request arrived: for all policies, routes, users and
\* permissions (PolicyEngine.Evaluate, the guards and the fallback of the middleware).
THEOREM AllowedRequestsHeld == Spec => []AllowedHeld
<1>1. PolicyInv => AllowedHeld
  BY Zenon DEF PolicyInv, RouteInv
<1> QED
  BY <1>1, PolicyInvariant, PTL

\* A request is refused with 403 only for a reason at the handler that refuses: for all
\* policies, routes, users and permissions (PolicyEngine.Evaluate, AuthorizeResource).
THEOREM RefusalsHaveReasons == Spec => []RefusedForReason
<1>1. PolicyInv => RefusedForReason
  BY Zenon DEF PolicyInv, RouteInv
<1> QED
  BY <1>1, PolicyInvariant, PTL


=============================================================================
