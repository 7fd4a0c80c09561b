-------------------------------- MODULE Versioning --------------------------------
(***************************************************************************)
(* The versioning middleware, its registry of routes and the redispatch    *)
(* through the gin engine.  Paths and patterns are sequences of segments,  *)
(* those of requests and patterns not empty.                               *)
(* Routes are registered before requests are served.                       *)
(***************************************************************************)
EXTENDS Integers, Sequences, FiniteSetsExt

CONSTANTS
    Methods, Patterns, Versions, \* of the routes that are registered
    Params, Wilds,      \* pattern segments that begin with ":", with "*"
    VLike,              \* segments of two or more letters that begin with "v"
    Formatted,          \* versions that VersionFormat accepts: path segments
    AfterAPI,           \* AfterAPI[s]: what follows "api" in a first segment s
    Requests,           \* [method, path, header, query]
    NoVersion,          \* no version was found; as a header, there is none
    Configs,            \* [reader, default, assume, report, registry]; a reader is a
                        \* sequence of strategies, "header", "query" or "url"
    MaxRoutes           \* bound: routes that are registered

Empty == ""

ASSUME VersioningAssumption ==
    /\ Methods \subseteq {"GET", "POST", "PUT", "DELETE", "PATCH"}
    /\ "api" \in DOMAIN AfterAPI /\ AfterAPI["api"] = Empty
    /\ Empty \notin VLike \cup Formatted
    /\ NoVersion \notin VLike \cup Formatted \cup {Empty}
    /\ "unsupported" \notin Versions
    /\ \A in \in Requests : in.path \in Seq(Range(in.path)) /\ Empty \notin Range(in.path)
    /\ \A c \in Configs : c.reader \in Seq({"header", "query", "url"})

VARIABLES config, routes, req

versioningVars == <<config, routes, req>>

Literal(s) == s \notin Params \cup Wilds

-----------------------------------------------------------------------------
(* Matching                                                                *)

matchPattern(url, pattern) ==
    LET wild == {i \in DOMAIN pattern : pattern[i] \in Wilds}
        upTo == IF wild = {} THEN Len(pattern) ELSE Min(wild) - 1
    IN  /\ IF wild = {} THEN Len(url) = Len(pattern) ELSE Len(url) >= Min(wild)
        /\ \A i \in 1..upTo : pattern[i] \in Params \/ pattern[i] = url[i]

countLiteralSegments(pattern) == Len(SelectSeq(pattern, Literal))

\* The patterns that the loops of Lookup and SupportedVersions may end with: a later
\* pattern replaces the one found only if it has more literal segments, and the order
\* of a Go map is any order.
MostSpecific(method, url) ==
    LET matching == {p \in {r.pattern : r \in {x \in routes : x.method = method}} :
                        matchPattern(url, p)}
    IN  {p \in matching : \A o \in matching :
            countLiteralSegments(o) <= countLiteralSegments(p)}

SupportedBy(method, pattern) ==
    {r.version : r \in {x \in routes : x.method = method /\ x.pattern = pattern}}

\* gin prefers, at the first segment where two routes differ in kind, the literal.
Rank(s) == IF Literal(s) THEN 0 ELSE IF s \in Params THEN 1 ELSE 2
GinRoutes(method, path) ==
    LET found == {r \in routes : /\ r.method = method /\ Len(path) >= 2
                                /\ path[1] = "api" /\ path[2] = r.version
                                /\ matchPattern(SubSeq(path, 3, Len(path)), r.pattern)}
    IN  {r \in found : \A o \in found : o # r =>
            \E i \in DOMAIN r.pattern \cap DOMAIN o.pattern :
                /\ \A j \in 1..(i - 1) : Rank(r.pattern[j]) = Rank(o.pattern[j])
                /\ Rank(r.pattern[i]) < Rank(o.pattern[i])}

-----------------------------------------------------------------------------
(* The request                                                             *)

shouldVersionRoute(in, path) ==
    /\ path # << >> /\ path # <<"health">>
    /\ in.method # "OPTIONS"
    /\ path[1] \in DOMAIN AfterAPI

\* ReadVersion of a strategy; NoVersion is "not found".
StrategyReads(strategy, in, path) ==
    CASE strategy = "header" -> in.header
      [] strategy = "query" -> IF in.query = Empty THEN NoVersion ELSE in.query
      [] strategy = "url" -> IF Len(path) > 1 /\ path[1] = "api" /\ path[2] \in VLike
                             THEN path[2] ELSE NoVersion

\* The first strategy that finds a version wins: one version, as a set.
ReadVersion(in, path) ==
    LET reads(i) == StrategyReads(config.reader[i], in, path)
        some == {i \in DOMAIN config.reader : reads(i) # NoVersion}
    IN  IF some = {} THEN {NoVersion} ELSE {reads(i) : i \in {j \in some : \A k \in some : j <= k}}

\* FieldsFunc drops empty segments: an empty version is not found in a path.
hasVersionPrefix(path, version) == version # Empty /\ Len(path) > 1 /\ path[2] = version

\* Mutant: the version stays in the path that is looked up.
extractBasePathOnly(path) == Tail(path)

\* The path without "/api", and without a segment behind it that looks like a version
\* and is not the last.
extractBasePathForLookup(path) ==
    LET base == IF AfterAPI[path[1]] = Empty THEN Tail(path)
                ELSE <<AfterAPI[path[1]]>> \o Tail(path)
    IN  IF AfterAPI[path[1]] = Empty /\ Len(base) > 1 /\ base[1] \in VLike THEN Tail(base) ELSE base

\* "/api/<version>" and what followed "/api", which need not begin with a slash.
Rewrite(path, version) ==
    LET after == AfterAPI[path[1]]
    IN  <<"api", IF after = Empty THEN version ELSE version \o after>> \o Tail(path)

NoRequest == [pc |-> "idle"]

VersioningInit == config \in Configs /\ routes = {} /\ req = NoRequest

\* GET, POST, ... of a VersionedGroup: into the registry and into gin.
RegisterRoute(method, pattern, version) ==
    /\ req = NoRequest
    /\ Cardinality(routes) < MaxRoutes
    /\ routes' = routes \cup {[method |-> method, pattern |-> pattern, version |-> version]}
    /\ UNCHANGED <<config, req>>

Arrive(in) ==
    /\ req.pc \in {"idle", "done"}
    /\ req' = [pc |-> "middleware", in |-> in, path |-> in.path, depth |-> 0, passes |-> 1,
               asked |-> NoVersion,
               version |-> NoVersion, base |-> << >>, reported |-> {}, handler |-> << >>, runs |-> 0, answer |-> "none"]
    /\ UNCHANGED <<config, routes>>

Problem(detail) == req' = [req EXCEPT !.pc = "return", !.answer = detail]

\* c.Next: the handler of the route that gin found for the path, or not found.
NextHandler ==
    \/ \E r \in GinRoutes(req.in.method, req.path) :
          req' = [req EXCEPT !.pc = "return", !.runs = @ + 1, !.answer = r.version,
                     !.handler = r.pattern]
    \/ GinRoutes(req.in.method, req.path) = {} /\ Problem("not found")

\* Mutant: without c.Abort, c.Next runs the handlers that HandleContext left behind.
ReturnUnaborted ==
    /\ req.pc = "return"
    /\ IF req.depth > 0 THEN req' = [req EXCEPT !.depth = @ - 1, !.runs = @ + 1]
       ELSE req' = [req EXCEPT !.pc = "done"]
    /\ UNCHANGED <<config, routes>>

\* The middleware returns to the HandleContext of the pass before, which aborts.
ReturnFromPass ==
    /\ req.pc = "return"
    /\ IF req.depth > 0 THEN req' = [req EXCEPT !.depth = @ - 1]
       ELSE req' = [req EXCEPT !.pc = "done"]
    /\ UNCHANGED <<config, routes>>

\* A path that is not versioned.
Skip ==
    /\ req.pc = "middleware"
    /\ ~shouldVersionRoute(req.in, req.path)
    /\ NextHandler
    /\ UNCHANGED <<config, routes>>

\* Steps 1 and 2: the version is read, defaulted and validated.
ReadStep ==
    /\ req.pc = "middleware"
    /\ shouldVersionRoute(req.in, req.path)
    /\ \E read \in ReadVersion(req.in, req.path) :
           LET version == IF read \in {NoVersion, Empty} THEN config.default ELSE read
           IN  IF read = NoVersion /\ ~config.assume THEN Problem("missing")
               ELSE IF version \notin Formatted THEN Problem("invalid")
               ELSE req' = [req EXCEPT !.pc = "lookup", !.version = version,
                               !.asked = IF @ = NoVersion THEN version ELSE @]
    /\ UNCHANGED <<config, routes>>

\* Step 3: Lookup, whose answer depends on the order of a map.
LookupStep ==
    /\ req.pc = "lookup"
    /\ LET base == extractBasePathForLookup(req.path)
           go == [req EXCEPT !.pc = "report", !.base = base]
       IN  IF ~config.registry \/ MostSpecific(req.in.method, base) = {} THEN req' = [go EXCEPT !.pc = "rewrite"]
           ELSE \E p \in MostSpecific(req.in.method, base) :
                    IF req.version \in SupportedBy(req.in.method, p) THEN req' = go
                    ELSE req' = [go EXCEPT !.pc = "return", !.answer = "unsupported"]
    /\ UNCHANGED <<config, routes>>

\* The header api-supported-versions, if it is wanted, from a loop of its own.
ReportStep ==
    /\ req.pc = "report"
    /\ IF config.report
       THEN \E p \in MostSpecific(req.in.method, req.base) :
               req' = [req EXCEPT !.pc = "rewrite", !.reported = SupportedBy(req.in.method, p)]
       ELSE req' = [req EXCEPT !.pc = "rewrite"]
    /\ UNCHANGED <<config, routes>>

\* Step 4: the path is rewritten and dispatched again, or the handler runs.
RewriteStep ==
    /\ req.pc = "rewrite"
    /\ IF hasVersionPrefix(req.path, req.version) THEN NextHandler
       ELSE req' = [req EXCEPT !.pc = "middleware", !.depth = @ + 1, !.passes = @ + 1,
                       !.path = Rewrite(req.path, req.version)]
    /\ UNCHANGED <<config, routes>>

VersioningNext ==
    \/ \E m \in Methods, p \in Patterns, v \in Versions : RegisterRoute(m, p, v)
    \/ \E in \in Requests : Arrive(in)
    \/ Skip \/ ReadStep \/ LookupStep \/ ReportStep \/ RewriteStep \/ ReturnFromPass

VersioningSpec == VersioningInit /\ [][VersioningNext]_versioningVars

-----------------------------------------------------------------------------
(* Properties                                                              *)

\* The resource that a request under /api asks for, without the version it asks for.
Resource(in, version) ==
    IF hasVersionPrefix(in.path, version) THEN SubSeq(in.path, 3, Len(in.path)) ELSE Tail(in.path)

UnderAPI(path) == path # << >> /\ path[1] = "api"

\* Whatever the redispatches, a request under /api runs at most one handler, once, of the
\* version that was read when the request arrived and of a pattern that fits the resource.
\* The redispatches end, as the rewritten path has its version prefix: the middleware runs
\* at most three times for a request, and at most twice for one under /api.
RightHandlerOnce ==
    /\ req.pc = "done" => req.runs <= 1
    /\ (req.pc = "done" /\ req.runs > 0 /\ UnderAPI(req.in.path)) =>
           /\ req.answer = req.asked
           /\ matchPattern(Resource(req.in, req.asked), req.handler)
    /\ req.pc # "idle" => req.passes <= IF UnderAPI(req.in.path) THEN 2 ELSE 3

\* The resource is there and not mistaken for a version.
Clear(in, version) ==
    /\ UnderAPI(in.path) /\ version \in VLike /\ Resource(in, version) # << >>
    /\ Len(in.path) > 1 => in.path[2] \notin VLike \ {version}

\* The registry decides on the resource, in whatever order its maps are walked. A version
\* is not refused if every pattern that fits best has it, nor if gin, given the version and
\* the resource, finds a handler of the only pattern that fits best; it is not let through
\* if none of them has it; and the header api-supported-versions is of one of them.
SupportDecided ==
    req.pc # "idle" /\ Clear(req.in, req.version) =>
        LET method == req.in.method
            resource == Resource(req.in, req.version)
            best == MostSpecific(method, resource)
            having == {p \in best : req.version \in SupportedBy(method, p)}
        IN  /\ req.answer = "unsupported" =>
                   /\ having # best
                   /\ \A r \in GinRoutes(method, <<"api", req.version>> \o resource) : best # {r.pattern}
            /\ req.pc = "rewrite" /\ config.registry /\ best # {} => having # {}
            /\ req.reported # {} => \E p \in best : req.reported = SupportedBy(method, p)

=============================================================================
