--------------------------- MODULE EndpointProofs ---------------------------
(***************************************************************************)
(* What every endpoint of a service relies on: the health checker answers  *)
(* with the worst of its checks, the versioning middleware dispatches a    *)
(* request to the handler of its version, once, a search that fails names  *)
(* the query that failed, and the pages of a result tile it.               *)
(***************************************************************************)
EXTENDS HealthChecker, Versioning, Searcher, SearchPages, TLAPS

-----------------------------------------------------------------------------
(* The health checker                                                      *)

\* What a goroutine has done shows in its run: it exists for the checks of the snapshot,
\* it has a result once the check returned, and its entry is there when it has ended.
GoroutineInv ==
    \A r \in Runs : \A n \in Names :
      /\ goroutine[r][n] = "none" <=> snapshot[r][n] = Absent
      /\ goroutine[r][n] = "lock" => found[r][n] \in Statuses
      /\ goroutine[r][n] = "end" <=> entries[r][n] # Absent
      /\ pc[r] = "idle" => goroutine[r][n] \in {"none", "end"}

\* The overall status is the worst of the entries so far.
OverallInv == \A r \in Runs : overall[r] = WorstOf({entries[r][n] : n \in Names})

Inv == TypeOK /\ GoroutineInv /\ OverallInv

\* An entry more, and Worse makes the worst of the old entries the worst of the new.
LEMMA WorseIsWorst ==
    ASSUME NEW S, NEW s \in Statuses
    PROVE  WorstOf(S \cup {s}) = Worse(WorstOf(S), s)
  BY Zenon DEF WorstOf, Worse, Statuses

\* Absent entries do not count.
LEMMA AbsentIsHealthy == ASSUME NEW S PROVE WorstOf(S \cup {Absent}) = WorstOf(S) /\ WorstOf({Absent}) = "Healthy"
  BY AbsentAssumption, Zenon DEF WorstOf, Statuses

\* A check reports one of the three statuses, whatever the state of the service.
LEMMA CheckStatus == \A k, s : Check(k, s) \in Statuses
  BY Zenon DEF Check, DatabaseCheck, RedisCheck, BusCheck, Statuses

\* Before any run nothing was probed and nothing entered.
LEMMA InitInv == Init => Inv
  <1> SUFFICES ASSUME Init PROVE Inv
    BY Zenon
  <1>1. TypeOK
    BY Zenon DEF Init, TypeOK, Services, Statuses
  <1>2. GoroutineInv
    BY Zenon DEF Init, GoroutineInv
  <1>3. OverallInv
    <2> SUFFICES ASSUME NEW r \in Runs PROVE overall[r] = WorstOf({entries[r][n] : n \in Names})
      BY Zenon DEF OverallInv
    <2>1. overall[r] = "Healthy" /\ entries[r] = [n \in Names |-> Absent]
      BY Zenon DEF Init
    <2>2. "Unhealthy" \notin {entries[r][n] : n \in Names} /\ "Degraded" \notin {entries[r][n] : n \in Names}
      BY <2>1, AbsentAssumption, Zenon DEF Statuses
    <2> QED
      BY <2>1, <2>2, Zenon DEF WorstOf
  <1> QED
    BY <1>1, <1>2, <1>3, Zenon DEF Inv

\* Every step of a run or of its goroutines keeps the invariant.
LEMMA NextInv == Inv /\ [Next]_vars => Inv'
  <1> SUFFICES ASSUME Inv, [Next]_vars PROVE Inv'
    BY Zenon
  <1> USE DEF Inv
  <1>1. ASSUME NEW n \in Names, NEW k \in Kinds, Register(n, k) PROVE Inv'
    <2>1. TypeOK'
      BY <1>1, Zenon DEF TypeOK, Register, run
    <2>2. GoroutineInv' /\ OverallInv'
      BY <1>1, Zenon DEF GoroutineInv, OverallInv, Register, run
    <2> QED
      BY <2>1, <2>2, Zenon
  <1>2. ASSUME NEW r \in Runs, NEW c \in Calls, Run(r, c) PROVE Inv'
    <2>1. TypeOK'
      BY <1>2, Zenon DEF TypeOK, Run, Statuses
    <2>2. GoroutineInv'
      BY <1>2 DEF GoroutineInv, TypeOK, Run
    <2>3. OverallInv'
      <3> SUFFICES ASSUME NEW q \in Runs PROVE overall'[q] = WorstOf({entries'[q][m] : m \in Names})
        BY Zenon DEF OverallInv
      <3>1. CASE q # r
        <4>1. overall'[q] = overall[q] /\ entries'[q] = entries[q]
          BY <1>2, <3>1, Zenon DEF Run, TypeOK
        <4> QED
          BY <4>1, Zenon DEF OverallInv
      <3>2. CASE q = r
        <4>1. overall'[q] = "Healthy" /\ entries'[q] = [m \in Names |-> Absent]
          BY <1>2, <3>2, Zenon DEF Run, TypeOK
        <4>2. "Unhealthy" \notin {entries'[q][m] : m \in Names} /\ "Degraded" \notin {entries'[q][m] : m \in Names}
          BY <4>1, AbsentAssumption, Zenon DEF Statuses
        <4> QED
          BY <4>1, <4>2, Zenon DEF WorstOf
      <3> QED
        BY <3>1, <3>2, Zenon
    <2> QED
      BY <2>1, <2>2, <2>3, Zenon
  <1>3. ASSUME NEW r \in Runs, NEW n \in Names, Probe(r, n) PROVE Inv'
    <2>0. PICK s : found' = [found EXCEPT ![r][n] = Check(snapshot[r][n], s)]
      BY <1>3, Zenon DEF Probe
    <2>1. TypeOK'
      BY <1>3, <2>0, CheckStatus, Zenon DEF TypeOK, Probe
    <2>2. GoroutineInv'
      BY <1>3, <2>0, CheckStatus DEF GoroutineInv, TypeOK, Probe
    <2>3. OverallInv'
      BY <1>3, Zenon DEF OverallInv, Probe
    <2> QED
      BY <2>1, <2>2, <2>3, Zenon
  <1>4. ASSUME NEW r \in Runs, NEW n \in Names, Record(r, n) PROVE Inv'
    <2>1. found[r][n] \in Statuses /\ found[r][n] # Absent
      BY <1>4, AbsentAssumption, Zenon DEF GoroutineInv, Record
    <2>2. entries[r][n] = Absent
      BY <1>4, Zenon DEF GoroutineInv, Record
    <2>3. TypeOK'
      BY <1>4, <2>1, Zenon DEF TypeOK, Record, Worse, Statuses
    <2>4. GoroutineInv'
      BY <1>4, <2>1 DEF GoroutineInv, TypeOK, Record
    <2>5. OverallInv'
      <3> SUFFICES ASSUME NEW q \in Runs PROVE overall'[q] = WorstOf({entries'[q][m] : m \in Names})
        BY Zenon DEF OverallInv
      <3>1. CASE q # r
        BY <1>4, <3>1 DEF Record, TypeOK, OverallInv
      <3>2. CASE q = r
        <4> DEFINE old == {entries[r][m] : m \in Names}
                   new == {entries'[r][m] : m \in Names}
        <4>1. \A m \in Names : entries'[r][m] = IF m = n THEN found[r][n] ELSE entries[r][m]
          BY <1>4, Zenon DEF Record, TypeOK
        <4>2. new \cup {Absent} = old \cup {found[r][n]} \cup {Absent}
          BY <4>1, <2>2, Zenon
        <4>3. WorstOf(new) = Worse(WorstOf(old), found[r][n])
          <5> HIDE DEF old, new
          <5>1. WorstOf(new) = WorstOf(old \cup {found[r][n]})
            BY <4>2, AbsentIsHealthy, Zenon
          <5> QED
            BY <5>1, <2>1, WorseIsWorst, Zenon
        <4>4. overall'[r] = Worse(overall[r], found[r][n])
          BY <1>4, Zenon DEF Record, TypeOK
        <4> QED
          BY <3>2, <4>3, <4>4, Zenon DEF OverallInv
      <3> QED
        BY <3>1, <3>2, Zenon
    <2> QED
      BY <2>3, <2>4, <2>5, Zenon
  <1>5. ASSUME NEW r \in Runs, Return(r) PROVE Inv'
    <2>1. TypeOK'
      BY <1>5, Zenon DEF TypeOK, Return
    <2>2. GoroutineInv'
      BY <1>5 DEF GoroutineInv, TypeOK, Return, Waited
    <2>3. OverallInv'
      BY <1>5, Zenon DEF OverallInv, Return
    <2> QED
      BY <2>1, <2>2, <2>3, Zenon
  <1>6. ASSUME NEW r \in Runs, ContextEnds(r) PROVE Inv'
    <2>1. TypeOK'
      BY <1>6, Zenon DEF TypeOK, ContextEnds
    <2>2. GoroutineInv' /\ OverallInv'
      BY <1>6 DEF GoroutineInv, OverallInv, ContextEnds
    <2> QED
      BY <2>1, <2>2, Zenon
  <1>7. ASSUME NEW n \in Names, NEW s \in Services, ServiceChanges(n, s) PROVE Inv'
    <2>1. TypeOK'
      BY <1>7, Zenon DEF TypeOK, ServiceChanges, run
    <2>2. GoroutineInv' /\ OverallInv'
      BY <1>7, Zenon DEF GoroutineInv, OverallInv, ServiceChanges, run
    <2> QED
      BY <2>1, <2>2, Zenon
  <1>8. CASE UNCHANGED vars
    <2>1. TypeOK'
      BY <1>8, Zenon DEF TypeOK, vars
    <2>2. GoroutineInv' /\ OverallInv'
      BY <1>8, Zenon DEF GoroutineInv, OverallInv, vars
    <2> QED
      BY <2>1, <2>2, Zenon
  <1> QED
    BY <1>1, <1>2, <1>3, <1>4, <1>5, <1>6, <1>7, <1>8, Zenon DEF Next

\* Every response of Run has an entry for each check that was registered when it began and
\* the worst of their statuses.
THEOREM ResponseCorrect == Spec => []ResponseRight
  <1>1. Inv => ResponseRight
    BY Zenon DEF Inv, TypeOK, GoroutineInv, OverallInv, ResponseRight
  <1> QED
    BY <1>1, InitInv, NextInv, PTL DEF Spec

\* The variables keep their types.
THEOREM TypesCorrect == Spec => []TypeOK
  <1>1. Inv => TypeOK
    BY Zenon DEF Inv
  <1> QED
    BY <1>1, InitInv, NextInv, PTL DEF Spec

-----------------------------------------------------------------------------
(* The versioning middleware                                               *)

\* The version that a pass of the middleware takes, from what its reader found.
VersionsRead(in, path) ==
    {IF read \in {NoVersion, Empty} THEN config.default ELSE read : read \in ReadVersion(in, path)}

IsPath(p) == p \in Seq(Range(p))

\* A pass that reads a version reads the one that the path has behind /api.
Settled(in, path) == Len(path) > 1 /\ \A v \in VersionsRead(in, path) : v = path[2]

\* Where request x is in its passes.
PathInv(x) ==
    /\ x.in \in Requests /\ IsPath(x.path)
    /\ x.passes \in 1..3
    /\ x.passes = 1 => x.path = x.in.path
    /\ x.passes > 1 => UnderAPI(x.path)
    /\ UnderAPI(x.in.path) => x.passes <= 2
    /\ x.passes = 3 \/ (x.passes = 2 /\ UnderAPI(x.in.path)) => Settled(x.in, x.path)

\* What it took for its version.
ReadInv(x) ==
    x.pc \in {"lookup", "report", "rewrite"} =>
        x.path # << >> /\ x.version \in VersionsRead(x.in, x.path) \cap Formatted

\* Under /api it asks for the version it took first.
AskedInv(x) ==
    UnderAPI(x.in.path) =>
        /\ x.passes = 1 /\ x.pc = "middleware" => x.asked = NoVersion
        /\ x.pc \in {"lookup", "report", "rewrite"} => x.asked = x.version
        /\ x.passes = 2 =>
               /\ x.path = <<"api", x.asked>> \o Tail(x.in.path)
               /\ ~hasVersionPrefix(x.in.path, x.asked)
               /\ x.version = x.asked /\ x.asked # NoVersion

\* No handler ran, or the right one did.
RunsInv(x) ==
    /\ x.runs \in {0, 1}
    /\ x.pc \notin {"return", "done"} => x.runs = 0 /\ x.answer = "none"
    /\ x.runs = 1 /\ UnderAPI(x.in.path) =>
           x.answer = x.asked /\ matchPattern(Resource(x.in, x.asked), x.handler)

\* What the registry said of the patterns that fit the resource best.
Having(x) ==
    \E p \in MostSpecific(x.in.method, x.base) : x.version \in SupportedBy(x.in.method, p)

SupportInv(x) ==
    /\ x.pc \in {"report", "rewrite"} \/ x.answer = "unsupported" =>
           (Clear(x.in, x.version) => x.base = Resource(x.in, x.version))
    /\ x.pc = "report" => Having(x)
    /\ x.pc = "rewrite" =>
           ~config.registry \/ MostSpecific(x.in.method, x.base) = {} \/ Having(x)
    /\ x.answer = "unsupported" => \E p \in MostSpecific(x.in.method, x.base) :
                                       x.version \notin SupportedBy(x.in.method, p)
    /\ x.passes = 1 /\ x.pc \in {"middleware", "lookup", "report"} => x.reported = {}
    /\ x.reported # {} /\ Clear(x.in, x.version) =>
           \E p \in MostSpecific(x.in.method, Resource(x.in, x.version)) :
               x.reported = SupportedBy(x.in.method, p)

GoodRequest(x) ==
    /\ DOMAIN x = {"pc", "in", "path", "depth", "passes", "asked", "version", "base",
                   "reported", "handler", "runs", "answer"}
    /\ PathInv(x) /\ ReadInv(x) /\ AskedInv(x) /\ RunsInv(x) /\ SupportInv(x)

RoutesInv ==
    /\ config \in Configs
    /\ \A r \in routes : r.method \in Methods /\ r.version \in Versions

MiddlewareInv == RoutesInv /\ (req.pc # "idle" => GoodRequest(req))

\* A path is rewritten: the version is put behind /api and the rest stays.
LEMMA Prepended ==
  ASSUME NEW p, IsPath(p), p # << >>, NEW v, NEW r, r = <<"api", v>> \o Tail(p)
  PROVE  /\ IsPath(r) /\ UnderAPI(r) /\ Len(r) = Len(p) + 1 /\ Len(r) > 1
         /\ r[1] = "api" /\ r[2] = v
         /\ SubSeq(r, 3, Len(r)) = Tail(p)
         /\ Tail(r) = <<v>> \o Tail(p)
<1> DEFINE S == Range(p) \cup {"api", v}
<1>1. p \in Seq(S) /\ Len(p) \in Nat \ {0} /\ "api" \in S /\ v \in S
  BY DEF IsPath
<1>2. Tail(p) \in Seq(S) /\ Len(Tail(p)) = Len(p) - 1
  BY <1>1
<1>3. <<"api", v>> \in Seq(S) /\ <<v>> \in Seq(S)
  BY <1>1
<1> HIDE DEF S
<1>4. r \in Seq(S) /\ Len(r) = Len(p) + 1 /\ r[1] = "api" /\ r[2] = v
  BY <1>1, <1>2, <1>3
<1>5. \A k \in 3..Len(r) : r[k] = Tail(p)[k - 2]
  BY <1>1, <1>2, <1>3, <1>4
<1>6. r \in Seq(Range(r))
  <2>1. \A k \in 1..Len(r) : r[k] \in Range(r)
    <3>1. DOMAIN r = 1..Len(r)
      BY <1>4
    <3> QED
      BY <3>1, Zenon DEF Range
  <2> QED
    BY ONLY <1>4, <2>1
<1>7. SubSeq(r, 3, Len(r)) = Tail(p)
  <2>1. SubSeq(r, 3, Len(r)) = [k \in 1..(Len(r) - 2) |-> r[k + 2]]
    BY <1>1, <1>4
  <2>2. Tail(p) = [k \in 1..(Len(r) - 2) |-> Tail(p)[k]]
    <3>1. \A q \in Seq(S) : q = [k \in 1..Len(q) |-> q[k]]
      OBVIOUS
    <3>2. Len(r) - 2 = Len(Tail(p))
      BY <1>1, <1>2, <1>4
    <3> QED
      BY <1>2, <3>1, <3>2, Zenon
  <2>3. \A k \in 1..(Len(r) - 2) : r[k + 2] = Tail(p)[k]
    BY <1>1, <1>4, <1>5
  <2> QED
    BY <2>1, <2>2, <2>3, Zenon
<1>8. Tail(r) = <<v>> \o Tail(p)
  <2>1. Tail(r) \in Seq(S) /\ Len(Tail(r)) = Len(p)
    BY <1>1, <1>4
  <2>2. <<v>> \o Tail(p) \in Seq(S) /\ Len(<<v>> \o Tail(p)) = Len(p)
    BY <1>1, <1>2, <1>3
  <2>3. \A k \in 1..Len(p) : Tail(r)[k] = (<<v>> \o Tail(p))[k]
    BY <1>1, <1>2, <1>3, <1>4, <1>5
  <2> QED
    BY <1>1, <2>1, <2>2, <2>3
<1>9. Len(r) > 1 /\ r # << >>
  BY <1>1, <1>4
<1> QED
  BY <1>4, <1>6, <1>7, <1>8, <1>9, Zenon DEF IsPath, UnderAPI
\* No strategy found a version, and the default is taken; or strategy i was the first.
TookDefault(in, path, v) ==
    /\ v = config.default
    /\ \A i \in DOMAIN config.reader : StrategyReads(config.reader[i], in, path) = NoVersion

TookFrom(in, path, v, i) ==
    LET reads(k) == StrategyReads(config.reader[k], in, path)
    IN  /\ reads(i) # NoVersion
        /\ v = IF reads(i) = Empty THEN config.default ELSE reads(i)
        /\ \A k \in DOMAIN config.reader : reads(k) # NoVersion => i <= k

\* What a pass takes for its version: the default where no strategy found one, and else
\* what the first one that did has found.
LEMMA Taken ==
  ASSUME NEW in, NEW path, NEW v \in VersionsRead(in, path)
  PROVE  TookDefault(in, path, v) \/ \E i \in DOMAIN config.reader : TookFrom(in, path, v, i)
<1> DEFINE f(i) == StrategyReads(config.reader[i], in, path)
           some == {i \in DOMAIN config.reader : f(i) # NoVersion}
<1>1. PICK read \in ReadVersion(in, path) :
          v = IF read \in {NoVersion, Empty} THEN config.default ELSE read
  BY Zenon DEF VersionsRead
<1>2. ReadVersion(in, path) =
          IF some = {} THEN {NoVersion} ELSE {f(i) : i \in {j \in some : \A k \in some : j <= k}}
  BY Zenon DEF ReadVersion
<1>3. CASE some = {}
  <2>0. ReadVersion(in, path) = {NoVersion}
    BY <1>2, <1>3, Zenon
  <2>1. v = config.default
    BY <1>1, <2>0, Zenon
  <2>2. \A i \in DOMAIN config.reader : f(i) = NoVersion
    BY <1>3, Zenon
  <2> QED
    BY <2>1, <2>2, Zenon DEF TookDefault
<1>4. CASE some # {}
  <2>1. PICK i \in some : read = f(i) /\ \A k \in some : i <= k
    BY <1>1, <1>2, <1>4, Zenon
  <2>2. v = IF f(i) = Empty THEN config.default ELSE f(i)
    BY <1>1, <2>1, Zenon
  <2>3. TookFrom(in, path, v, i)
    BY <2>1, <2>2, Zenon DEF TookFrom
  <2> QED
    BY <2>3, Zenon
<1> QED
  BY <1>3, <1>4, Zenon

\* A strategy that does not read the path finds the same whatever the path; the one that
\* does finds the segment behind /api where it looks like a version.
LEMMA StrategiesRead ==
  ASSUME RoutesInv, NEW in, NEW path, IsPath(path), UnderAPI(path),
         NEW i \in DOMAIN config.reader
  PROVE  /\ config.reader[i] \in {"header", "query", "url"}
         /\ i \in Nat
         /\ config.reader[i] # "url" =>
                \A p : StrategyReads(config.reader[i], in, p) =
                           StrategyReads(config.reader[i], in, path)
         /\ config.reader[i] = "url" =>
                StrategyReads(config.reader[i], in, path) =
                    IF Len(path) > 1 /\ path[2] \in VLike THEN path[2] ELSE NoVersion
<1>1. config.reader \in Seq({"header", "query", "url"})
  BY VersioningAssumption, Zenon DEF RoutesInv
<1>2. config.reader[i] \in {"header", "query", "url"} /\ i \in Nat
  BY <1>1
<1>3. CASE config.reader[i] = "url"
  BY <1>2, <1>3, Zenon DEF StrategyReads, UnderAPI
<1>4. CASE config.reader[i] = "header"
  BY <1>2, <1>4, Zenon DEF StrategyReads
<1>5. CASE config.reader[i] = "query"
  BY <1>2, <1>5, Zenon DEF StrategyReads
<1> QED
  BY <1>2, <1>3, <1>4, <1>5, Zenon

\* A rewritten path is settled: the pass that reads it reads the version it was given.
LEMMA Settles ==
  ASSUME RoutesInv, NEW in, NEW path, IsPath(path), UnderAPI(path),
         NEW v \in VersionsRead(in, path), NEW r, r = <<"api", v>> \o Tail(path)
  PROVE  Settled(in, r)
<1> DEFINE D == DOMAIN config.reader
           f(i) == StrategyReads(config.reader[i], in, path)
           g(i) == StrategyReads(config.reader[i], in, r)
<1>0. path # << >>
  BY Zenon DEF UnderAPI
<1>1. IsPath(r) /\ UnderAPI(r) /\ Len(r) > 1 /\ r[2] = v
  BY <1>0, Prepended, Zenon
<1>2. \A i \in D : i \in Nat /\ (config.reader[i] # "url" => f(i) = g(i))
  BY StrategiesRead, Zenon
<1>3. \A i \in D : config.reader[i] = "url" => g(i) = IF v \in VLike THEN v ELSE NoVersion
  BY <1>1, StrategiesRead, Zenon
<1>4. \A i \in D : config.reader[i] = "url" /\ f(i) # NoVersion => f(i) \in VLike
  BY StrategiesRead, Zenon
<1>5. NoVersion \notin VLike /\ Empty \notin VLike
  BY VersioningAssumption, Zenon
<1>6. \/ v = config.default /\ \A i \in D : f(i) = NoVersion
      \/ \E i \in D : /\ f(i) # NoVersion
                      /\ v = IF f(i) = Empty THEN config.default ELSE f(i)
                      /\ \A k \in D : f(k) # NoVersion => i <= k
  <2>1. TookDefault(in, path, v) \/ \E i \in D : TookFrom(in, path, v, i)
    BY Taken, Zenon
  <2> QED
    BY <2>1, Zenon DEF TookDefault, TookFrom
<1> SUFFICES ASSUME NEW w \in VersionsRead(in, r) PROVE w = v
  BY <1>1, Zenon DEF Settled
<1>7. \/ w = config.default /\ \A i \in D : g(i) = NoVersion
      \/ \E i \in D : /\ g(i) # NoVersion
                      /\ w = IF g(i) = Empty THEN config.default ELSE g(i)
                      /\ \A k \in D : g(k) # NoVersion => i <= k
  <2>1. TookDefault(in, r, w) \/ \E i \in D : TookFrom(in, r, w, i)
    BY Taken, Zenon
  <2> QED
    BY <2>1, Zenon DEF TookDefault, TookFrom
<1>8. ASSUME NEW i \in D, f(i) # NoVersion, config.reader[i] = "url",
             v = IF f(i) = Empty THEN config.default ELSE f(i)
      PROVE  g(i) # NoVersion
  BY <1>3, <1>4, <1>5, <1>8, Zenon
<1> HIDE DEF D, f, g
<1>9. CASE w = config.default /\ \A i \in D : g(i) = NoVersion
  BY <1>2, <1>6, <1>8, <1>9, Zenon
<1>10. ASSUME NEW j \in D, g(j) # NoVersion, w = IF g(j) = Empty THEN config.default ELSE g(j),
              \A k \in D : g(k) # NoVersion => j <= k
       PROVE  w = v
  <2>1. CASE config.reader[j] = "url"
    BY <1>3, <1>5, <1>10, <2>1, Zenon
  <2>2. CASE config.reader[j] # "url"
    <3>1. f(j) = g(j) /\ f(j) # NoVersion
      BY <1>2, <1>10, <2>2, Zenon
    <3>2. PICK i \in D : /\ f(i) # NoVersion
                         /\ v = IF f(i) = Empty THEN config.default ELSE f(i)
                         /\ \A k \in D : f(k) # NoVersion => i <= k
      BY <1>6, <3>1, Zenon
    <3>3. g(i) # NoVersion
      BY <1>2, <1>8, <3>2, Zenon
    <3>4. i <= j /\ j <= i
      BY <1>10, <3>1, <3>2, <3>3, Zenon
    <3>5. i = j
      BY <1>2, <3>4
    <3> QED
      BY <1>10, <3>1, <3>2, <3>5, Zenon
  <2> QED
    BY <2>1, <2>2, Zenon
<1> QED
  BY <1>7, <1>9, <1>10, Zenon
-----------------------------------------------------------------------------
(* Each step of the middleware keeps a request good                        *)

\* The facts about the answers that the middleware gives itself.
LEMMA Answers ==
  /\ \A d \in {"none", "missing", "invalid", "not found"} : d # "unsupported"
  /\ "unsupported" \notin Versions /\ NoVersion \notin Formatted
  /\ "OPTIONS" \notin Methods
  BY VersioningAssumption, Zenon

\* A request that arrives is good.
LEMMA ArrivesGood ==
  ASSUME RoutesInv, NEW in \in Requests, Arrive(in)
  PROVE  GoodRequest(req')
<1> DEFINE y == req'
<1>1. /\ DOMAIN y = {"pc", "in", "path", "depth", "passes", "asked", "version", "base",
                     "reported", "handler", "runs", "answer"}
      /\ y.pc = "middleware" /\ y.in = in /\ y.path = in.path /\ y.passes = 1
      /\ y.asked = NoVersion /\ y.reported = {} /\ y.runs = 0 /\ y.answer = "none"
  BY Zenon DEF Arrive
<1> HIDE DEF y
<1>2. PathInv(y)
  BY <1>1, VersioningAssumption DEF PathInv, IsPath
<1>3. ReadInv(y) /\ AskedInv(y) /\ RunsInv(y)
  BY <1>1 DEF ReadInv, AskedInv, RunsInv
<1>4. SupportInv(y)
  BY <1>1, Zenon DEF SupportInv
<1>5. GoodRequest(y)
  BY <1>1, <1>2, <1>3, <1>4, Zenon DEF GoodRequest
<1> QED
  BY <1>5, Zenon DEF y

\* A request that is answered with a problem stays good.
LEMMA ProblemGood ==
  ASSUME NEW x, GoodRequest(x), x.pc \in {"middleware", "rewrite"},
         NEW d, d # "unsupported",
         NEW y, y = [x EXCEPT !.pc = "return", !.answer = d]
  PROVE  GoodRequest(y)
<1>1. /\ DOMAIN y = DOMAIN x /\ y.pc = "return" /\ y.in = x.in /\ y.path = x.path
      /\ y.passes = x.passes /\ y.asked = x.asked /\ y.version = x.version
      /\ y.base = x.base /\ y.reported = x.reported /\ y.handler = x.handler
      /\ y.runs = x.runs /\ y.answer = d
  BY Zenon DEF GoodRequest
<1>2. x.runs = 0
  BY Zenon DEF GoodRequest, RunsInv
<1>3. PathInv(y) /\ ReadInv(y)
  BY <1>1, Zenon DEF GoodRequest, PathInv, ReadInv
<1>4. AskedInv(y)
  BY <1>1, Zenon DEF GoodRequest, AskedInv
<1>5. RunsInv(y)
  <2>1. y.runs = 0
    BY <1>1, <1>2, Zenon
  <2>2. 0 # 1
    OBVIOUS
  <2> QED
    BY <1>1, <2>1, <2>2, Zenon DEF RunsInv
<1>6. SupportInv(y)
  BY <1>1, <1>2, Zenon DEF GoodRequest, SupportInv
<1> QED
  BY <1>1, <1>3, <1>4, <1>5, <1>6, Zenon DEF GoodRequest

\* A pass that ends leaves the request good.
LEMMA ReturnGood ==
  ASSUME NEW x, GoodRequest(x), x.pc = "return",
         NEW y, \/ \E n : y = [x EXCEPT !.depth = n]
                \/ y = [x EXCEPT !.pc = "done"]
  PROVE  GoodRequest(y)
<1>1. /\ DOMAIN y = DOMAIN x /\ y.pc \in {"return", "done"} /\ y.in = x.in /\ y.path = x.path
      /\ y.passes = x.passes /\ y.asked = x.asked /\ y.version = x.version
      /\ y.base = x.base /\ y.reported = x.reported /\ y.handler = x.handler
      /\ y.runs = x.runs /\ y.answer = x.answer
  BY Zenon DEF GoodRequest
<1>2. PathInv(y) /\ ReadInv(y)
  BY <1>1, Zenon DEF GoodRequest, PathInv, ReadInv
<1>3. AskedInv(y)
  BY <1>1, Zenon DEF GoodRequest, AskedInv
<1>4. RunsInv(y)
  BY <1>1, Zenon DEF GoodRequest, RunsInv
<1>5. SupportInv(y)
  BY <1>1, Zenon DEF GoodRequest, SupportInv
<1> QED
  BY <1>1, <1>2, <1>3, <1>4, <1>5, Zenon DEF GoodRequest
\* A version that is read, defaulted and accepted leaves the request good: in the second
\* pass of a request under /api it is the version of the first.
LEMMA ReadGood ==
  ASSUME NEW x, GoodRequest(x), x.pc = "middleware", x.path # << >>,
         NEW v \in VersionsRead(x.in, x.path) \cap Formatted,
         NEW y, y = [x EXCEPT !.pc = "lookup", !.version = v,
                        !.asked = IF x.asked = NoVersion THEN v ELSE x.asked]
  PROVE  GoodRequest(y)
<1>1. /\ DOMAIN y = DOMAIN x /\ y.pc = "lookup" /\ y.in = x.in /\ y.path = x.path
      /\ y.passes = x.passes /\ y.version = v
      /\ y.asked = IF x.asked = NoVersion THEN v ELSE x.asked
      /\ y.base = x.base /\ y.reported = x.reported /\ y.handler = x.handler
      /\ y.runs = x.runs /\ y.answer = x.answer
  BY Zenon DEF GoodRequest
<1>2. x.runs = 0 /\ x.answer = "none" /\ x.answer # "unsupported"
  BY Zenon DEF GoodRequest, RunsInv
<1>3. PathInv(y)
  BY <1>1, Zenon DEF GoodRequest, PathInv
<1>4. ReadInv(y)
  BY <1>1, Zenon DEF ReadInv
<1>5. ASSUME UnderAPI(x.in.path) PROVE
        \/ x.passes = 1 /\ x.passes # 2 /\ x.asked = NoVersion
        \/ x.passes = 2 /\ x.passes # 1 /\ x.asked = v /\ x.version = v /\ x.asked # NoVersion
  <2>1. x.passes = 1 \/ x.passes = 2
    BY <1>5 DEF GoodRequest, PathInv
  <2>2. CASE x.passes = 1
    BY <1>5, <2>2, Zenon DEF GoodRequest, AskedInv
  <2>3. CASE x.passes = 2
    <3>1. v = x.path[2]
      BY <1>5, <2>3, Zenon DEF GoodRequest, PathInv, Settled
    <3>2. x.path = <<"api", x.asked>> \o Tail(x.in.path) /\ x.version = x.asked /\ x.asked # NoVersion
      BY <1>5, <2>3, Zenon DEF GoodRequest, AskedInv
    <3>3. x.in \in Requests /\ IsPath(x.in.path) /\ x.in.path # << >>
      BY <1>5, VersioningAssumption, Zenon DEF GoodRequest, PathInv, UnderAPI, IsPath
    <3>4. x.path[2] = x.asked
      BY <3>2, <3>3, Prepended
    <3> QED
      BY <2>3, <3>1, <3>2, <3>4
  <2> QED
    BY <2>1, <2>2, <2>3, Zenon
<1>6. AskedInv(y)
  BY <1>1, <1>5, Zenon DEF GoodRequest, AskedInv
<1>7. RunsInv(y)
  <2>1. y.runs = 0 /\ y.runs # 1
    BY <1>1, <1>2
  <2> QED
    BY <1>1, <1>2, <2>1, Zenon DEF RunsInv
<1>8. SupportInv(y)
  <2>1. y.pc \notin {"report", "rewrite"} /\ y.answer # "unsupported"
    BY <1>1, <1>2, Zenon
  <2>2. CASE x.passes = 1
    BY <1>1, <2>1, <2>2, Zenon DEF GoodRequest, SupportInv
  <2>3. CASE x.passes # 1 /\ x.version = v
    BY <1>1, <2>1, <2>3, Zenon DEF GoodRequest, SupportInv
  <2>4. CASE ~UnderAPI(x.in.path) /\ x.passes # 1
    <3>1. ~Clear(x.in, v)
      BY <2>4, Zenon DEF Clear
    <3> QED
      BY <1>1, <2>1, <2>4, <3>1, Zenon DEF SupportInv
  <2> QED
    BY <1>5, <2>2, <2>3, <2>4, Zenon
<1> QED
  BY <1>1, <1>3, <1>4, <1>6, <1>7, <1>8, Zenon DEF GoodRequest

\* Where the path of a request under /api is clear, the registry is asked for its resource.
LEMMA LooksUpResource ==
  ASSUME NEW x, GoodRequest(x), x.pc = "lookup", Clear(x.in, x.version)
  PROVE  extractBasePathForLookup(x.path) = Resource(x.in, x.version)
<1> DEFINE p == x.in.path
           S == Range(p)
<1>0. UnderAPI(p)
  BY Zenon DEF Clear
<1>1. p \in Seq(S) /\ p # << >> /\ p[1] = "api" /\ IsPath(p) /\ Len(p) \in Nat \ {0}
  BY <1>0, VersioningAssumption DEF GoodRequest, PathInv, UnderAPI, IsPath
<1>2. x.version \in VLike /\ Resource(x.in, x.version) # << >>
      /\ (Len(p) > 1 => p[2] \notin VLike \ {x.version}) /\ x.version # Empty
  BY VersioningAssumption, Zenon DEF Clear
<1>3. AfterAPI["api"] = Empty
  BY VersioningAssumption, Zenon
<1>4. x.passes = 1 \/ x.passes = 2
  BY <1>0 DEF GoodRequest, PathInv
<1>5. CASE x.passes = 1
  <2>1. x.path = p
    BY <1>5, Zenon DEF GoodRequest, PathInv
  <2>2. extractBasePathForLookup(x.path) =
          IF Len(Tail(p)) > 1 /\ Tail(p)[1] \in VLike THEN Tail(Tail(p)) ELSE Tail(p)
    BY <1>1, <1>3, <2>1, Zenon DEF extractBasePathForLookup
  <2>3. Resource(x.in, x.version) =
          IF Len(p) > 1 /\ p[2] = x.version THEN SubSeq(p, 3, Len(p)) ELSE Tail(p)
    BY <1>2, Zenon DEF Resource, hasVersionPrefix
  <2> HIDE DEF p, S
  <2>4. Len(Tail(p)) = Len(p) - 1 /\ (Len(p) > 1 => Tail(p)[1] = p[2])
    BY <1>1
  <2>5. Len(p) > 1 => SubSeq(p, 3, Len(p)) = Tail(Tail(p))
    BY <1>1
  <2>6. Len(p) = 2 => Tail(Tail(p)) = << >>
    <3>1. \A q \in Seq(S) : Len(q) = 0 => q = << >>
      OBVIOUS
    <3>2. Len(p) = 2 => Tail(p) \in Seq(S) /\ Len(Tail(p)) = 1
      BY <1>1
    <3>3. \A q \in Seq(S) : Len(q) = 1 => Tail(q) \in Seq(S) /\ Len(Tail(q)) = 0
      <4>1. \A q \in Seq(S) : q # << >> => Tail(q) \in Seq(S) /\ Len(Tail(q)) = Len(q) - 1
        OBVIOUS
      <4>2. Len(<< >>) = 0 /\ 0 # 1
        OBVIOUS
      <4>3. 1 - 1 = 0
        OBVIOUS
      <4> QED
        BY <4>1, <4>2, <4>3, Zenon
    <3> QED
      BY <3>1, <3>2, <3>3, Zenon
  <2>7. CASE Len(p) > 1 /\ p[2] = x.version
    <3>1. Len(p) # 2
      BY <1>2, <2>3, <2>5, <2>6, <2>7, Zenon
    <3>2. Len(Tail(p)) > 1
      BY <1>1, <2>4, <2>7, <3>1
    <3> QED
      BY <1>2, <2>2, <2>3, <2>4, <2>5, <2>7, <3>2, Zenon
  <2>8. CASE ~(Len(p) > 1 /\ p[2] = x.version)
    <3>1. Len(Tail(p)) > 1 => Len(p) > 1
      BY <1>1, <2>4
    <3> QED
      BY <1>2, <2>2, <2>3, <2>4, <2>8, <3>1, Zenon
  <2> QED
    BY <2>7, <2>8, Zenon
<1>6. CASE x.passes = 2
  <2>1. /\ x.path = <<"api", x.version>> \o Tail(p)
        /\ ~hasVersionPrefix(p, x.version)
    BY <1>0, <1>6, Zenon DEF GoodRequest, AskedInv
  <2>2. Resource(x.in, x.version) = Tail(p) /\ Tail(p) # << >>
    BY <1>2, <2>1, Zenon DEF Resource
  <2> HIDE DEF p, S
  <2>3. x.path[1] = "api" /\ Tail(x.path) = <<x.version>> \o Tail(p)
    BY <1>1, <2>1, Prepended
  <2> DEFINE q == <<x.version>> \o Tail(p)
  <2>4. extractBasePathForLookup(x.path) =
          IF Len(q) > 1 /\ q[1] \in VLike THEN Tail(q) ELSE q
    BY <1>3, <2>3, Zenon DEF extractBasePathForLookup
  <2>5. Len(q) > 1 /\ q[1] = x.version /\ Tail(q) = Tail(p)
    BY <1>1, <2>2
  <2> QED
    BY <1>2, <2>2, <2>4, <2>5, Zenon
<1> QED
  BY <1>4, <1>5, <1>6, Zenon
\* What the registry says leaves the request good.
LEMMA LookupGood ==
  ASSUME NEW x, GoodRequest(x), x.pc = "lookup",
         NEW y, NEW c, NEW a, NEW b, b = extractBasePathForLookup(x.path),
         y = [x EXCEPT !.pc = c, !.base = b, !.answer = a],
         \/ /\ c = "rewrite" /\ a = x.answer
            /\ ~config.registry \/ MostSpecific(x.in.method, b) = {}
         \/ /\ c = "report" /\ a = x.answer
            /\ \E p \in MostSpecific(x.in.method, b) : x.version \in SupportedBy(x.in.method, p)
         \/ /\ c = "return" /\ a = "unsupported"
            /\ \E p \in MostSpecific(x.in.method, b) : x.version \notin SupportedBy(x.in.method, p)
  PROVE  GoodRequest(y)
<1>1. /\ DOMAIN y = DOMAIN x /\ y.pc = c /\ y.in = x.in /\ y.path = x.path
      /\ y.passes = x.passes /\ y.asked = x.asked /\ y.version = x.version
      /\ y.base = b /\ y.reported = x.reported /\ y.handler = x.handler
      /\ y.runs = x.runs /\ y.answer = a
  BY Zenon DEF GoodRequest
<1>2. x.runs = 0 /\ x.answer = "none" /\ x.answer # "unsupported"
  BY Zenon DEF GoodRequest, RunsInv
<1>3. PathInv(y) /\ ReadInv(y)
  BY <1>1, Zenon DEF GoodRequest, PathInv, ReadInv
<1>4. AskedInv(y)
  BY <1>1, Zenon DEF GoodRequest, AskedInv
<1>5. RunsInv(y)
  <2>1. y.runs = 0 /\ 0 # 1
    BY <1>1, <1>2
  <2> QED
    BY <1>1, <1>2, <2>1, Zenon DEF RunsInv
<1>6. SupportInv(y)
  <2>1. Clear(x.in, x.version) => b = Resource(x.in, x.version)
    BY LooksUpResource, Zenon
  <2>2. /\ x.passes = 1 => x.reported = {}
        /\ x.reported # {} /\ Clear(x.in, x.version) =>
             \E p \in MostSpecific(x.in.method, Resource(x.in, x.version)) :
                 x.reported = SupportedBy(x.in.method, p)
    BY Zenon DEF GoodRequest, SupportInv
  <2>3. CASE c = "rewrite"
    BY <1>1, <1>2, <2>1, <2>2, <2>3, Zenon DEF SupportInv
  <2>4. CASE c = "report"
    <3>1. Having(y)
      BY <1>1, <2>4, Zenon DEF Having
    <3> QED
      BY <1>1, <1>2, <2>1, <2>2, <2>4, <3>1, Zenon DEF SupportInv
  <2>5. CASE c = "return"
    BY <1>1, <1>2, <2>1, <2>2, <2>5, Zenon DEF SupportInv
  <2> QED
    BY <2>3, <2>4, <2>5, Zenon
<1> QED
  BY <1>1, <1>3, <1>4, <1>5, <1>6, Zenon DEF GoodRequest

\* The header api-supported-versions, if there is one, leaves the request good.
LEMMA ReportGood ==
  ASSUME NEW x, GoodRequest(x), x.pc = "report",
         NEW R, R = x.reported \/ \E p \in MostSpecific(x.in.method, x.base) :
                                     R = SupportedBy(x.in.method, p),
         NEW y, y = [x EXCEPT !.pc = "rewrite", !.reported = R]
  PROVE  GoodRequest(y)
<1>1. /\ DOMAIN y = DOMAIN x /\ y.pc = "rewrite" /\ y.in = x.in /\ y.path = x.path
      /\ y.passes = x.passes /\ y.asked = x.asked /\ y.version = x.version
      /\ y.base = x.base /\ y.reported = R /\ y.handler = x.handler
      /\ y.runs = x.runs /\ y.answer = x.answer
  BY Zenon DEF GoodRequest
<1>2. x.runs = 0 /\ x.answer = "none" /\ x.answer # "unsupported"
  BY Zenon DEF GoodRequest, RunsInv
<1>3. PathInv(y) /\ ReadInv(y)
  BY <1>1, Zenon DEF GoodRequest, PathInv, ReadInv
<1>4. AskedInv(y)
  BY <1>1, Zenon DEF GoodRequest, AskedInv
<1>5. RunsInv(y)
  <2>1. y.runs = 0 /\ 0 # 1
    BY <1>1, <1>2
  <2> QED
    BY <1>1, <1>2, <2>1, Zenon DEF RunsInv
<1>6. SupportInv(y)
  <2>1. y.pc # "report" /\ y.answer # "unsupported" /\ y.pc \notin {"middleware", "lookup", "report"}
    BY <1>1, <1>2, Zenon
  <2>2. Having(x) /\ (Clear(x.in, x.version) => x.base = Resource(x.in, x.version))
    BY Zenon DEF GoodRequest, SupportInv
  <2>3. Having(y)
    BY <1>1, <2>2, Zenon DEF Having
  <2>4. ASSUME R # {}, Clear(x.in, x.version)
        PROVE  \E p \in MostSpecific(x.in.method, Resource(x.in, x.version)) :
                   R = SupportedBy(x.in.method, p)
    <3>1. CASE R = x.reported
      BY <2>4, <3>1, Zenon DEF GoodRequest, SupportInv
    <3>2. CASE \E p \in MostSpecific(x.in.method, x.base) : R = SupportedBy(x.in.method, p)
      BY <2>2, <2>4, <3>2, Zenon
    <3> QED
      BY <3>1, <3>2, Zenon
  <2> QED
    BY <1>1, <2>1, <2>2, <2>3, <2>4, Zenon DEF SupportInv
<1> QED
  BY <1>1, <1>3, <1>4, <1>5, <1>6, Zenon DEF GoodRequest

\* A path that lacks its version is rewritten: a pass reads the rewritten path as settled
\* from the second on, and from the first if the path was under /api.
LEMMA RewriteGood ==
  ASSUME RoutesInv, NEW x, GoodRequest(x), x.pc = "rewrite", ~hasVersionPrefix(x.path, x.version),
         NEW n, NEW y, y = [x EXCEPT !.pc = "middleware", !.depth = n, !.passes = x.passes + 1,
                               !.path = Rewrite(x.path, x.version)]
  PROVE  GoodRequest(y)
<1> DEFINE r == Rewrite(x.path, x.version)
<1>1. /\ DOMAIN y = DOMAIN x /\ y.pc = "middleware" /\ y.in = x.in /\ y.path = r
      /\ y.passes = x.passes + 1 /\ y.asked = x.asked /\ y.version = x.version
      /\ y.base = x.base /\ y.reported = x.reported /\ y.handler = x.handler
      /\ y.runs = x.runs /\ y.answer = x.answer
  BY Zenon DEF GoodRequest
<1> HIDE DEF r
<1>2. x.runs = 0 /\ x.answer = "none" /\ x.answer # "unsupported"
  BY Zenon DEF GoodRequest, RunsInv
<1>3. /\ x.in \in Requests /\ IsPath(x.path) /\ x.path # << >>
      /\ x.version \in VersionsRead(x.in, x.path) /\ x.version \in Formatted
      /\ x.passes \in 1..3
  BY Zenon DEF GoodRequest, PathInv, ReadInv
<1>4. PICK s : r = <<"api", s>> \o Tail(x.path)
  BY Zenon DEF r, Rewrite
<1>5. IsPath(r) /\ UnderAPI(r)
  <2> DEFINE q == x.path
  <2>1. IsPath(q) /\ q # << >> /\ r = <<"api", s>> \o Tail(q)
    BY <1>3, <1>4, Zenon
  <2> HIDE DEF q
  <2> QED
    BY ONLY <2>1, Prepended, Zenon
<1>6. ASSUME UnderAPI(x.path) PROVE r = <<"api", x.version>> \o Tail(x.path) /\ Settled(x.in, r)
  <2>1. x.path[1] = "api" /\ AfterAPI["api"] = Empty
    BY <1>6, VersioningAssumption, Zenon DEF UnderAPI
  <2>2. r = <<"api", x.version>> \o Tail(x.path)
    BY <2>1, Zenon DEF r, Rewrite
  <2> QED
    BY <1>3, <1>6, <2>2, Settles, Zenon
<1>7. ~Settled(x.in, x.path)
  <2>1. x.version # Empty
    BY <1>3, VersioningAssumption, Zenon
  <2> QED
    BY <1>3, <2>1, Zenon DEF Settled, hasVersionPrefix
<1>8. x.passes \in 1..2 /\ (UnderAPI(x.in.path) => x.passes = 1)
  BY <1>3, <1>7 DEF GoodRequest, PathInv
<1>9. x.passes = 1 => x.path = x.in.path
  BY Zenon DEF GoodRequest, PathInv
<1>10. PathInv(y)
  <2>1. x.passes = 2 => UnderAPI(x.path)
    BY DEF GoodRequest, PathInv
  <2> QED
    BY <1>1, <1>3, <1>5, <1>6, <1>8, <1>9, <2>1 DEF PathInv
<1>11. ReadInv(y)
  BY <1>1, Zenon DEF ReadInv
<1>12. AskedInv(y)
  <2> SUFFICES ASSUME UnderAPI(x.in.path) PROVE AskedInv(y)
    BY <1>1, Zenon DEF AskedInv
  <2>1. x.asked = x.version /\ x.version # NoVersion
    BY <1>3, VersioningAssumption, Zenon DEF GoodRequest, AskedInv
  <2>2. x.passes = 1 /\ x.path = x.in.path
    BY <1>8, <1>9, Zenon
  <2>3. y.passes = 2 /\ y.passes # 1 /\ y.pc \notin {"lookup", "report", "rewrite"}
    BY <1>1, <2>2
  <2>4. r = <<"api", x.version>> \o Tail(x.in.path)
    BY <1>6, <2>2, Zenon
  <2> QED
    BY <1>1, <2>1, <2>2, <2>3, <2>4, Zenon DEF AskedInv
<1>13. RunsInv(y)
  <2>1. y.runs = 0 /\ 0 # 1
    BY <1>1, <1>2
  <2> QED
    BY <1>1, <1>2, <2>1, Zenon DEF RunsInv
<1>14. SupportInv(y)
  <2>1. y.passes # 1 /\ y.pc \notin {"report", "rewrite"} /\ y.answer # "unsupported"
    BY <1>1, <1>2, <1>8
  <2> QED
    BY <1>1, <2>1, Zenon DEF GoodRequest, SupportInv
<1> QED
  BY <1>1, <1>10, <1>11, <1>12, <1>13, <1>14, Zenon DEF GoodRequest
\* What gin finds: a route of the method, of the version in the path, whose pattern fits
\* what follows it.
LEMMA GinFinds ==
  ASSUME RoutesInv, NEW m, NEW path, NEW r \in GinRoutes(m, path)
  PROVE  /\ r \in routes /\ r.method = m /\ m \in Methods /\ r.version \in Versions
         /\ Len(path) >= 2 /\ path[1] = "api" /\ path[2] = r.version
         /\ matchPattern(SubSeq(path, 3, Len(path)), r.pattern)
  BY Zenon DEF GinRoutes, RoutesInv

\* The handler that runs leaves the request good: under /api it is of the version that was
\* asked for, and its pattern fits the resource.
LEMMA HandlerGood ==
  ASSUME RoutesInv, NEW x, GoodRequest(x),
         \/ x.pc = "middleware" /\ ~shouldVersionRoute(x.in, x.path)
         \/ x.pc = "rewrite" /\ hasVersionPrefix(x.path, x.version),
         NEW r \in GinRoutes(x.in.method, x.path),
         NEW y, y = [x EXCEPT !.pc = "return", !.runs = x.runs + 1, !.answer = r.version,
                        !.handler = r.pattern]
  PROVE  GoodRequest(y)
<1>1. /\ DOMAIN y = DOMAIN x /\ y.pc = "return" /\ y.in = x.in /\ y.path = x.path
      /\ y.passes = x.passes /\ y.asked = x.asked /\ y.version = x.version
      /\ y.base = x.base /\ y.reported = x.reported /\ y.handler = r.pattern
      /\ y.runs = x.runs + 1 /\ y.answer = r.version
  BY Zenon DEF GoodRequest
<1>2. x.runs = 0
  BY Zenon DEF GoodRequest, RunsInv
<1>3. /\ x.in.method \in Methods /\ r.version \in Versions /\ x.path[2] = r.version
      /\ matchPattern(SubSeq(x.path, 3, Len(x.path)), r.pattern)
  <2> DEFINE m == x.in.method
             p == x.path
  <2>1. r \in GinRoutes(m, p)
    BY Zenon
  <2> HIDE DEF m, p
  <2>2. /\ m \in Methods /\ r.version \in Versions /\ p[2] = r.version
        /\ matchPattern(SubSeq(p, 3, Len(p)), r.pattern)
    BY <2>1, GinFinds
  <2> QED
    BY <2>2, Zenon DEF m, p
<1>4. r.version # "unsupported" /\ x.in.method # "OPTIONS"
  BY <1>3, Answers, Zenon
<1>5. PathInv(y) /\ ReadInv(y)
  BY <1>1, Zenon DEF GoodRequest, PathInv, ReadInv
<1>6. AskedInv(y)
  BY <1>1, Zenon DEF GoodRequest, AskedInv
<1>7. ASSUME UnderAPI(x.in.path)
      PROVE  r.version = x.asked /\ matchPattern(Resource(x.in, x.asked), r.pattern)
  <2>1. x.path # << >> /\ x.path[1] = "api" /\ x.passes \in 1..2
    BY <1>7 DEF GoodRequest, PathInv, UnderAPI
  <2>2. shouldVersionRoute(x.in, x.path)
    <3>1. x.path # <<"health">>
      BY <2>1
    <3> QED
      BY <1>4, <2>1, <3>1, VersioningAssumption, Zenon DEF shouldVersionRoute
  <2>3. x.pc = "rewrite" /\ hasVersionPrefix(x.path, x.version)
    BY <2>2, Zenon
  <2>4. x.asked = x.version /\ r.version = x.version
    BY <1>3, <1>7, <2>3, Zenon DEF GoodRequest, AskedInv, hasVersionPrefix
  <2>5. SubSeq(x.path, 3, Len(x.path)) = Resource(x.in, x.asked)
    <3>1. CASE x.passes = 1
      <4>1. x.path = x.in.path
        BY <3>1, Zenon DEF GoodRequest, PathInv
      <4> QED
        BY <2>3, <2>4, <4>1, Zenon DEF Resource
    <3>2. CASE x.passes = 2
      <4> DEFINE p == x.in.path
      <4>1. IsPath(p) /\ p # << >>
        BY <1>7, VersioningAssumption, Zenon DEF GoodRequest, PathInv, UnderAPI, IsPath
      <4>2. x.path = <<"api", x.asked>> \o Tail(p) /\ ~hasVersionPrefix(p, x.asked)
        BY <1>7, <3>2, Zenon DEF GoodRequest, AskedInv
      <4>3. Resource(x.in, x.asked) = Tail(p)
        BY <4>2, Zenon DEF Resource
      <4> HIDE DEF p
      <4> QED
        BY <4>1, <4>2, <4>3, Prepended
    <3> QED
      BY <2>1, <3>1, <3>2
  <2> QED
    BY <1>3, <2>4, <2>5, Zenon
<1>8. RunsInv(y)
  <2>1. y.runs = 1
    BY <1>1, <1>2
  <2> QED
    BY <1>1, <1>7, <2>1, Zenon DEF RunsInv
<1>9. SupportInv(y)
  BY <1>1, <1>4, Zenon DEF GoodRequest, SupportInv
<1> QED
  BY <1>1, <1>5, <1>6, <1>8, <1>9, Zenon DEF GoodRequest

\* Either way c.Next leaves the request good.
LEMMA NextHandlerGood ==
  ASSUME RoutesInv, GoodRequest(req), NextHandler,
         \/ req.pc = "middleware" /\ ~shouldVersionRoute(req.in, req.path)
         \/ req.pc = "rewrite" /\ hasVersionPrefix(req.path, req.version)
  PROVE  GoodRequest(req')
<1>1. ASSUME NEW r \in GinRoutes(req.in.method, req.path),
             req' = [req EXCEPT !.pc = "return", !.runs = @ + 1, !.answer = r.version,
                        !.handler = r.pattern]
      PROVE  GoodRequest(req')
  BY <1>1, HandlerGood, Zenon
<1>2. ASSUME Problem("not found") PROVE GoodRequest(req')
  <2>1. "not found" # "unsupported" /\ req.pc \in {"middleware", "rewrite"}
    BY Zenon
  <2> QED
    BY <1>2, <2>1, ProblemGood, Zenon DEF Problem
<1> QED
  BY <1>1, <1>2, Zenon DEF NextHandler

\* What is good depends on the configuration and the routes, which requests leave alone.
LEMMA GoodStays ==
  ASSUME GoodRequest(req'), UNCHANGED <<config, routes>>
  PROVE  GoodRequest(req)'
<1>1. PathInv(req)'
  <2>1. Settled(req'.in, req'.path) => Settled(req.in, req.path)'
    <3>1. ReadVersion(req.in, req.path)' = ReadVersion(req'.in, req'.path)
      BY Zenon DEF ReadVersion
    <3>2. VersionsRead(req.in, req.path)' = VersionsRead(req'.in, req'.path)
      BY <3>1, Zenon DEF VersionsRead
    <3> QED
      BY <3>2, Zenon DEF Settled
  <2> QED
    BY <2>1, Zenon DEF GoodRequest, PathInv
<1>0. ReadInv(req)'
  BY Zenon DEF GoodRequest, ReadInv, VersionsRead, ReadVersion
<1>2. AskedInv(req)' /\ RunsInv(req)'
  BY Zenon DEF GoodRequest, AskedInv, RunsInv
<1>3. SupportInv(req)'
  BY Zenon DEF GoodRequest, SupportInv, Having, Clear, MostSpecific, SupportedBy
<1> QED
  BY <1>0, <1>1, <1>2, <1>3, Zenon DEF GoodRequest
-----------------------------------------------------------------------------
(* The invariant of the middleware                                         *)

\* It holds before anything is registered.
LEMMA MiddlewareInit == VersioningInit => MiddlewareInv
  <1> SUFFICES ASSUME VersioningInit PROVE MiddlewareInv
    BY Zenon
  <1>1. req.pc = "idle"
    BY Zenon DEF VersioningInit, NoRequest
  <1> QED
    BY <1>1, Zenon DEF VersioningInit, MiddlewareInv, RoutesInv

\* And every step keeps it.
LEMMA MiddlewareNext == MiddlewareInv /\ [VersioningNext]_versioningVars => MiddlewareInv'
  <1> SUFFICES ASSUME MiddlewareInv, [VersioningNext]_versioningVars PROVE MiddlewareInv'
    BY Zenon
  <1>0. RoutesInv /\ (req.pc # "idle" => GoodRequest(req))
    BY Zenon DEF MiddlewareInv
  <1>1. ASSUME GoodRequest(req'), UNCHANGED <<config, routes>> PROVE MiddlewareInv'
    <2>1. GoodRequest(req)'
      BY <1>1, GoodStays, Zenon
    <2>2. RoutesInv'
      BY <1>0, <1>1, Zenon DEF RoutesInv
    <2> QED
      BY <2>1, <2>2, Zenon DEF MiddlewareInv
  <1>2. ASSUME NEW m \in Methods, NEW p \in Patterns, NEW v \in Versions, RegisterRoute(m, p, v)
        PROVE  MiddlewareInv'
    <2>1. RoutesInv'
      BY <1>0, <1>2 DEF RegisterRoute, RoutesInv
    <2>2. req'.pc = "idle"
      BY <1>2, Zenon DEF RegisterRoute, NoRequest
    <2> QED
      BY <2>1, <2>2, Zenon DEF MiddlewareInv
  <1>3. ASSUME NEW in \in Requests, Arrive(in) PROVE MiddlewareInv'
    <2>1. GoodRequest(req')
      BY <1>0, <1>3, ArrivesGood, Zenon
    <2> QED
      BY <1>1, <1>3, <2>1, Zenon DEF Arrive
  <1>4. CASE Skip
    <2>1. req.pc = "middleware" /\ GoodRequest(req)
      BY <1>0, <1>4, Zenon DEF Skip
    <2>2. GoodRequest(req')
      BY <1>0, <1>4, <2>1, NextHandlerGood, Zenon DEF Skip
    <2> QED
      BY <1>1, <1>4, <2>2, Zenon DEF Skip
  <1>5. CASE ReadStep
    <2>1. req.pc = "middleware" /\ GoodRequest(req) /\ req.path # << >>
      BY <1>0, <1>5, Zenon DEF ReadStep, shouldVersionRoute
    <2>2. PICK read \in ReadVersion(req.in, req.path) :
              LET v == IF read \in {NoVersion, Empty} THEN config.default ELSE read
              IN  IF read = NoVersion /\ ~config.assume THEN Problem("missing")
                  ELSE IF v \notin Formatted THEN Problem("invalid")
                  ELSE req' = [req EXCEPT !.pc = "lookup", !.version = v,
                                  !.asked = IF @ = NoVersion THEN v ELSE @]
      BY <1>5, Zenon DEF ReadStep
    <2> DEFINE v == IF read \in {NoVersion, Empty} THEN config.default ELSE read
    <2>3. v \in VersionsRead(req.in, req.path)
      BY Zenon DEF VersionsRead
    <2> HIDE DEF v
    <2>4. ASSUME NEW d \in {"missing", "invalid"}, Problem(d) PROVE GoodRequest(req')
      <3>1. d # "unsupported" /\ req.pc \in {"middleware", "rewrite"}
        BY <2>1, Zenon
      <3> QED
        BY <2>1, <2>4, <3>1, ProblemGood, Zenon DEF Problem
    <2>5. ASSUME v \in Formatted,
                 req' = [req EXCEPT !.pc = "lookup", !.version = v,
                            !.asked = IF @ = NoVersion THEN v ELSE @]
          PROVE  GoodRequest(req')
      <3>1. v \in VersionsRead(req.in, req.path) \cap Formatted
        BY <2>3, <2>5, Zenon
      <3> QED
        BY <2>1, <2>5, <3>1, ReadGood, Zenon
    <2>6. GoodRequest(req')
      BY <2>2, <2>4, <2>5, Zenon DEF v
    <2> QED
      BY <1>1, <1>5, <2>6, Zenon DEF ReadStep
  <1>6. CASE LookupStep
    <2> DEFINE b == extractBasePathForLookup(req.path)
               go == [req EXCEPT !.pc = "report", !.base = b]
    <2>1. req.pc = "lookup" /\ GoodRequest(req)
      BY <1>0, <1>6, Zenon DEF LookupStep
    <2>2. \/ /\ ~config.registry \/ MostSpecific(req.in.method, b) = {}
             /\ req' = [go EXCEPT !.pc = "rewrite"]
          \/ \E p \in MostSpecific(req.in.method, b) :
                /\ req.version \in SupportedBy(req.in.method, p)
                /\ req' = go
          \/ \E p \in MostSpecific(req.in.method, b) :
                /\ req.version \notin SupportedBy(req.in.method, p)
                /\ req' = [go EXCEPT !.pc = "return", !.answer = "unsupported"]
      BY <1>6, Zenon DEF LookupStep
    <2>3. /\ [go EXCEPT !.pc = "rewrite"] =
                 [req EXCEPT !.pc = "rewrite", !.base = b, !.answer = req.answer]
          /\ go = [req EXCEPT !.pc = "report", !.base = b, !.answer = req.answer]
          /\ [go EXCEPT !.pc = "return", !.answer = "unsupported"] =
                 [req EXCEPT !.pc = "return", !.base = b, !.answer = "unsupported"]
      BY <2>1, Zenon DEF GoodRequest
    <2> HIDE DEF go
    <2>4. ASSUME ~config.registry \/ MostSpecific(req.in.method, b) = {},
                 req' = [go EXCEPT !.pc = "rewrite"]
          PROVE  GoodRequest(req')
      BY <2>1, <2>3, <2>4, LookupGood, Zenon
    <2>5. ASSUME NEW p \in MostSpecific(req.in.method, b),
                 req.version \in SupportedBy(req.in.method, p), req' = go
          PROVE  GoodRequest(req')
      BY <2>1, <2>3, <2>5, LookupGood, Zenon
    <2>6. ASSUME NEW p \in MostSpecific(req.in.method, b),
                 req.version \notin SupportedBy(req.in.method, p),
                 req' = [go EXCEPT !.pc = "return", !.answer = "unsupported"]
          PROVE  GoodRequest(req')
      BY <2>1, <2>3, <2>6, LookupGood, Zenon
    <2>7. GoodRequest(req')
      BY <2>2, <2>4, <2>5, <2>6, Zenon
    <2> QED
      BY <1>1, <1>6, <2>7, Zenon DEF LookupStep
  <1>7. CASE ReportStep
    <2>1. req.pc = "report" /\ GoodRequest(req)
      BY <1>0, <1>7, Zenon DEF ReportStep
    <2>2. ASSUME config.report PROVE GoodRequest(req')
      BY <1>7, <2>1, <2>2, ReportGood, Zenon DEF ReportStep
    <2>3. ASSUME ~config.report PROVE GoodRequest(req')
      <3>1. req' = [req EXCEPT !.pc = "rewrite", !.reported = req.reported]
        BY <1>7, <2>1, <2>3, Zenon DEF ReportStep, GoodRequest
      <3> QED
        BY <2>1, <3>1, ReportGood, Zenon
    <2>4. GoodRequest(req')
      BY <2>2, <2>3, Zenon
    <2> QED
      BY <1>1, <1>7, <2>4, Zenon DEF ReportStep
  <1>8. CASE RewriteStep
    <2>1. req.pc = "rewrite" /\ GoodRequest(req)
      BY <1>0, <1>8, Zenon DEF RewriteStep
    <2>2. ASSUME hasVersionPrefix(req.path, req.version) PROVE GoodRequest(req')
      BY <1>0, <1>8, <2>1, <2>2, NextHandlerGood, Zenon DEF RewriteStep
    <2>3. ASSUME ~hasVersionPrefix(req.path, req.version) PROVE GoodRequest(req')
      BY <1>0, <1>8, <2>1, <2>3, RewriteGood, Zenon DEF RewriteStep
    <2> QED
      BY <1>1, <1>8, <2>2, <2>3, Zenon DEF RewriteStep
  <1>9. CASE ReturnFromPass
    <2>1. req.pc = "return" /\ GoodRequest(req)
      BY <1>0, <1>9, Zenon DEF ReturnFromPass
    <2>2. GoodRequest(req')
      BY <1>9, <2>1, ReturnGood, Zenon DEF ReturnFromPass
    <2> QED
      BY <1>1, <1>9, <2>2, Zenon DEF ReturnFromPass
  <1>10. CASE UNCHANGED versioningVars
    <2>1. UNCHANGED <<config, routes>> /\ req' = req
      BY <1>10, Zenon DEF versioningVars
    <2>2. RoutesInv'
      BY <1>0, <2>1, Zenon DEF RoutesInv
    <2>3. CASE req.pc = "idle"
      BY <2>1, <2>2, <2>3, Zenon DEF MiddlewareInv
    <2>4. CASE req.pc # "idle"
      BY <1>0, <1>1, <2>1, <2>4, Zenon
    <2> QED
      BY <2>3, <2>4, Zenon
  <1> QED
    BY <1>2, <1>3, <1>4, <1>5, <1>6, <1>7, <1>8, <1>9, <1>10, Zenon DEF VersioningNext

\* The redispatches of the versioning middleware end and run one handler, the right one:
\* of the version that the request asked for and of a pattern that fits its resource. It
\* rests on VersioningAssumption: VersionFormat does not accept the empty version, which
\* hasVersionPrefix would not find in the path it was written into.
THEOREM HandlerRunsOnce == VersioningSpec => []RightHandlerOnce
  <1>1. MiddlewareInv => RightHandlerOnce
    <2> SUFFICES ASSUME MiddlewareInv, req.pc # "idle" PROVE RightHandlerOnce
      BY Zenon DEF RightHandlerOnce
    <2>1. PathInv(req) /\ RunsInv(req)
      BY Zenon DEF MiddlewareInv, GoodRequest
    <2>2. req.runs <= 1 /\ (req.runs > 0 => req.runs = 1)
      BY <2>1 DEF RunsInv
    <2>3. req.passes <= IF UnderAPI(req.in.path) THEN 2 ELSE 3
      BY <2>1 DEF PathInv
    <2> QED
      BY <2>1, <2>2, <2>3, Zenon DEF RightHandlerOnce, RunsInv
  <1> QED
    BY <1>1, MiddlewareInit, MiddlewareNext, PTL DEF VersioningSpec

\* What the registry says of a version, in whatever order its maps are walked: not refused
\* where every best pattern has it, in agreement with gin where one pattern fits best, and
\* not let through where none has it.
THEOREM SupportIsDecided == VersioningSpec => []SupportDecided
  <1>1. MiddlewareInv => SupportDecided
    <2> SUFFICES ASSUME MiddlewareInv, req.pc # "idle", Clear(req.in, req.version)
                 PROVE  SupportDecided
      BY Zenon DEF SupportDecided
    <2> DEFINE R == Resource(req.in, req.version)
               m == req.in.method
               g == <<"api", req.version>> \o R
               best == MostSpecific(m, R)
               having == {p \in best : req.version \in SupportedBy(m, p)}
    <2>1. RoutesInv /\ PathInv(req) /\ SupportInv(req)
      BY Zenon DEF MiddlewareInv, GoodRequest
    <2>2. UnderAPI(req.in.path)
      BY Zenon DEF Clear
    <2>3. req.pc = "rewrite" /\ config.registry /\ best # {} => having # {}
      BY <2>1, Zenon DEF SupportInv, Having
    <2>4. req.reported # {} => \E p \in best : req.reported = SupportedBy(m, p)
      BY <2>1, Zenon DEF SupportInv
    <2>5. ASSUME req.answer = "unsupported"
          PROVE  \E o \in best : req.version \notin SupportedBy(m, o)
      <3>1. req.base = R
        BY <2>1, <2>5, Zenon DEF SupportInv
      <3> QED
        BY <2>1, <2>5, <3>1, Zenon DEF SupportInv
    <2>6. ASSUME req.answer = "unsupported", NEW r \in GinRoutes(m, g), best = {r.pattern}
          PROVE  FALSE
      <3>2. PICK o \in best : req.version \notin SupportedBy(m, o)
        BY <2>5, <2>6, Zenon
      <3>3. o = r.pattern
        BY <2>6, <3>2, Zenon
      <3>4. r \in routes /\ r.method = m /\ r.version = g[2]
        <4> HIDE DEF m, g
        <4> QED
          BY <2>1, <2>6, GinFinds, SMTT(20)
      <3>5. g[2] = req.version
        <4> DEFINE q == req.in.path
                   S == Range(q)
        <4>1. q \in Seq(S) /\ q # << >>
          BY <2>1, <2>2, VersioningAssumption, Zenon DEF PathInv, UnderAPI
        <4>2. R = SubSeq(q, 3, Len(q)) \/ R = Tail(q)
          BY Zenon DEF Resource
        <4> HIDE DEF q, R, S
        <4>3. R \in Seq(S)
          <5>1. SubSeq(q, 3, Len(q)) \in Seq(S) /\ Tail(q) \in Seq(S)
            BY <4>1
          <5> QED
            BY <4>2, <5>1, Zenon
        <4> QED
          BY <4>3, SMTT(20)
      <3> QED
        BY <3>2, <3>3, <3>4, <3>5, Zenon DEF SupportedBy
    <2>7. req.answer = "unsupported" => having # best
      BY <2>5, Zenon
    <2> QED
      BY <2>3, <2>4, <2>6, <2>7, Zenon DEF SupportDecided
  <1> QED
    BY <1>1, MiddlewareInit, MiddlewareNext, PTL DEF VersioningSpec

-----------------------------------------------------------------------------
(* A search                                                                *)

\* The records that the steps of a search update, and what is over between two searches.
SearchShape ==
    /\ table \in Nat /\ page \in SearchRequests
    /\ caller \in {"idle", "wait"}
    /\ DOMAIN result = {"err", "rows", "vm"}
    /\ DOMAIN count = {"pc", "n", "estimated"} /\ DOMAIN sel = {"pc", "n", "estimated"}
    /\ caller = "idle" => count.pc = "end" /\ sel.pc = "end"

\* The error that the group keeps has a cause. While it keeps none, so has the error of
\* its context, and that of the exact count's unless it is the timeout.
CauseInv ==
    caller = "wait" =>
        /\ first # NoErr => first \in causes
        /\ first = NoErr =>
               /\ gerr # NoErr => gerr \in causes
               /\ cerr # NoErr => cerr \in causes \/ (cerr = "deadline" /\ page.adaptive)

\* What the goroutines found was true at some moment of the search: the count, and a first
\* page without rows.
TotalInv ==
    caller = "wait" =>
        /\ table \in seen
        /\ first = NoErr /\ count.pc = "end" /\ ~count.estimated => count.n \in seen
        /\ first = NoErr /\ sel.pc = "end" /\ sel.n = 0 /\ Number(page) = 1 => 0 \in seen

SearchInv == SearchShape /\ CauseInv /\ TotalInv /\ ErrorHasCause /\ TotalWasTrue

\* The errors are errors.
LEMMA Errors ==
    /\ NoErr # "db" /\ NoErr # "busy" /\ NoErr # "canceled" /\ NoErr # "deadline" /\ NoErr # "invalid"
  BY Zenon DEF NoErr

\* The error with which a goroutine ends is kept, or one before it: either has a cause.
LEMMA GroupKeeps ==
    ASSUME CauseInv, caller = "wait", NEW e, e # NoErr, GroupError(e),
           causes \subseteq causes', first = NoErr => e \in causes'
    PROVE  first' # NoErr /\ first' \in causes'
  BY Zenon DEF CauseInv, GroupError

\* A search of the invariant starts, and ends.
LEMMA SearchInitInv == SearchInit => SearchInv
  <1> SUFFICES ASSUME SearchInit PROVE SearchInv
    BY Zenon
  <1>1. SearchShape
    BY DEF SearchInit, SearchShape, Idle
  <1>2. caller # "wait" /\ result.err = NoErr /\ ~(searches > 0)
    BY DEF SearchInit
  <1> QED
    BY <1>1, <1>2, Zenon DEF SearchInv, CauseInv, TotalInv, ErrorHasCause, TotalWasTrue

\* While a search runs, nothing is said of its result.
LEMMA StillRunning ==
    ASSUME SearchShape', CauseInv', TotalInv', caller' = "wait"
    PROVE  SearchInv'
  BY Zenon DEF SearchInv, ErrorHasCause, TotalWasTrue

\* A step of the goroutine that counts.
LEMMA CountKeeps ==
    ASSUME SearchInv,
           \/ CountStart \/ ExactAnswers \/ Timeout
           \/ \E n \in 0..MaxRows : EstimateAnswers(n)
           \/ \E e \in {"db", "deadline", "canceled"} : ExactFails(e) \/ EstimateFails(e)
    PROVE  SearchInv'
<1>0. SearchShape /\ CauseInv /\ TotalInv
  BY Zenon DEF SearchInv
<1>1. count.pc # "end" /\ caller = "wait"
  BY <1>0, Zenon DEF SearchShape, CountStart, ExactAnswers, Timeout, EstimateAnswers, ExactFails, EstimateFails
<1>2. ASSUME CountUnchanged, NEW e, e # NoErr, CountFails(e), causes \subseteq causes',
             first = NoErr => e \in causes'
      PROVE  SearchInv'
  <2>1. caller' = "wait" /\ first' # NoErr /\ first' \in causes'
    BY <1>0, <1>1, <1>2, GroupKeeps, Zenon DEF CountUnchanged, CountFails
  <2>2. SearchShape'
    BY <1>0, <1>1, <1>2, Zenon DEF SearchShape, CountUnchanged, CountFails, Idle
  <2>3. CauseInv'
    BY <2>1, Zenon DEF CauseInv
  <2>4. TotalInv'
    BY <1>0, <1>1, <1>2, <2>1, Zenon DEF TotalInv, CountUnchanged
  <2> QED
    BY <2>1, <2>2, <2>3, <2>4, StillRunning, Zenon
<1>3. ASSUME CountUnchanged, UNCHANGED <<gerr, cerr, first>>, causes \subseteq causes',
             DOMAIN count' = {"pc", "n", "estimated"},
             count'.pc = "end" /\ ~count'.estimated => count'.n = table
      PROVE  SearchInv'
  <2>1. caller' = "wait"
    BY <1>1, <1>3, Zenon DEF CountUnchanged
  <2>2. SearchShape'
    BY <1>0, <1>3, <2>1, Zenon DEF SearchShape, CountUnchanged
  <2>3. CauseInv'
    BY <1>0, <1>1, <1>3, Zenon DEF CauseInv, CountUnchanged
  <2>4. TotalInv'
    BY <1>0, <1>1, <1>3, Zenon DEF TotalInv, CountUnchanged
  <2> QED
    BY <2>1, <2>2, <2>3, <2>4, StillRunning, Zenon
<1>4. CASE CountStart
  <2>1. CASE Busy(sel)
    BY <1>2, <1>4, <2>1, Errors, Zenon DEF CountStart
  <2>2. CASE ~Busy(sel)
    <3>1. /\ CountUnchanged /\ UNCHANGED <<gerr, cerr, first>> /\ causes \subseteq causes'
          /\ count' = [count EXCEPT !.pc = "exact"]
      BY <1>4, <2>2, Zenon DEF CountStart
    <3>2. DOMAIN count' = {"pc", "n", "estimated"} /\ count'.pc # "end"
      BY <1>0, <3>1, Zenon DEF SearchShape
    <3> QED
      BY <1>3, <3>1, <3>2, Zenon
  <2> QED
    BY <2>1, <2>2, Zenon
<1>5. CASE ExactAnswers
  <2>1. /\ CountUnchanged /\ UNCHANGED <<gerr, cerr, first>> /\ causes \subseteq causes'
        /\ count' = [pc |-> "end", n |-> table, estimated |-> FALSE]
    BY <1>5, Zenon DEF ExactAnswers, CountReturns
  <2>2. DOMAIN count' = {"pc", "n", "estimated"} /\ count'.n = table
    BY <2>1, Zenon
  <2> QED
    BY <1>3, <2>1, <2>2, Zenon
<1>6. CASE Timeout
  <2>1. caller' = "wait"
    BY <1>1, <1>6, Zenon DEF Timeout
  <2>2. SearchShape'
    BY <1>0, <1>6, SMTT(20) DEF SearchShape, Timeout
  <2>3. CauseInv'
    BY <1>0, <1>1, <1>6, Zenon DEF CauseInv, Timeout
  <2>4. TotalInv'
    BY <1>0, <1>1, <1>6, Zenon DEF TotalInv, Timeout
  <2> QED
    BY <2>1, <2>2, <2>3, <2>4, StillRunning, Zenon
<1>7. ASSUME NEW n \in 0..MaxRows, EstimateAnswers(n) PROVE SearchInv'
  <2>1. /\ CountUnchanged /\ UNCHANGED <<gerr, cerr, first>> /\ causes \subseteq causes'
        /\ count' = [pc |-> "end", n |-> n, estimated |-> TRUE]
    BY <1>7, Zenon DEF EstimateAnswers, CountReturns
  <2>2. DOMAIN count' = {"pc", "n", "estimated"} /\ count'.estimated
    BY <2>1, Zenon
  <2> QED
    BY <1>3, <2>1, <2>2, Zenon
<1>8. ASSUME NEW e \in {"db", "deadline", "canceled"}, ExactFails(e) PROVE SearchInv'
  <2>1. e # NoErr /\ e \in Fail(cerr) /\ Blame(e) /\ Judge(e) /\ CountUnchanged
    BY <1>8, Errors, Zenon DEF ExactFails
  <2>2. causes \subseteq causes' /\ (e = "db" => e \in causes')
    BY <2>1, Zenon DEF Blame
  <2>3. CASE page.adaptive /\ e = "deadline"
    <3>1. UNCHANGED <<gerr, cerr, first>> /\ count' = [count EXCEPT !.pc = "estimate"]
      BY <2>1, <2>3, Zenon DEF Judge
    <3>2. DOMAIN count' = {"pc", "n", "estimated"} /\ count'.pc # "end"
      BY <1>0, <3>1, Zenon DEF SearchShape
    <3> QED
      BY <1>3, <2>1, <2>2, <3>1, <3>2, Zenon
  <2>4. CASE ~(page.adaptive /\ e = "deadline")
    <3>1. CountFails(e)
      BY <2>1, <2>4, Zenon DEF Judge
    <3>2. first = NoErr => e \in causes'
      BY <1>0, <1>1, <2>1, <2>2, <2>4, Zenon DEF Fail, CauseInv
    <3> QED
      BY <1>2, <2>1, <2>2, <3>1, <3>2, Zenon
  <2> QED
    BY <2>3, <2>4, Zenon
<1>9. ASSUME NEW e \in {"db", "deadline", "canceled"}, EstimateFails(e) PROVE SearchInv'
  <2>1. e # NoErr /\ e \in Fail(gerr) /\ Blame(e) /\ CountFails(e) /\ CountUnchanged
    BY <1>9, Errors, Zenon DEF EstimateFails
  <2>2. causes \subseteq causes' /\ (e = "db" => e \in causes')
    BY <2>1, Zenon DEF Blame
  <2>3. first = NoErr => e \in causes'
    BY <1>0, <1>1, <2>1, <2>2, Zenon DEF Fail, CauseInv
  <2> QED
    BY <1>2, <2>1, <2>2, <2>3, Zenon
<1> QED
  BY <1>4, <1>5, <1>6, <1>7, <1>8, <1>9, Zenon

\* The size of a page is positive, and the first page begins with the first row.
LEMMA FirstPage ==
    ASSUME NEW p, p.size \in Int, NEW m \in Int
    PROVE  SizeWithMax(p, m) \in Nat \ {0} /\ (Number(p) = 1 => OffsetWithMax(p, m) = 0)
<1>1. SizeWithMax(p, m) \in Nat \ {0}
  BY PaginationAssumption DEF SizeWithMax
<1>2. Wrap(0) = 0
  BY PaginationAssumption DEF Wrap
<1>3. Number(p) = 1 => (Number(p) - 1) * SizeWithMax(p, m) = 0
  BY <1>1
<1> QED
  BY <1>1, <1>2, <1>3, Zenon DEF OffsetWithMax

\* A step of the goroutine that fetches the page.
LEMMA SelectKeeps ==
    ASSUME SearchInv,
           \/ SelectStart \/ SelectAnswers
           \/ \E e \in {"db", "deadline", "canceled"} : SelectFails(e)
    PROVE  SearchInv'
<1>0. SearchShape /\ CauseInv /\ TotalInv
  BY Zenon DEF SearchInv
<1>1. sel.pc # "end" /\ caller = "wait"
  BY <1>0, Zenon DEF SearchShape, SelectStart, SelectAnswers, SelectFails
<1>2. ASSUME SelUnchanged, NEW e, e # NoErr, sel' = Idle, GroupError(e), causes \subseteq causes',
             first = NoErr => e \in causes'
      PROVE  SearchInv'
  <2>1. caller' = "wait" /\ first' # NoErr /\ first' \in causes'
    BY <1>0, <1>1, <1>2, GroupKeeps, Zenon DEF SelUnchanged
  <2>2. SearchShape'
    BY <1>0, <1>1, <1>2, Zenon DEF SearchShape, SelUnchanged, Idle
  <2>3. CauseInv'
    BY <2>1, Zenon DEF CauseInv
  <2>4. TotalInv'
    BY <1>0, <1>1, <1>2, <2>1, Zenon DEF TotalInv, SelUnchanged
  <2> QED
    BY <2>1, <2>2, <2>3, <2>4, StillRunning, Zenon
<1>3. ASSUME SelUnchanged, UNCHANGED <<gerr, cerr, first, causes>>,
             DOMAIN sel' = {"pc", "n", "estimated"},
             sel'.pc = "end" /\ sel'.n = 0 /\ Number(page) = 1 => table = 0
      PROVE  SearchInv'
  <2>1. caller' = "wait"
    BY <1>1, <1>3, Zenon DEF SelUnchanged
  <2>2. SearchShape'
    BY <1>0, <1>3, <2>1, Zenon DEF SearchShape, SelUnchanged
  <2>3. CauseInv'
    BY <1>0, <1>1, <1>3, Zenon DEF CauseInv, SelUnchanged
  <2>4. TotalInv'
    BY <1>0, <1>1, <1>3, Zenon DEF TotalInv, SelUnchanged
  <2> QED
    BY <2>1, <2>2, <2>3, <2>4, StillRunning, Zenon
<1>4. CASE SelectStart
  <2>1. CASE Busy(count)
    BY <1>2, <1>4, <2>1, Errors, Zenon DEF SelectStart
  <2>2. CASE ~Busy(count)
    <3>1. SelUnchanged /\ UNCHANGED <<gerr, cerr, first, causes>> /\ sel' = [sel EXCEPT !.pc = "query"]
      BY <1>4, <2>2, Zenon DEF SelectStart
    <3>2. DOMAIN sel' = {"pc", "n", "estimated"} /\ sel'.pc # "end"
      BY <1>0, <3>1, Zenon DEF SearchShape
    <3> QED
      BY <1>3, <3>1, <3>2, Zenon
  <2> QED
    BY <2>1, <2>2, Zenon
<1>5. CASE SelectAnswers
  <2>1. /\ SelUnchanged /\ UNCHANGED <<gerr, cerr, first, causes>>
        /\ sel' = [Idle EXCEPT !.n = RowsOnPage(page, table, MaxPageSize)]
    BY <1>5, Zenon DEF SelectAnswers
  <2>2. DOMAIN sel' = {"pc", "n", "estimated"} /\ sel'.n = RowsOnPage(page, table, MaxPageSize)
    BY <2>1, Zenon DEF Idle
  <2>3. SizeWithMax(page, MaxPageSize) \in Nat \ {0}
        /\ (Number(page) = 1 => OffsetWithMax(page, MaxPageSize) = 0)
    BY <1>0, FirstPage, SearcherAssumption, Zenon DEF SearchShape
  <2>4. RowsOnPage(page, table, MaxPageSize) = 0 /\ Number(page) = 1 => table = 0
    BY <1>0, <2>3 DEF RowsOnPage, SearchShape
  <2> QED
    BY <1>3, <2>1, <2>2, <2>4, Zenon
<1>6. ASSUME NEW e \in {"db", "deadline", "canceled"}, SelectFails(e) PROVE SearchInv'
  <2>1. e # NoErr /\ e \in Fail(gerr) /\ Blame(e) /\ sel' = Idle /\ GroupError(e) /\ SelUnchanged
    BY <1>6, Errors, Zenon DEF SelectFails
  <2>2. causes \subseteq causes' /\ (e = "db" => e \in causes')
    BY <2>1, Zenon DEF Blame
  <2>3. first = NoErr => e \in causes'
    BY <1>0, <1>1, <2>1, <2>2, Zenon DEF Fail, CauseInv
  <2> QED
    BY <1>2, <2>1, <2>2, <2>3, Zenon
<1> QED
  BY <1>4, <1>5, <1>6, Zenon

\* What Search returns: an error of the group, or a total that is an estimate or was true.
LEMMA ReturnKeeps ==
    ASSUME SearchInv, SearchReturns
    PROVE  SearchInv'
<1> DEFINE c == CorrectEmptyFirstPage(count, page, sliceLen(page, sel.n))
<1>0. SearchShape /\ CauseInv /\ TotalInv
  BY Zenon DEF SearchInv
<1>1. /\ caller = "wait" /\ count.pc = "end" /\ sel.pc = "end" /\ caller' = "idle"
      /\ UNCHANGED <<table, page, gerr, cerr, count, sel, first, causes, seen, searches>>
      /\ result' = IF first # NoErr THEN [result EXCEPT !.err = first]
                   ELSE [err |-> NoErr, rows |-> sel.n,
                         vm |-> NewPagedViewModel(page, c.n, c.estimated, MaxPageSize)]
  BY Zenon DEF SearchReturns, Wait
<1>2. first = NoErr /\ ~c.estimated => c.n \in seen
  <2> SUFFICES ASSUME first = NoErr, ~c.estimated PROVE c.n \in seen
    BY Zenon
  <2>1. CASE count.estimated /\ Number(page) = 1 /\ sliceLen(page, sel.n) = 0
    <3>1. c = [count EXCEPT !.n = 0, !.estimated = FALSE]
      BY <2>1, Zenon DEF CorrectEmptyFirstPage
    <3>2. c.n = 0
      BY <1>0, <3>1, Zenon DEF SearchShape
    <3>3. sel.n = 0
      BY <2>1 DEF sliceLen
    <3> QED
      BY <1>0, <1>1, <2>1, <3>2, <3>3, Zenon DEF TotalInv
  <2>2. CASE ~(count.estimated /\ Number(page) = 1 /\ sliceLen(page, sel.n) = 0)
    <3>1. c = count
      BY <2>2, Zenon DEF CorrectEmptyFirstPage
    <3> QED
      BY <1>0, <1>1, <3>1, Zenon DEF TotalInv
  <2> QED
    BY <2>1, <2>2, Zenon
<1> HIDE DEF c
<1>3. SearchShape'
  BY <1>0, <1>1, Zenon DEF SearchShape
<1>4. CauseInv' /\ TotalInv'
  BY <1>1, Zenon DEF CauseInv, TotalInv
<1>5. CASE first # NoErr
  <2>1. result'.err = first
    BY <1>0, <1>1, <1>5, Zenon DEF SearchShape
  <2>2. ErrorHasCause' /\ TotalWasTrue'
    BY <1>0, <1>1, <1>5, <2>1 DEF CauseInv, ErrorHasCause, TotalWasTrue
  <2> QED
    BY <1>3, <1>4, <2>2, Zenon DEF SearchInv
<1>6. CASE first = NoErr
  <2>1. result'.err = NoErr /\ result'.vm = NewPagedViewModel(page, c.n, c.estimated, MaxPageSize)
    BY <1>1, <1>6, SMTT(20)
  <2>2. result'.vm.total = c.n /\ result'.vm.estimated = c.estimated
    BY <2>1 DEF NewPagedViewModel
  <2>3. ErrorHasCause' /\ TotalWasTrue'
    BY <1>1, <1>2, <1>6, <2>1, <2>2, Zenon DEF ErrorHasCause, TotalWasTrue
  <2> QED
    BY <1>3, <1>4, <2>3, Zenon DEF SearchInv
<1> QED
  BY <1>5, <1>6, Zenon

\* And every other step.
LEMMA SearchNextInv == SearchInv /\ [SearchNext]_searchVars => SearchInv'
  <1> SUFFICES ASSUME SearchInv, [SearchNext]_searchVars PROVE SearchInv'
    BY Zenon
  <1>0. SearchShape /\ CauseInv /\ TotalInv /\ ErrorHasCause /\ TotalWasTrue
    BY Zenon DEF SearchInv
  <1>1. CASE SearchRejected
    <2>1. caller = "idle" /\ caller' = "idle" /\ causes' = {"invalid"} /\ result'.err = "invalid"
      BY <1>0, <1>1, Zenon DEF SearchRejected, SearchShape
    <2>2. SearchShape'
      BY <1>0, <1>1, SMTT(20) DEF SearchRejected, SearchShape
    <2>3. CauseInv' /\ TotalInv' /\ ErrorHasCause' /\ TotalWasTrue'
      BY <2>1, Errors, Zenon DEF CauseInv, TotalInv, ErrorHasCause, TotalWasTrue
    <2> QED
      BY <2>2, <2>3, Zenon DEF SearchInv
  <1>2. ASSUME NEW p \in SearchRequests, Search(p) PROVE SearchInv'
    <2>1. caller' = "wait"
      BY <1>2, Zenon DEF Search
    <2>2. SearchShape'
      BY <1>0, <1>2, Zenon DEF Search, SearchShape, Idle
    <2>3. CauseInv'
      BY <1>2, Zenon DEF Search, CauseInv
    <2>4. TotalInv'
      BY <1>2, Zenon DEF Search, TotalInv, Idle
    <2> QED
      BY <2>1, <2>2, <2>3, <2>4, StillRunning, Zenon
  <1>3. ASSUME NEW e \in {"canceled", "deadline"}, CallerEnds(e) PROVE SearchInv'
    <2>1. caller = "wait" /\ caller' = "wait"
      BY <1>3, Zenon DEF CallerEnds
    <2>2. SearchShape'
      BY <1>0, <1>3, Zenon DEF CallerEnds, SearchShape
    <2>3. CauseInv'
      BY <1>0, <1>3, Zenon DEF CallerEnds, CauseInv, Cancel
    <2>4. TotalInv'
      BY <1>0, <1>3, Zenon DEF CallerEnds, TotalInv
    <2> QED
      BY <2>1, <2>2, <2>3, <2>4, StillRunning, Zenon
  <1>4. ASSUME NEW n \in 0..MaxRows, TableChanges(n) PROVE SearchInv'
    <2>1. caller = "wait" /\ caller' = "wait"
      BY <1>4, Zenon DEF TableChanges
    <2>2. SearchShape'
      BY <1>0, <1>4 DEF TableChanges, SearchShape
    <2>3. CauseInv'
      BY <1>0, <1>4, Zenon DEF TableChanges, CauseInv
    <2>4. TotalInv'
      BY <1>0, <1>4, Zenon DEF TableChanges, TotalInv
    <2> QED
      BY <2>1, <2>2, <2>3, <2>4, StillRunning, Zenon
  <1>5. CASE UNCHANGED searchVars
    <2>1. SearchShape' /\ CauseInv'
      BY <1>0, <1>5, SMTT(20) DEF searchVars, SearchShape, CauseInv
    <2>2. TotalInv' /\ ErrorHasCause' /\ TotalWasTrue'
      BY <1>0, <1>5, Zenon DEF searchVars, TotalInv, ErrorHasCause, TotalWasTrue
    <2> QED
      BY <2>1, <2>2, Zenon DEF SearchInv
  <1> QED
    BY <1>1, <1>2, <1>3, <1>4, <1>5, CountKeeps, SelectKeeps, ReturnKeeps, Zenon
       DEF SearchNext, Failing

\* Search returns no error that did not happen to it: not the cancellation with which the
\* errgroup stops the other goroutine, and not the timeout of the exact count.
THEOREM ErrorsHaveCauses == SearchSpec => []ErrorHasCause
  <1>1. SearchInv => ErrorHasCause
    BY Zenon DEF SearchInv
  <1> QED
    BY <1>1, SearchInitInv, SearchNextInv, PTL DEF SearchSpec

\* A total that Search does not mark as an estimate was the number of rows at some moment
\* of the search.
THEOREM TotalsWereTrue == SearchSpec => []TotalWasTrue
  <1>1. SearchInv => TotalWasTrue
    BY Zenon DEF SearchInv
  <1> QED
    BY <1>1, SearchInitInv, SearchNextInv, PTL DEF SearchSpec

-----------------------------------------------------------------------------
(* Paging                                                                  *)

\* An operation whose result an int holds does not overflow.
LEMMA NoOverflow ==
    ASSUME NEW n \in Nat, n <= MaxInt
    PROVE  Wrap(n) = n
  BY PaginationAssumption DEF Wrap, MaxInt

\* A division rounds down.
LEMMA RoundsDown ==
    ASSUME NEW a \in Nat, NEW s \in Nat \ {0}
    PROVE  (a \div s) \in Nat /\ (a \div s) * s <= a /\ a < (a \div s) * s + s
  OBVIOUS

\* Where the sum in TotalPages does not overflow, there is a next page if and only if there
\* are rows behind this one.
LEMMA NextPage ==
    ASSUME NEW p, p.size \in Int, p.number \in Int, NEW m \in Int, NEW t \in Nat,
           t + SizeWithMax(p, m) <= MaxInt
    PROVE  /\ SizeWithMax(p, m) \in Nat \ {0} /\ Number(p) \in Nat \ {0}
           /\ Number(p) < TotalPagesWithMax(p, t, m) <=> Number(p) * SizeWithMax(p, m) < t
<1> DEFINE S == SizeWithMax(p, m)
           N == Number(p)
           q == (t + S - 1) \div S
<1>1. S \in Nat \ {0} /\ N \in Nat \ {0}
  BY FirstPage DEF Number
<1>2. CASE t = 0
  <2>1. TotalPagesWithMax(p, t, m) = 0
    BY <1>2 DEF TotalPagesWithMax
  <2> HIDE DEF S, N
  <2>2. ~(N < 0) /\ ~(N * S < 0)
    BY <1>1
  <2> QED
    BY <1>1, <1>2, <2>1, <2>2, Zenon DEF S, N
<1>3. CASE t > 0
  <2> HIDE DEF S, N
  <2>1. t + S <= MaxInt /\ t + S \in Nat /\ t + S - 1 \in Nat /\ t + S - 1 <= MaxInt
    BY <1>1, <1>3, PaginationAssumption DEF S, MaxInt
  <2>2. Wrap(Wrap(t + S) - 1) = t + S - 1
    <3>1. Wrap(t + S) = t + S /\ Wrap(t + S - 1) = t + S - 1
      BY <2>1, NoOverflow, Zenon
    <3> QED
      BY <1>1, <3>1
  <2>3. Quotient(t + S - 1, S) = q
    BY <2>1 DEF Quotient
  <2>4. TotalPagesWithMax(p, t, m) = q
    BY <1>3, <2>2, <2>3 DEF TotalPagesWithMax, S
  <2>5. q \in Nat /\ q * S <= t + S - 1 /\ t + S - 1 < q * S + S
    BY <1>1, <2>1, RoundsDown, Zenon
  <2> HIDE DEF q
  <2>6. N < q <=> N * S < t
    BY <1>1, <2>5
  <2> QED
    BY <1>1, <2>4, <2>6, Zenon DEF S, N
<1> QED
  BY <1>2, <1>3

\* The numbers behind b, to e.
Numbers(b, e) == [i \in 1..(e - b) |-> b + i]

\* Two runs of numbers, the second behind the first.
LEMMA Joined ==
    ASSUME NEW b \in Nat, NEW o \in Nat, NEW e \in Nat, b <= o, o <= e
    PROVE  Numbers(b, o) \o Numbers(o, e) = Numbers(b, e)
<1> DEFINE k == o - b
           l == e - o
           n == e - b
           f == [i \in 1..k |-> b + i]
           g == [i \in 1..l |-> o + i]
           h == [i \in 1..n |-> b + i]
<1>0. k \in Nat /\ l \in Nat /\ n = k + l /\ o = b + k
  OBVIOUS
<1> HIDE DEF k, l, n
<1>1. f \in Seq(Int) /\ Len(f) = k /\ g \in Seq(Int) /\ Len(g) = l
  BY <1>0
<1>2. h \in Seq(Int) /\ Len(h) = n
  BY <1>0
<1>3. \A i \in 1..k : f[i] = b + i
  BY Zenon
<1>4. \A i \in 1..l : g[i] = o + i
  BY Zenon
<1>5. \A i \in 1..n : h[i] = b + i
  BY Zenon
<1> HIDE DEF f, g, h
<1>6. f \o g \in Seq(Int) /\ Len(f \o g) = n
  <2>1. f \o g \in Seq(Int) /\ Len(f \o g) = k + l
    BY <1>1, SMTT(20)
  <2> QED
    BY <1>0, <2>1, Zenon
<1>7. \A i \in 1..n : (f \o g)[i] = h[i]
  <2> SUFFICES ASSUME NEW i \in 1..n PROVE (f \o g)[i] = h[i]
    BY Zenon
  <2>1. CASE i <= k
    <3>1. i \in 1..k /\ (f \o g)[i] = f[i]
      BY <1>0, <1>1, <2>1
    <3> QED
      BY <1>3, <1>5, <3>1, Zenon
  <2>2. CASE ~(i <= k)
    <3>1. i - k \in 1..l /\ (f \o g)[i] = g[i - k] /\ o + (i - k) = b + i
      BY <1>0, <1>1, <2>2
    <3>2. g[i - k] = o + (i - k)
      BY <1>4, <3>1, Zenon
    <3> QED
      BY <1>5, <3>1, <3>2, Zenon
  <2> QED
    BY <2>1, <2>2, Zenon
<1>8. f \o g = h
  <2>1. \A s \in Seq(Int) : s = [i \in 1..Len(s) |-> s[i]]
    OBVIOUS
  <2>2. f \o g = [i \in 1..n |-> (f \o g)[i]] /\ h = [i \in 1..n |-> h[i]]
    BY <1>2, <1>6, <2>1, Zenon
  <2> QED
    BY <1>7, <2>2, Zenon
<1> QED
  BY <1>8, Zenon DEF f, g, h, k, l, n, Numbers

\* The rows of a page are those from its offset to its end, and there is one if there are
\* rows behind the offset.
LEMMA PageRows ==
    ASSUME NEW p, NEW m \in Int, NEW t \in Nat, NEW N \in Nat \ {0}, NEW S \in Nat \ {0},
           N = Number(p), S = SizeWithMax(p, m), (N - 1) * S <= MaxInt
    PROVE  /\ [i \in 1..RowsOnPage(p, t, m) |-> OffsetWithMax(p, m) + i]
                  = Numbers((N - 1) * S, IF N * S < t THEN N * S ELSE t)
           /\ (N - 1) * S < t => 1 \in 1..RowsOnPage(p, t, m)
<1> DEFINE O == (N - 1) * S
           E == IF N * S < t THEN N * S ELSE t
           k == RowsOnPage(p, t, m)
<1>1. O \in Nat /\ N * S = O + S
  OBVIOUS
<1>2. OffsetWithMax(p, m) = O
  BY <1>1, NoOverflow, Zenon DEF OffsetWithMax
<1>3. k = IF t - O <= 0 THEN 0 ELSE IF t - O < S THEN t - O ELSE S
  BY <1>2, Zenon DEF RowsOnPage
<1>4. E = IF O + S < t THEN O + S ELSE t
  BY <1>1, Zenon
<1> HIDE DEF O, E, k
<1>5. k \in Nat /\ (O < t => k = E - O /\ k > 0)
  BY <1>1, <1>3, <1>4
<1>6. 1..k = 1..(E - O)
  <2>1. CASE O < t
    BY <1>5, <2>1, Zenon
  <2>2. CASE ~(O < t)
    <3>1. k < 1 /\ E - O \in Int /\ E - O < 1
      BY <1>1, <1>3, <1>4, <2>2
    <3>2. 1..k = {} /\ 1..(E - O) = {}
      BY <1>5, <3>1
    <3> QED
      BY <3>2, Zenon
  <2> QED
    BY <2>1, <2>2, Zenon
<1>7. [i \in 1..k |-> OffsetWithMax(p, m) + i] = Numbers(O, E)
  BY <1>2, <1>6, Zenon DEF Numbers
<1>8. O < t => 1 \in 1..k
  BY <1>5
<1> QED
  BY <1>7, <1>8, Zenon DEF O, E, k

\* A page of the invariant: the envelope is that of the page, its offset does not overflow,
\* and a page that was reached along has_next_page has rows.
PageInv ==
    /\ max \in Maxes /\ DOMAIN asked = {"size", "number"}
    /\ asked.size \in Sizes /\ asked.number \in Int
    /\ total \in Nat /\ total + SizeWithMax(asked, max) <= MaxInt
    /\ vm = NewPagedViewModel(asked, total, FALSE, max)
    /\ start \in Nat \ {0} /\ start <= Number(asked)
    /\ (Number(asked) - 1) * SizeWithMax(asked, max) <= MaxInt
    /\ Number(asked) > start => (Number(asked) - 1) * SizeWithMax(asked, max) < total

PagesInv == PageInv /\ PagesTile

\* The rows from the start of page b to the end of page n.
Tiled(b, n, size, t) == Numbers((b - 1) * size, IF n * size < t THEN n * size ELSE t)

\* What the tiling says of a page.
LEMMA TileOfPage ==
    ASSUME PageInv
    PROVE  PagesTile <=> rows = Tiled(start, Number(asked), SizeWithMax(asked, max), total)
<1> DEFINE S == SizeWithMax(asked, max)
           N == Number(asked)
           end == IF N * S < total THEN N * S ELSE total
<1>1. S \in Nat \ {0} /\ N \in Nat \ {0} /\ (N < TotalPagesWithMax(asked, total, max) <=> N * S < total)
  BY NextPage, PagesAssumption, SMTT(20) DEF PageInv
<1>2. vm.size = S /\ vm.number = N /\ (vm.hasNext <=> N * S < total)
  BY <1>1, Zenon DEF PageInv, NewPagedViewModel
<1>3. (IF vm.hasNext THEN vm.number * vm.size ELSE total) = end
  BY <1>2, Zenon
<1>4. end <= total
  BY <1>1 DEF PageInv
<1>5. N > start => Delivered(asked) # << >>
  <2> SUFFICES ASSUME N > start PROVE Delivered(asked) # << >>
    BY Zenon
  <2>1. 1 \in 1..RowsOnPage(asked, total, max)
    BY <1>1, PageRows, PagesAssumption, Zenon DEF PageInv
  <2>2. DOMAIN Delivered(asked) = 1..RowsOnPage(asked, total, max)
    BY Zenon DEF Delivered
  <2>3. 1 \in DOMAIN Delivered(asked)
    BY <2>1, <2>2, Zenon
  <2> QED
    BY <2>3
<1>6. PagesTile <=> rows = [i \in 1..(end - (start - 1) * S) |-> (start - 1) * S + i]
  BY <1>2, <1>3, <1>4, <1>5, Zenon DEF PagesTile
<1> QED
  BY <1>6, Zenon DEF Tiled, Numbers

\* A page behind the pages before it.
LEMMA PageBehind ==
    ASSUME NEW t \in Nat, NEW N \in Nat \ {0}, NEW S \in Nat \ {0}, NEW b \in Nat \ {0}, b <= N,
           N * S < t
    PROVE  Tiled(b, N, S, t) \o Tiled(N + 1, N + 1, S, t) = Tiled(b, N + 1, S, t)
<1> DEFINE B == (b - 1) * S
           O == N * S
           E == IF (N + 1) * S < t THEN (N + 1) * S ELSE t
<1>1. B \in Nat /\ O \in Nat /\ B <= O /\ E \in Nat /\ O <= E
  OBVIOUS
<1>2. Tiled(b, N, S, t) = Numbers(B, O)
  BY Zenon DEF Tiled
<1>3. Tiled(N + 1, N + 1, S, t) = Numbers(O, E)
  <2>1. (N + 1 - 1) * S = N * S
    OBVIOUS
  <2> QED
    BY <2>1 DEF Tiled
<1>4. Tiled(b, N + 1, S, t) = Numbers(B, E)
  BY Zenon DEF Tiled
<1> HIDE DEF B, O, E
<1>5. Numbers(B, O) \o Numbers(O, E) = Numbers(B, E)
  BY <1>1, Joined, Zenon
<1> QED
  BY <1>2, <1>3, <1>4, <1>5, Zenon

\* The client's first page.
LEMMA PagesInitInv == PagesInit => PagesInv
  <1> SUFFICES ASSUME PagesInit PROVE PagesInv
    BY Zenon
  <1> DEFINE S == SizeWithMax(asked, max)
  <1>1. PICK s \in Sizes : /\ total \in 0..(MaxInt - SizeWithMax([size |-> s, number |-> 1], max))
                           /\ asked = [size |-> s, number |-> 0]
    BY Zenon DEF PagesInit
  <1>2. /\ max \in Maxes /\ max \in Int /\ DOMAIN asked = {"size", "number"}
        /\ asked.size = s /\ s \in Int /\ asked.number = 0 /\ start = 1
    BY <1>1, PagesAssumption, Zenon DEF PagesInit
  <1>3. SizeWithMax([size |-> s, number |-> 1], max) = S /\ S \in Nat \ {0}
    BY <1>2, FirstPage, Zenon DEF SizeWithMax
  <1>4. Number(asked) = 1
    BY <1>2 DEF Number
  <1>5. total \in Nat /\ total + S <= MaxInt
    BY <1>1, <1>3, PaginationAssumption DEF MaxInt
  <1>6. (Number(asked) - 1) * S <= MaxInt
    BY <1>3, <1>4, PaginationAssumption, SMTT(20) DEF MaxInt
  <1>7. PageInv
    BY <1>2, <1>4, <1>5, <1>6 DEF PagesInit, PageInv
  <1>8. Delivered(asked) = Tiled(1, 1, S, total)
    <2>1. ASSUME NEW M \in Nat \ {0}, M = Number(asked), (M - 1) * S <= MaxInt
          PROVE  [i \in 1..RowsOnPage(asked, total, max) |-> OffsetWithMax(asked, max) + i]
                     = Numbers((M - 1) * S, IF M * S < total THEN M * S ELSE total)
      <3>1. /\ max \in Int /\ total \in Nat /\ S \in Nat \ {0} /\ S = SizeWithMax(asked, max)
            /\ M = Number(asked) /\ (M - 1) * S <= MaxInt
        BY <1>2, <1>3, <1>5, <2>1, Zenon
      <3> HIDE DEF S
      <3> QED
        BY <3>1, PageRows
    <2>2. 1 \in Nat \ {0} /\ 1 = Number(asked) /\ (1 - 1) * S <= MaxInt
      BY <1>4, <1>6
    <2> QED
      BY <2>1, <2>2, Zenon DEF Delivered, Tiled
  <1> QED
    BY <1>2, <1>4, <1>7, <1>8, TileOfPage, Zenon DEF PagesInit, PagesInv

\* Every page keeps the tiling.
LEMMA PagesNextInv == PagesInv /\ [PagesNext]_pagesVars => PagesInv'
  <1> SUFFICES ASSUME PagesInv, [PagesNext]_pagesVars PROVE PagesInv'
    BY Zenon
  <1> DEFINE S == SizeWithMax(asked, max)
             N == Number(asked)
  <1>1. PageInv /\ PagesTile /\ rows = Tiled(start, N, S, total)
    BY TileOfPage, Zenon DEF PagesInv
  <1>2. /\ S \in Nat \ {0} /\ N \in Nat \ {0} /\ max \in Int
        /\ vm.number = N /\ (vm.hasNext <=> N * S < total)
    BY <1>1, NextPage, PagesAssumption, Zenon DEF PageInv, NewPagedViewModel
  \* What another page of the same size needs.
  <1>3. ASSUME NEW n \in Int, Fetch([asked EXCEPT !.number = n]), UNCHANGED <<max, total>>,
               start' \in Nat \ {0}, start' <= Number(asked'), (Number(asked') - 1) * S <= MaxInt,
               Number(asked') > start' => (Number(asked') - 1) * S < total,
               rows' = Tiled(start', Number(asked'), S, total)
        PROVE  PagesInv'
    <2>1. /\ DOMAIN asked' = {"size", "number"} /\ asked'.size = asked.size /\ asked'.number = n
      BY <1>1, <1>3, Zenon DEF Fetch, PageInv
    <2>2. SizeWithMax(asked', max) = S
      BY <2>1, Zenon DEF SizeWithMax
    <2>3. PageInv'
      BY <1>1, <1>3, <2>1, <2>2, Zenon DEF PageInv, Fetch
    <2>4. (rows = Tiled(start, Number(asked), SizeWithMax(asked, max), total))'
      BY <1>3, <2>2, Zenon
    <2>5. (PageInv => (PagesTile <=> rows = Tiled(start, Number(asked), SizeWithMax(asked, max), total)))'
      BY TileOfPage, PTL
    <2> QED
      BY <2>3, <2>4, <2>5, Zenon DEF PagesInv
  \* And its rows.
  <1>4. ASSUME NEW n \in Int, asked' = [asked EXCEPT !.number = n], NEW M \in Nat \ {0},
               M = Number(asked'), (M - 1) * S <= MaxInt
        PROVE  Delivered(asked') = Tiled(M, M, S, total)
    <2>1. asked'.size = asked.size
      BY <1>1, <1>4, Zenon DEF PageInv
    <2>2. SizeWithMax(asked', max) = S
      BY <2>1, SMTT(20) DEF SizeWithMax
    <2>3. [i \in 1..RowsOnPage(asked', total, max) |-> OffsetWithMax(asked', max) + i]
              = Numbers((M - 1) * S, IF M * S < total THEN M * S ELSE total)
      <3>1. /\ max \in Int /\ total \in Nat /\ S \in Nat \ {0} /\ S = SizeWithMax(asked', max)
            /\ M = Number(asked') /\ (M - 1) * S <= MaxInt
        BY <1>1, <1>2, <1>4, <2>2, Zenon DEF PageInv
      <3> HIDE DEF S
      <3> QED
        BY <3>1, PageRows
    <2> QED
      BY <2>3, Zenon DEF Delivered, Tiled
  <1>5. CASE FollowNext
    <2>1. /\ N * S < total /\ UNCHANGED <<max, total, start>>
          /\ Fetch([asked EXCEPT !.number = N + 1]) /\ asked' = [asked EXCEPT !.number = N + 1]
          /\ rows' = rows \o Delivered(asked')
      BY <1>2, <1>5, Zenon DEF FollowNext, Fetch
    <2>2. asked'.number = N + 1
      BY <1>1, <2>1, Zenon DEF PageInv
    <2>3. Number(asked') = N + 1
      BY <1>2, <2>2 DEF Number
    <2>4. total \in Nat /\ total + S <= MaxInt /\ start \in Nat \ {0} /\ start <= N
      BY <1>1, Zenon DEF PageInv
    <2> HIDE DEF S, N
    <2>5. /\ N + 1 \in Nat \ {0} /\ N + 1 \in Int /\ (N + 1) - 1 = N /\ start <= N + 1
          /\ N * S \in Nat /\ N * S <= MaxInt
      <3> DEFINE O == N * S
      <3>1. O \in Nat /\ MaxInt \in Int
        BY <1>2, PaginationAssumption DEF MaxInt
      <3>2. O < total
        BY <2>1, Zenon
      <3> HIDE DEF O
      <3>3. O <= MaxInt
        BY <1>2, <2>4, <3>1, <3>2
      <3>4. N + 1 \in Nat \ {0} /\ N + 1 \in Int /\ (N + 1) - 1 = N /\ start <= N + 1
        BY <1>2, <2>4
      <3> QED
        BY <3>1, <3>3, <3>4, Zenon DEF O
    <2>6. (Number(asked') - 1) * S = N * S
      BY <2>3, <2>5, Zenon
    <2>7. Delivered(asked') = Tiled(N + 1, N + 1, S, total)
      BY <1>4, <2>1, <2>3, <2>5, <2>6, Zenon
    <2>8. Tiled(start, N, S, total) \o Tiled(N + 1, N + 1, S, total) = Tiled(start, N + 1, S, total)
      BY <1>2, <2>1, <2>4, PageBehind, Zenon
    <2>9. rows' = Tiled(start, N + 1, S, total)
      BY <1>1, <2>1, <2>7, <2>8, Zenon
    <2> QED
      BY <1>3, <2>1, <2>3, <2>4, <2>5, <2>6, <2>9, Zenon
  <1>6. ASSUME NEW n \in Jumps, Jump(n) PROVE PagesInv'
    <2>1. /\ n \in Int /\ UNCHANGED <<max, total>>
          /\ Fetch([asked EXCEPT !.number = n]) /\ asked' = [asked EXCEPT !.number = n]
          /\ start' = Number(asked') /\ rows' = Delivered(asked')
      BY <1>6, PagesAssumption, Zenon DEF Jump, Fetch
    <2>2. asked'.number = n
      BY <1>1, <2>1, Zenon DEF PageInv
    <2>3. Number(asked') \in Nat \ {0}
      BY <2>1, <2>2 DEF Number
    <2>4. (Number(asked') - 1) * S <= MaxInt
      <3> DEFINE p == [size |-> asked.size, number |-> n]
      <3>1. Number(p) = Number(asked') /\ SizeWithMax(p, max) = S
        BY <2>2, Zenon DEF Number, SizeWithMax
      <3>2. (Number(p) - 1) * SizeWithMax(p, max) <= MaxInt
        BY <1>1, PagesAssumption, Zenon DEF PageInv
      <3> QED
        BY <3>1, <3>2, Zenon
    <2> HIDE DEF S, N
    <2>5. Delivered(asked') = Tiled(Number(asked'), Number(asked'), S, total)
      BY <1>4, <2>1, <2>3, <2>4, Zenon
    <2>6. start' <= Number(asked') /\ ~(Number(asked') > start')
      BY <2>1, <2>3
    <2> QED
      BY <1>3, <2>1, <2>3, <2>4, <2>5, <2>6, Zenon
  <1>7. CASE UNCHANGED pagesVars
    <2>1. PageInv' /\ PagesTile'
      BY <1>1, <1>7, Zenon DEF pagesVars, PageInv, PagesTile, Delivered
    <2> QED
      BY <2>1, SMTT(20) DEF PagesInv
  <1> QED
    BY <1>5, <1>6, <1>7, Zenon DEF PagesNext

\* A client that follows has_next_page gets every row from the start of its first page on,
\* once and in order, no empty page, and stops with the last row.
THEOREM PagesTileTheResult == PagesSpec => []PagesTile
  <1>1. PagesInv => PagesTile
    BY Zenon DEF PagesInv
  <1> QED
    BY <1>1, PagesInitInv, PagesNextInv, PTL DEF PagesSpec

=============================================================================
