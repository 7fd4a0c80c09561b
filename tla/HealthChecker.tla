-------------------------------- MODULE HealthChecker --------------------------------
(***************************************************************************)
(* The health checker: runs of all registered checks, each check in a      *)
(* goroutine of its own, while checks are registered and the probed         *)
(* services change. A check is its kind; a service has a state per name.    *)
(***************************************************************************)
CONSTANTS
    Names,   \* of checks
    Runs,    \* concurrent calls of Run
    Absent,  \* no check, no entry
    Calls    \* the calls of Run, at most one run each

Kinds == {"database", "redis", "bus"}

\* What a probe meets: "nil" is a check without pool, client or connection; "hung" does not
\* answer; "pressed" answers, with more than 80% of the connections of a pool in use.
Services == {"nil", "up", "slow", "pressed", "down", "hung"}

Statuses == {"Healthy", "Degraded", "Unhealthy"}

ASSUME AbsentAssumption == Absent \notin Kinds \cup Statuses

VARIABLES
    checks,    \* the registered checks: their kinds
    service,   \* the states of the probed services
    pc,        \* a run: "idle", "wait"
    ctxDone,   \* its context is done
    snapshot,  \* its copy of checks
    goroutine, \* its goroutines: "none", "probe", "lock" or "end"
    found,     \* what their checks returned
    entries,   \* its entries
    overall,   \* its overallStatus
    calls

vars == <<checks, service, pc, ctxDone, snapshot, goroutine, found, entries, overall, calls>>

run == <<pc, ctxDone, snapshot, goroutine, found, entries, overall, calls>>

Init ==
    /\ checks = [n \in Names |-> Absent]
    /\ service \in [Names -> {"nil", "up"}]
    /\ pc = [r \in Runs |-> "idle"]
    /\ ctxDone = [r \in Runs |-> FALSE]
    /\ snapshot = [r \in Runs |-> checks]
    /\ goroutine = [r \in Runs |-> [n \in Names |-> "none"]]
    /\ found = [r \in Runs |-> [n \in Names |-> Absent]]
    /\ entries = found
    /\ overall = [r \in Runs |-> "Healthy"]
    /\ calls = {}

Register(n, k) ==
    /\ checks' = [checks EXCEPT ![n] = k]
    /\ UNCHANGED <<service, run>>

\* Run copies the checks under the read lock and starts a goroutine for each.
Run(r, call) ==
    /\ pc[r] = "idle" /\ call \notin calls
    /\ calls' = calls \cup {call}
    /\ pc' = [pc EXCEPT ![r] = "wait"]
    /\ ctxDone' = [ctxDone EXCEPT ![r] = FALSE]
    /\ snapshot' = [snapshot EXCEPT ![r] = checks]
    /\ goroutine' = [goroutine EXCEPT ![r] = [n \in Names |-> IF checks[n] = Absent THEN "none" ELSE "probe"]]
    /\ found' = [found EXCEPT ![r] = [n \in Names |-> Absent]]
    /\ entries' = [entries EXCEPT ![r] = [n \in Names |-> Absent]]
    /\ overall' = [overall EXCEPT ![r] = "Healthy"]
    /\ UNCHANGED <<checks, service>>

NoAnswer == {"nil", "down", "hung"}

\* The status that each kind of check reports of its service.
DatabaseCheck(s) ==
    IF s \in NoAnswer THEN "Unhealthy" ELSE IF s \in {"pressed", "slow"} THEN "Degraded" ELSE "Healthy"

RedisCheck(s) ==
    IF s \in NoAnswer THEN "Unhealthy" ELSE IF s = "slow" THEN "Degraded" ELSE "Healthy"

BusCheck(s) ==
    IF s \in NoAnswer THEN "Unhealthy" ELSE IF s = "slow" THEN "Degraded" ELSE "Healthy"

Check(k, s) ==
    CASE k = "database" -> DatabaseCheck(s)
      [] k = "redis" -> RedisCheck(s)
      [] OTHER -> BusCheck(s)

\* Mutant: a check does not respect its context.
SeenDeaf(r, n) == {service[n]} \ {"hung"}

\* What a probe comes back with: the service's answer, unless it hangs, or the error of a
\* context that is done, whatever the service would have answered.
Seen(r, n) == ({service[n]} \ {"hung"}) \cup (IF ctxDone[r] THEN {"down"} ELSE {})

Probe(r, n) ==
    /\ goroutine[r][n] = "probe"
    /\ \E s \in Seen(r, n) : found' = [found EXCEPT ![r][n] = Check(snapshot[r][n], s)]
    /\ goroutine' = [goroutine EXCEPT ![r][n] = "lock"]
    /\ UNCHANGED <<checks, service, pc, ctxDone, snapshot, entries, overall, calls>>

\* Mutant: the last status that is not healthy wins.
WorseLast(old, s) == IF s = "Healthy" THEN old ELSE s

\* The overall status with one more entry.
Worse(old, s) ==
    IF s = "Unhealthy" THEN "Unhealthy"
    ELSE IF s = "Degraded" /\ old # "Unhealthy" THEN "Degraded" ELSE old

\* The goroutine holds the run's mutex, enters its result and is done.
Record(r, n) ==
    /\ goroutine[r][n] = "lock"
    /\ entries' = [entries EXCEPT ![r][n] = found[r][n]]
    /\ overall' = [overall EXCEPT ![r] = Worse(@, found[r][n])]
    /\ goroutine' = [goroutine EXCEPT ![r][n] = "end"]
    /\ UNCHANGED <<checks, service, pc, ctxDone, snapshot, found, calls>>

\* wg.Wait returns.
Waited(r) == \A n \in Names : goroutine[r][n] \in {"none", "end"}

Return(r) ==
    /\ pc[r] = "wait" /\ Waited(r)
    /\ pc' = [pc EXCEPT ![r] = "idle"]
    /\ UNCHANGED <<checks, service, ctxDone, snapshot, goroutine, found, entries, overall, calls>>

\* The caller's context ends.
ContextEnds(r) ==
    /\ pc[r] = "wait" /\ ~ctxDone[r]
    /\ ctxDone' = [ctxDone EXCEPT ![r] = TRUE]
    /\ UNCHANGED <<checks, service, pc, snapshot, goroutine, found, entries, overall, calls>>

\* A service that exists changes.
ServiceChanges(n, s) ==
    /\ service[n] # "nil" /\ s \notin {"nil", service[n]}
    /\ service' = [service EXCEPT ![n] = s]
    /\ UNCHANGED <<checks, run>>

Next ==
    \/ \E n \in Names, k \in Kinds : Register(n, k)
    \/ \E r \in Runs : \/ \E c \in Calls : Run(r, c)
                       \/ Return(r) \/ ContextEnds(r)
                       \/ \E n \in Names : Probe(r, n) \/ Record(r, n)
    \/ \E n \in Names, s \in Services : ServiceChanges(n, s)

Spec == Init /\ [][Next]_vars

\* Goroutines run, and a probe that can return does.
FairSpec ==
    /\ Spec
    /\ \A r \in Runs : WF_vars(Return(r))
    /\ \A r \in Runs, n \in Names : WF_vars(Probe(r, n)) /\ WF_vars(Record(r, n))

-----------------------------------------------------------------------------
(* Properties                                                              *)

TypeOK ==
    /\ checks \in [Names -> Kinds \cup {Absent}]
    /\ service \in [Names -> Services]
    /\ pc \in [Runs -> {"idle", "wait"}]
    /\ ctxDone \in [Runs -> BOOLEAN]
    /\ snapshot \in [Runs -> [Names -> Kinds \cup {Absent}]]
    /\ goroutine \in [Runs -> [Names -> {"none", "probe", "lock", "end"}]]
    /\ found \in [Runs -> [Names -> Statuses \cup {Absent}]]
    /\ entries \in [Runs -> [Names -> Statuses \cup {Absent}]]
    /\ overall \in [Runs -> Statuses]
    /\ calls \subseteq Calls

\* The worst status of some entries, Healthy if there is none.
WorstOf(S) ==
    IF "Unhealthy" \in S THEN "Unhealthy" ELSE IF "Degraded" \in S THEN "Degraded" ELSE "Healthy"

\* A response has an entry for exactly the checks that were registered when Run copied
\* them, whatever Register did since, and its status is the worst of its entries in
\* whichever order the goroutines ended.
ResponseRight ==
    \A r \in Runs : pc[r] = "idle" =>
      /\ \A n \in Names : entries[r][n] = Absent <=> snapshot[r][n] = Absent
      /\ overall[r] = WorstOf({entries[r][n] : n \in Names})

\* A run whose context is done returns, although services hang.
RunEndsWithContext == \A r \in Runs : pc[r] = "wait" /\ ctxDone[r] ~> pc[r] = "idle"

=============================================================================
