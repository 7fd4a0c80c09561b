------------------------- MODULE PermissionCacheProofs -------------------------
(***************************************************************************)
(* PermissionCache for every set of nodes, principals, requests and admins  *)
(* and for all TTLs: type correctness, the bound on how stale a decision    *)
(* may be, and that an undisturbed revocation evicts what it revoked.       *)
(***************************************************************************)
EXTENDS PermissionCache, TLAPS

USE ConstantsAssumption

\* Requests and administrators run on a node, for a principal.
LEMMA Placement ==
    /\ \A r \in Requests : Host[r] \in Nodes /\ Subject[r] \in Principals
    /\ \A a \in Admins : Host[a] \in Nodes /\ Subject[a] \in Principals
  BY Zenon

\* No entry is an entry.
LEMMA AbsentEntry == Absent \in Entry
  BY DEF Absent, Entry

\* An idle request is a request.
LEMMA IdleRequestType == IdleRequest \in Request
  BY DEF IdleRequest, Request, RequestPC

\* A request that moves on stays a request.
LEMMA GotoType ==
  ASSUME req \in [Requests -> Request], NEW r \in Requests,
         NEW pc \in RequestPC, NEW v \in 0..MaxChanges, Goto(r, pc, v)
  PROVE  req' \in [Requests -> Request]
  BY Zenon DEF Goto, Request

\* The program counters that the steps go to.
LEMMA ProgramCounters ==
    /\ "l1get" \in RequestPC /\ "l2get" \in RequestPC
    /\ "l1fill" \in RequestPC /\ "repo" \in RequestPC
    /\ "l1set" \in RequestPC /\ "l2set" \in RequestPC
    /\ "decide" \in RequestPC /\ 0 \in 0..MaxChanges
  BY DEF RequestPC

\* A store into the first level keeps its type.
LEMMA L1StoreType ==
  ASSUME l1 \in [Nodes -> [Principals -> Entry]],
         NEW n \in Nodes, NEW p \in Principals,
         NEW v \in 0..MaxChanges, NEW ttl \in Nat, L1Store(n, p, v, ttl)
  PROVE  l1' \in [Nodes -> [Principals -> Entry]]
<1>1. [ver |-> v, ttl |-> ttl] \in Entry
  BY Zenon DEF Entry
<1>2. CASE l1' = [l1 EXCEPT ![n][p] = [ver |-> v, ttl |-> ttl]]
  BY <1>1, <1>2, Zenon
<1>3. CASE UNCHANGED l1
  BY <1>3, Zenon
<1> QED
  BY <1>2, <1>3, Zenon DEF L1Store

\* An entry that gets older is an entry.
LEMMA OlderType ==
  ASSUME NEW e \in Entry
  PROVE  Older(e) \in Entry
  BY DEF Older, Absent, Entry

\* What TypeOK says of the values the actions read and write.
LEMMA ReadTypes ==
  ASSUME TypeOK
  PROVE  /\ \A p \in Principals : /\ repo[p] \in 0..MaxChanges
                                  /\ l2[p] \in Entry
                                  /\ l2[p].ver \in 0..MaxChanges
                                  /\ l2[p].ttl \in Nat
         /\ \A n \in Nodes, p \in Principals : /\ l1[n][p] \in Entry
                                               /\ l1[n][p].ver \in 0..MaxChanges
                                               /\ l1[n][p].ttl \in Nat
         /\ \A r \in Requests : /\ req[r].ver \in 0..MaxChanges
                                /\ req[r].time \in 0..MaxRequestTime
<1>1. \A e \in Entry : e.ver \in 0..MaxChanges /\ e.ttl \in Nat
  BY Zenon DEF Entry
<1>2. /\ \A p \in Principals : repo[p] \in 0..MaxChanges /\ l2[p] \in Entry
      /\ \A n \in Nodes, p \in Principals : l1[n][p] \in Entry
  BY DEF TypeOK
<1>3. \A r \in Requests : /\ req[r].ver \in 0..MaxChanges
                          /\ req[r].time \in 0..MaxRequestTime
  BY Zenon DEF TypeOK, Request
<1> QED
  BY <1>1, <1>2, <1>3, Zenon

\* The initial state has the types.
LEMMA InitTypeOK == Init => TypeOK
  BY AbsentEntry, IdleRequestType DEF Init, TypeOK, AdminPC

\* Every step keeps the types.
LEMMA NextTypeOK == TypeOK /\ [Next]_vars => TypeOK'
<1> SUFFICES ASSUME TypeOK, [Next]_vars
             PROVE  TypeOK'
  BY Zenon
<1>1. ASSUME NEW p \in Principals, GrantPermission(p)
      PROVE  TypeOK'
  <2>1. repo' \in [Principals -> 0..MaxChanges]
    BY <1>1 DEF GrantPermission, TypeOK
  <2>2. UNCHANGED <<l1, l2, chan, req, admin, superseded, lastRevoke, disturbed>>
    BY <1>1, Zenon DEF GrantPermission, history
  <2> QED
    BY Zenon, <2>1, <2>2 DEF TypeOK
<1>2. ASSUME NEW p \in Principals, L2Evict(p)
      PROVE  TypeOK'
  <2>1. l2' \in [Principals -> Entry]
    BY <1>2, AbsentEntry, Placement, Zenon DEF L2Evict, TypeOK
  <2>2. UNCHANGED <<repo, l1, chan, req, admin, superseded, lastRevoke, disturbed>>
    BY <1>2, Zenon DEF L2Evict, history
  <2> QED
    BY <2>1, <2>2, Zenon DEF TypeOK
<1>3. ASSUME NEW a \in Admins, RevokeAll(a)
      PROVE  TypeOK'
  <2>1. repo' \in [Principals -> 0..MaxChanges]
    BY <1>3 DEF RevokeAll, TypeOK
  <2>2. admin' \in [Admins -> AdminPC]
    BY <1>3, Zenon DEF RevokeAll, TypeOK, AdminPC
  <2>3. lastRevoke' \in [Principals -> 0..MaxChanges]
    BY <1>3 DEF RevokeAll, TypeOK
  <2>4. disturbed' \subseteq Principals
    BY <1>3, Zenon DEF RevokeAll, TypeOK, Disturb
  <2>5. UNCHANGED <<l1, l2, chan, req, superseded>>
    BY <1>3, Zenon DEF RevokeAll, history
  <2> QED
    BY Zenon, <2>1, <2>2, <2>3, <2>4, <2>5 DEF TypeOK
<1>4. ASSUME NEW a \in Admins, StartDelete(a)
      PROVE  TypeOK'
  <2>1. admin' \in [Admins -> AdminPC]
    BY <1>4, Zenon DEF StartDelete, TypeOK, AdminPC
  <2>2. UNCHANGED <<repo, l1, l2, chan, req, superseded, lastRevoke, disturbed>>
    BY <1>4, Zenon DEF StartDelete, history
  <2> QED
    BY Zenon, <2>1, <2>2 DEF TypeOK
<1>5. ASSUME NEW a \in Admins, AdminL1Delete(a)
      PROVE  TypeOK'
  <2>1. l1' \in [Nodes -> [Principals -> Entry]]
    BY <1>5, AbsentEntry, Placement, Zenon DEF AdminL1Delete, TypeOK
  <2>2. admin' \in [Admins -> AdminPC]
    BY <1>5, Zenon DEF AdminL1Delete, TypeOK, AdminPC
  <2>3. UNCHANGED <<repo, l2, chan, req, superseded, lastRevoke, disturbed>>
    BY <1>5, Zenon DEF AdminL1Delete, history
  <2> QED
    BY Zenon, <2>1, <2>2, <2>3 DEF TypeOK
<1>6. ASSUME NEW a \in Admins, AdminL2Delete(a)
      PROVE  TypeOK'
  <2>1. l2' \in [Principals -> Entry]
    BY Zenon, <1>6, AbsentEntry, Placement DEF AdminL2Delete, TypeOK
  <2>2. admin' \in [Admins -> AdminPC]
    BY <1>6, Zenon DEF AdminL2Delete, TypeOK, AdminPC
  <2>3. disturbed' \subseteq Principals
    BY <1>6 DEF AdminL2Delete, TypeOK, Disturb
  <2>4. UNCHANGED <<repo, l1, chan, req, superseded, lastRevoke>>
    BY <1>6, Zenon DEF AdminL2Delete, history
  <2> QED
    BY Zenon, <2>1, <2>2, <2>3, <2>4 DEF TypeOK
<1>7. ASSUME NEW a \in Admins, Publish(a)
      PROVE  TypeOK'
  <2>1. /\ chan' \in [Nodes -> Seq(Principals)]
        /\ \A m \in Nodes : Len(chan'[m]) <= ChanCap
    BY <1>7 DEF Publish, TypeOK
  <2>2. admin' \in [Admins -> AdminPC]
    BY <1>7, Zenon DEF Publish, TypeOK, AdminPC
  <2>3. disturbed' \subseteq Principals
    BY <1>7 DEF Publish, TypeOK, Disturb
  <2>4. UNCHANGED <<repo, l1, l2, req, superseded, lastRevoke>>
    BY <1>7, Zenon DEF Publish, history
  <2> QED
    BY Zenon, <2>1, <2>2, <2>3, <2>4 DEF TypeOK
<1>8. ASSUME NEW r \in Requests, StartRequest(r)
      PROVE  TypeOK'
  <2>1. req' \in [Requests -> Request]
    BY Zenon, <1>8, GotoType, ProgramCounters, ReadTypes, Placement
    DEF StartRequest, TypeOK
  <2>2. UNCHANGED <<repo, l1, l2, chan, admin, superseded, lastRevoke, disturbed>>
    BY <1>8, Zenon DEF StartRequest, history
  <2> QED
    BY Zenon, <2>1, <2>2 DEF TypeOK
<1>9. ASSUME NEW r \in Requests, TieredL1Get(r)
      PROVE  TypeOK'
  <2>1. req' \in [Requests -> Request]
    BY Zenon, <1>9, GotoType, ProgramCounters, ReadTypes, Placement
    DEF TieredL1Get, TypeOK
  <2>2. UNCHANGED <<repo, l1, l2, chan, admin, superseded, lastRevoke, disturbed>>
    BY <1>9, Zenon DEF TieredL1Get, history
  <2> QED
    BY Zenon, <2>1, <2>2 DEF TypeOK
<1>10. ASSUME NEW r \in Requests, TieredL2Get(r)
      PROVE  TypeOK'
  <2>1. req' \in [Requests -> Request]
    BY Zenon, <1>10, GotoType, ProgramCounters, ReadTypes, Placement
    DEF TieredL2Get, TypeOK
  <2>2. UNCHANGED <<repo, l1, l2, chan, admin, superseded, lastRevoke, disturbed>>
    BY <1>10, Zenon DEF TieredL2Get, history
  <2> QED
    BY Zenon, <2>1, <2>2 DEF TypeOK
<1>11. ASSUME NEW r \in Requests, TieredL1Fill(r)
      PROVE  TypeOK'
  <2>1. l1' \in [Nodes -> [Principals -> Entry]]
    BY Zenon, <1>11, L1StoreType, ReadTypes, Placement DEF TieredL1Fill, TypeOK
  <2>2. req' \in [Requests -> Request]
    BY Zenon, <1>11, GotoType, ProgramCounters, ReadTypes, Placement
    DEF TieredL1Fill, TypeOK
  <2>3. UNCHANGED <<repo, l2, chan, admin, superseded, lastRevoke, disturbed>>
    BY <1>11, Zenon DEF TieredL1Fill, history
  <2> QED
    BY Zenon, <2>1, <2>2, <2>3 DEF TypeOK
<1>12. ASSUME NEW r \in Requests, RepoGet(r)
      PROVE  TypeOK'
  <2>1. req' \in [Requests -> Request]
    BY Zenon, <1>12, GotoType, IdleRequestType, ProgramCounters, ReadTypes, Placement
    DEF RepoGet, TypeOK
  <2>2. UNCHANGED <<repo, l1, l2, chan, admin, superseded, lastRevoke, disturbed>>
    BY <1>12, Zenon DEF RepoGet, history
  <2> QED
    BY Zenon, <2>1, <2>2 DEF TypeOK
<1>13. ASSUME NEW r \in Requests, TieredL1Set(r)
      PROVE  TypeOK'
  <2>1. l1' \in [Nodes -> [Principals -> Entry]]
    BY Zenon, <1>13, L1StoreType, ReadTypes, Placement DEF TieredL1Set, TypeOK
  <2>2. req' \in [Requests -> Request]
    BY Zenon, <1>13, GotoType, ProgramCounters, ReadTypes, Placement
    DEF TieredL1Set, TypeOK
  <2>3. UNCHANGED <<repo, l2, chan, admin, superseded, lastRevoke, disturbed>>
    BY <1>13, Zenon DEF TieredL1Set, history
  <2> QED
    BY Zenon, <2>1, <2>2, <2>3 DEF TypeOK
<1>14. ASSUME NEW r \in Requests, TieredL2Set(r)
      PROVE  TypeOK'
  <2>1. l2' \in [Principals -> Entry]
    <3>1. [ver |-> req[r].ver, ttl |-> GrantTTL] \in Entry
      BY ReadTypes, Zenon DEF Entry
    <3> QED
      BY Zenon, <1>14, <3>1, Placement DEF TieredL2Set, TypeOK
  <2>2. req' \in [Requests -> Request]
    BY Zenon, <1>14, GotoType, ProgramCounters, ReadTypes, Placement
    DEF TieredL2Set, TypeOK
  <2>3. UNCHANGED <<repo, l1, chan, admin, superseded, lastRevoke, disturbed>>
    BY <1>14, Zenon DEF TieredL2Set, history
  <2> QED
    BY Zenon, <2>1, <2>2, <2>3 DEF TypeOK
<1>15. ASSUME NEW r \in Requests, Decide(r)
      PROVE  TypeOK'
  <2>1. req' \in [Requests -> Request]
    BY <1>15, IdleRequestType, Zenon DEF Decide, TypeOK
  <2>2. UNCHANGED <<repo, l1, l2, chan, admin, superseded, lastRevoke, disturbed>>
    BY <1>15, Zenon DEF Decide, history
  <2> QED
    BY Zenon, <2>1, <2>2 DEF TypeOK
<1>16. ASSUME NEW n \in Nodes, Listen(n)
      PROVE  TypeOK'
  <2>1. l1' \in [Nodes -> [Principals -> Entry]]
    BY Zenon, <1>16, AbsentEntry, Placement DEF Listen, TypeOK
  <2>2. /\ chan' \in [Nodes -> Seq(Principals)]
        /\ \A m \in Nodes : Len(chan'[m]) <= ChanCap
    <3>1. /\ chan[n] \in Seq(Principals) /\ chan[n] # << >>
          /\ Len(chan[n]) <= ChanCap
      BY <1>16, Zenon DEF Listen, TypeOK
    <3>2. /\ Tail(chan[n]) \in Seq(Principals)
          /\ Len(Tail(chan[n])) <= ChanCap
      BY <3>1
    <3> QED
      BY Zenon, <1>16, <3>2 DEF Listen, TypeOK
  <2>3. UNCHANGED <<repo, l2, req, admin, superseded, lastRevoke, disturbed>>
    BY <1>16, Zenon DEF Listen, history
  <2> QED
    BY <2>1, <2>2, <2>3, Zenon DEF TypeOK
<1>17. ASSUME NEW n \in Nodes, Restart(n)
      PROVE  TypeOK'
  <2>1. l1' \in [Nodes -> [Principals -> Entry]]
    BY <1>17, AbsentEntry, Placement, Zenon DEF Restart, TypeOK
  <2>2. /\ chan' \in [Nodes -> Seq(Principals)]
        /\ \A m \in Nodes : Len(chan'[m]) <= ChanCap
    BY <1>17 DEF Restart, TypeOK
  <2>3. req' \in [Requests -> Request]
    BY <1>17, IdleRequestType, Zenon DEF Restart, TypeOK
  <2>4. admin' \in [Admins -> AdminPC]
    BY <1>17, Zenon DEF Restart, TypeOK, AdminPC
  <2>5. disturbed' \subseteq Principals
    BY <1>17, Zenon DEF Restart, TypeOK, Disturb
  <2>6. UNCHANGED <<repo, l2, superseded, lastRevoke>>
    BY <1>17, Zenon DEF Restart, history
  <2> QED
    BY Zenon, <2>1, <2>2, <2>3, <2>4, <2>5, <2>6 DEF TypeOK
<1>18. ASSUME NEW n \in Nodes, NEW p \in Principals, L1Evict(n, p)
      PROVE  TypeOK'
  <2>1. l1' \in [Nodes -> [Principals -> Entry]]
    BY Zenon, <1>18, AbsentEntry, Placement DEF L1Evict, TypeOK
  <2>2. UNCHANGED <<repo, l2, chan, req, admin, superseded, lastRevoke, disturbed>>
    BY <1>18, Zenon DEF L1Evict, history
  <2> QED
    BY Zenon, <2>1, <2>2 DEF TypeOK
<1>19. CASE Tick
  <2>1. l1' \in [Nodes -> [Principals -> Entry]]
    BY <1>19, OlderType, ReadTypes, Zenon DEF Tick, TypeOK
  <2>2. l2' \in [Principals -> Entry]
    BY <1>19, OlderType, ReadTypes, Zenon DEF Tick, TypeOK
  <2>3. req' \in [Requests -> Request]
    BY <1>19 DEF Tick, TypeOK, Request
  <2>4. superseded' \in [Principals -> [0..MaxChanges -> Nat]]
    <3>1. \A p \in Principals, v \in 0..MaxChanges : superseded[p][v] \in Nat
      BY DEF TypeOK
    <3> QED
      BY <1>19, <3>1 DEF Tick
  <2>5. UNCHANGED <<repo, chan, admin, lastRevoke, disturbed>>
    BY <1>19, Zenon DEF Tick, history
  <2> QED
    BY <2>1, <2>2, <2>3, <2>4, <2>5, Zenon DEF TypeOK
<1>20. CASE UNCHANGED vars
  BY <1>20, Zenon DEF TypeOK, vars
<1> QED
  BY <1>1, <1>2, <1>3, <1>4, <1>5, <1>6, <1>7, <1>8, <1>9, <1>10, <1>11, <1>12, <1>13, <1>14, <1>15, <1>16, <1>17, <1>18, <1>19, <1>20, Zenon
  DEF Next, RequestStep

\* Every reachable state of the permission path is well typed, and no
\* subscriber channel ever holds more than its capacity.
THEOREM TypeCorrect == Spec => []TypeOK
  BY InitTypeOK, NextTypeOK, PTL DEF Spec

-----------------------------------------------------------------------------
(* Staleness                                                               *)

\* What the bound on staleness rests on: in each place a copy of a bundle can
\* be in, the time since its version was replaced is paid for by the time the
\* copy has spent there and in the places before.
AgeInv ==
    \A p \in Principals, v \in 0..MaxChanges :
        v >= repo[p] => superseded[p][v] = 0

L2AgeInv ==
    \A p \in Principals :
        Present(l2[p]) => superseded[p][l2[p].ver] + l2[p].ttl
                             <= MaxRequestTime + GrantTTL

L1AgeInv ==
    \A n \in Nodes, p \in Principals :
        Present(l1[n][p]) => superseded[p][l1[n][p].ver] + l1[n][p].ttl
                                <= 2 * MaxRequestTime + GrantTTL + L1TTL - 1

\* The staleness a request may have met before it started, by its next call.
Inherited(pc) ==
    CASE pc \in {"l1set", "l2set"} -> 0
      [] pc = "l1fill" -> MaxRequestTime + GrantTTL - 1
      [] pc = "decide" -> 2 * MaxRequestTime + GrantTTL + L1TTL - 2

RequestAgeInv ==
    \A r \in Requests :
        req[r].pc \in Filling \cup {"decide"} =>
            superseded[Subject[r]][req[r].ver]
                <= Inherited(req[r].pc) + req[r].time

StaleInv == AgeInv /\ L2AgeInv /\ L1AgeInv /\ RequestAgeInv

-----------------------------------------------------------------------------

\* At first nothing is cached, so nothing is stale.
LEMMA InitStaleInv == Init => StaleInv
  BY DEF Init, StaleInv, AgeInv, L2AgeInv, L1AgeInv, RequestAgeInv, Absent,
         Present, IdleRequest, Filling

\* What a value may have aged by when a request gets to a step.
LEMMA InheritedValues ==
    /\ Inherited("l1set") = 0 /\ Inherited("l2set") = 0
    /\ Inherited("l1fill") = MaxRequestTime + GrantTTL - 1
    /\ Inherited("decide") = 2 * MaxRequestTime + GrantTTL + L1TTL - 2
  BY Zenon DEF Inherited

\* A request that moves on within the staleness its next place allows.
LEMMA GotoAge ==
  ASSUME TypeOK, RequestAgeInv, UNCHANGED superseded,
         NEW r \in Requests, NEW pc \in RequestPC, NEW v \in 0..MaxChanges,
         Goto(r, pc, v),
         pc \in Filling \cup {"decide"} =>
             superseded[Subject[r]][v] <= Inherited(pc) + req[r].time
  PROVE  RequestAgeInv'
<1> SUFFICES ASSUME NEW q \in Requests,
                    req'[q].pc \in Filling \cup {"decide"}
             PROVE  superseded[Subject[q]][req'[q].ver]
                       <= Inherited(req'[q].pc) + req'[q].time
  BY Zenon DEF RequestAgeInv
<1>1. CASE q = r
  <2>1. req'[r] = [pc |-> pc, ver |-> v, time |-> req[r].time]
    BY Zenon DEF Goto, TypeOK
  <2> QED
    BY <1>1, <2>1
<1>2. CASE q # r
  <2>1. req'[q] = req[q]
    BY <1>2, Zenon DEF Goto, TypeOK
  <2> QED
    BY <2>1, Zenon DEF RequestAgeInv
<1> QED
  BY <1>1, <1>2, Zenon

\* A store in L1 of a version within the staleness L1 allows.
LEMMA L1StoreAge ==
  ASSUME TypeOK, L1AgeInv, UNCHANGED superseded,
         NEW n \in Nodes, NEW p \in Principals,
         NEW v \in 0..MaxChanges, NEW ttl \in Nat, L1Store(n, p, v, ttl),
         superseded[p][v] + ttl <= 2 * MaxRequestTime + GrantTTL + L1TTL - 1
  PROVE  L1AgeInv'
<1> SUFFICES ASSUME NEW m \in Nodes, NEW q \in Principals, Present(l1'[m][q])
             PROVE  superseded[q][l1'[m][q].ver] + l1'[m][q].ttl
                       <= 2 * MaxRequestTime + GrantTTL + L1TTL - 1
  BY Zenon DEF L1AgeInv
<1>1. \/ l1'[m][q] = l1[m][q]
      \/ q = p /\ l1'[m][q] = [ver |-> v, ttl |-> ttl]
  <2>1. CASE l1' = [l1 EXCEPT ![n][p] = [ver |-> v, ttl |-> ttl]]
    BY <2>1, Zenon DEF TypeOK
  <2>2. CASE UNCHANGED l1
    BY <2>2, Zenon
  <2> QED
    BY <2>1, <2>2, Zenon DEF L1Store
<1> QED
  BY <1>1 DEF L1AgeInv

\* Deleting entries keeps the age invariants of the caches.
LEMMA L1ClearAge ==
  ASSUME L1AgeInv, UNCHANGED superseded,
         \A n \in Nodes, p \in Principals :
             l1'[n][p] = l1[n][p] \/ l1'[n][p] = Absent
  PROVE  L1AgeInv'
  BY DEF L1AgeInv, Absent, Present

\* An entry that leaves the second level is not too old.
LEMMA L2ClearAge ==
  ASSUME L2AgeInv, UNCHANGED superseded,
         \A p \in Principals : l2'[p] = l2[p] \/ l2'[p] = Absent
  PROVE  L2AgeInv'
  BY DEF L2AgeInv, Absent, Present

\* A request that ends holds nothing that is too old.
LEMMA RequestDoneAge ==
  ASSUME RequestAgeInv, UNCHANGED superseded,
         \A r \in Requests : req'[r] = req[r] \/ req'[r] = IdleRequest
  PROVE  RequestAgeInv'
  BY DEF RequestAgeInv, IdleRequest, Filling

\* A step of a request keeps the bounds on the ages.
LEMMA RequestStepStaleInv ==
  ASSUME TypeOK, StaleInv, NEW r \in Requests,
         StartRequest(r) \/ RequestStep(r)
  PROVE  StaleInv'
<1>0. /\ AgeInv /\ L2AgeInv /\ L1AgeInv /\ RequestAgeInv
      /\ \A p \in Principals, v \in 0..MaxChanges : superseded[p][v] \in Nat
      /\ Subject[r] \in Principals /\ Host[r] \in Nodes
      /\ req[r].ver \in 0..MaxChanges /\ req[r].time \in 0..MaxRequestTime
  <2>1. AgeInv /\ L2AgeInv /\ L1AgeInv /\ RequestAgeInv
    BY Zenon DEF StaleInv
  <2>2. \A p \in Principals, v \in 0..MaxChanges : superseded[p][v] \in Nat
    BY DEF TypeOK
  <2> QED
    BY <2>1, <2>2, ReadTypes, Placement, Zenon
<1> DEFINE p == Subject[r]
           e1 == l1[Host[r]][p]
           e2 == l2[p]
<1>1. UNCHANGED <<repo, superseded>> /\ AgeInv'
  BY <1>0, Zenon DEF StartRequest, RequestStep, TieredL1Get, TieredL2Get, TieredL1Fill,
     RepoGet, TieredL1Set, TieredL2Set, Decide, AgeInv, history
<1>2. CASE StartRequest(r)
  <2>1. UNCHANGED <<l1, l2>> /\ Goto(r, "l1get", 0)
    BY <1>2, Zenon DEF StartRequest
  <2>2. "l1get" \notin Filling \cup {"decide"}
    BY Zenon DEF Filling
  <2>3. RequestAgeInv'
    BY <1>0, <1>1, <2>1, <2>2, GotoAge, ProgramCounters, Zenon
  <2> QED
    BY <1>0, <1>1, <2>1, <2>3, Zenon DEF StaleInv, L1AgeInv, L2AgeInv
<1>3. CASE TieredL1Get(r)
  <2>1. UNCHANGED <<l1, l2>>
    BY <1>3, Zenon DEF TieredL1Get
  <2>2. CASE Present(e1)
    <3>1. Goto(r, "decide", e1.ver)
      BY <1>3, <2>2, Zenon DEF TieredL1Get
    <3>2. superseded[p][e1.ver] <= Inherited("decide") + req[r].time
      BY <1>0, <2>2, InheritedValues, ReadTypes DEF L1AgeInv, Present
    <3> QED
      BY <1>0, <1>1, <3>1, <3>2, GotoAge, ProgramCounters, ReadTypes, <2>1, Zenon
      DEF StaleInv, L1AgeInv, L2AgeInv
  <2>3. CASE ~Present(e1)
    <3>1. Goto(r, "l2get", 0)
      BY <1>3, <2>3, Zenon DEF TieredL1Get
    <3>2. "l2get" \notin Filling \cup {"decide"}
      BY Zenon DEF Filling
    <3>3. RequestAgeInv'
      BY <1>0, <1>1, <3>1, <3>2, GotoAge, ProgramCounters, Zenon
    <3> QED
      BY <1>0, <1>1, <3>3, <2>1, Zenon DEF StaleInv, L1AgeInv, L2AgeInv
  <2> QED
    BY <2>2, <2>3, Zenon
<1>4. CASE TieredL2Get(r)
  <2>1. UNCHANGED <<l1, l2>>
    BY <1>4, Zenon DEF TieredL2Get
  <2>2. CASE Present(e2) /\ Goto(r, "l1fill", e2.ver)
    <3>1. superseded[p][e2.ver] <= Inherited("l1fill") + req[r].time
      BY <1>0, <2>2, InheritedValues, ReadTypes DEF L2AgeInv, Present
    <3> QED
      BY <1>0, <1>1, <2>2, <3>1, GotoAge, ProgramCounters, ReadTypes, <2>1, Zenon
      DEF StaleInv, L1AgeInv, L2AgeInv
  <2>3. CASE Goto(r, "repo", 0)
    <3>1. "repo" \notin Filling \cup {"decide"}
      BY Zenon DEF Filling
    <3>2. RequestAgeInv'
      BY <1>0, <1>1, <2>3, <3>1, GotoAge, ProgramCounters, Zenon
    <3> QED
      BY <1>0, <1>1, <3>2, <2>1, Zenon DEF StaleInv, L1AgeInv, L2AgeInv
  <2> QED
    BY <1>4, <2>2, <2>3, Zenon DEF TieredL2Get
<1>5. CASE TieredL1Fill(r)
  <2>1. /\ req[r].pc = "l1fill" /\ UNCHANGED l2
        /\ L1Store(Host[r], p, req[r].ver, L1TTL)
        /\ Goto(r, "decide", req[r].ver)
    BY <1>5, Zenon DEF TieredL1Fill
  <2>2. superseded[p][req[r].ver] <= MaxRequestTime + GrantTTL - 1 + req[r].time
    BY <1>0, <2>1, InheritedValues, Zenon DEF RequestAgeInv, Filling
  <2>3. L1AgeInv'
    <3>1. superseded[p][req[r].ver] + L1TTL
             <= 2 * MaxRequestTime + GrantTTL + L1TTL - 1
      BY <1>0, <2>2
    <3> QED
      BY <1>0, <1>1, <2>1, <3>1, L1StoreAge, Zenon
  <2>4. RequestAgeInv'
    <3>1. superseded[p][req[r].ver] <= Inherited("decide") + req[r].time
      BY <1>0, <2>2, InheritedValues
    <3> QED
      BY <1>0, <1>1, <2>1, <3>1, GotoAge, ProgramCounters, Zenon
  <2> QED
    BY <1>0, <1>1, <2>1, <2>3, <2>4, Zenon DEF StaleInv, L2AgeInv
<1>6. CASE RepoGet(r)
  <2>1. UNCHANGED <<l1, l2>>
    BY <1>6, Zenon DEF RepoGet
  <2>2. CASE Goto(r, "l1set", repo[p])
    <3>1. superseded[p][repo[p]] = 0
      BY <1>0, ReadTypes DEF AgeInv
    <3>2. superseded[p][repo[p]] <= Inherited("l1set") + req[r].time
      BY <1>0, <3>1, InheritedValues
    <3> QED
      BY <1>0, <1>1, <2>2, <3>2, GotoAge, ProgramCounters, ReadTypes, <2>1, Zenon
      DEF StaleInv, L1AgeInv, L2AgeInv
  <2>3. CASE req' = [req EXCEPT ![r] = IdleRequest]
    <3>1. RequestAgeInv'
      BY <1>0, <1>1, <2>3, RequestDoneAge, Zenon DEF TypeOK
    <3> QED
      BY <1>0, <1>1, <3>1, <2>1, Zenon DEF StaleInv, L1AgeInv, L2AgeInv
  <2> QED
    BY <1>6, <2>2, <2>3, Zenon DEF RepoGet
<1>7. CASE TieredL1Set(r)
  <2> DEFINE ttl == IF GrantTTL < L1TTL THEN GrantTTL ELSE L1TTL
  <2>1. /\ req[r].pc = "l1set" /\ UNCHANGED l2
        /\ L1Store(Host[r], p, req[r].ver, ttl)
        /\ Goto(r, "l2set", req[r].ver)
    BY <1>7, Zenon DEF TieredL1Set
  <2>2. superseded[p][req[r].ver] <= req[r].time
    BY <1>0, <2>1, InheritedValues DEF RequestAgeInv, Filling
  <2>3. L1AgeInv'
    <3>1. /\ ttl \in Nat
          /\ superseded[p][req[r].ver] + ttl
                <= 2 * MaxRequestTime + GrantTTL + L1TTL - 1
      BY <1>0, <2>2
    <3> QED
      BY <1>0, <1>1, <2>1, <3>1, L1StoreAge, Zenon
  <2>4. RequestAgeInv'
    <3>1. superseded[p][req[r].ver] <= Inherited("l2set") + req[r].time
      BY <1>0, <2>2, InheritedValues
    <3> QED
      BY <1>0, <1>1, <2>1, <3>1, GotoAge, ProgramCounters, Zenon
  <2> QED
    BY <1>0, <1>1, <2>1, <2>3, <2>4, Zenon DEF StaleInv, L2AgeInv
<1>8. CASE TieredL2Set(r)
  <2>1. /\ req[r].pc = "l2set" /\ UNCHANGED l1
        /\ \/ l2' = [l2 EXCEPT ![p] = [ver |-> req[r].ver, ttl |-> GrantTTL]]
           \/ UNCHANGED l2
        /\ Goto(r, "decide", req[r].ver)
    BY <1>8, Zenon DEF TieredL2Set
  <2>2. superseded[p][req[r].ver] <= req[r].time
    BY <1>0, <2>1, InheritedValues DEF RequestAgeInv, Filling
  <2>3. L2AgeInv'
    <3> SUFFICES ASSUME NEW q \in Principals, Present(l2'[q])
                 PROVE  superseded[q][l2'[q].ver] + l2'[q].ttl
                           <= MaxRequestTime + GrantTTL
      BY <1>1, Zenon DEF L2AgeInv
    <3>1. \/ l2'[q] = l2[q]
          \/ q = p /\ l2'[q] = [ver |-> req[r].ver, ttl |-> GrantTTL]
      BY Zenon, <2>1 DEF TypeOK
    <3> QED
      BY <1>0, <2>2, <3>1 DEF L2AgeInv
  <2>4. RequestAgeInv'
    <3>1. superseded[p][req[r].ver] <= Inherited("decide") + req[r].time
      BY <1>0, <2>2, InheritedValues
    <3> QED
      BY <1>0, <1>1, <2>1, <3>1, GotoAge, ProgramCounters, Zenon
  <2> QED
    BY <1>0, <1>1, <2>1, <2>3, <2>4, Zenon DEF StaleInv, L1AgeInv
<1>9. CASE Decide(r)
  <2>1. UNCHANGED <<l1, l2>> /\ req' = [req EXCEPT ![r] = IdleRequest]
    BY <1>9, Zenon DEF Decide
  <2>2. RequestAgeInv'
    BY <1>0, <1>1, <2>1, RequestDoneAge, Zenon DEF TypeOK
  <2> QED
    BY <1>0, <1>1, <2>1, <2>2, Zenon DEF StaleInv, L1AgeInv, L2AgeInv
<1> QED
  BY <1>2, <1>3, <1>4, <1>5, <1>6, <1>7, <1>8, <1>9, Zenon DEF RequestStep

\* A tick adds at most one to every staleness and takes one from every TTL.
LEMMA TickStaleInv ==
  ASSUME TypeOK, StaleInv, Tick
  PROVE  StaleInv'
<1>0. /\ AgeInv /\ L2AgeInv /\ L1AgeInv /\ RequestAgeInv
      /\ \A p \in Principals, v \in 0..MaxChanges : superseded[p][v] \in Nat
  BY DEF StaleInv, TypeOK
<1>1. \A p \in Principals, v \in 0..MaxChanges :
         /\ superseded'[p][v] \in Nat
         /\ superseded'[p][v] <= superseded[p][v] + 1
         /\ v >= repo[p] => superseded'[p][v] = superseded[p][v]
  BY <1>0, ReadTypes DEF Tick
<1>2. UNCHANGED repo
  BY Zenon DEF Tick
<1>3. AgeInv'
  BY <1>0, <1>1, <1>2 DEF AgeInv
<1>4. \A e \in Entry : Present(Older(e)) => /\ e.ttl > 1
                                            /\ Older(e).ver = e.ver
                                            /\ Older(e).ttl = e.ttl - 1
  BY DEF Older, Present, Absent, Entry
<1>5. L2AgeInv'
  <2> SUFFICES ASSUME NEW p \in Principals, Present(l2'[p])
               PROVE  superseded'[p][l2'[p].ver] + l2'[p].ttl
                         <= MaxRequestTime + GrantTTL
    BY Zenon DEF L2AgeInv
  <2>1. l2'[p] = Older(l2[p])
    BY Zenon DEF Tick
  <2>2. /\ l2[p].ttl > 1 /\ l2'[p].ver = l2[p].ver
        /\ l2'[p].ttl = l2[p].ttl - 1
    BY <1>4, <2>1, ReadTypes, Zenon
  <2>3. superseded[p][l2[p].ver] + l2[p].ttl <= MaxRequestTime + GrantTTL
    BY <1>0, <2>2, ReadTypes DEF L2AgeInv, Present
  <2> QED
    BY <1>0, <1>1, <2>2, <2>3, ReadTypes
<1>6. L1AgeInv'
  <2> SUFFICES ASSUME NEW n \in Nodes, NEW p \in Principals,
                      Present(l1'[n][p])
               PROVE  superseded'[p][l1'[n][p].ver] + l1'[n][p].ttl
                         <= 2 * MaxRequestTime + GrantTTL + L1TTL - 1
    BY Zenon DEF L1AgeInv
  <2>1. l1'[n][p] = Older(l1[n][p])
    BY Zenon DEF Tick
  <2>2. /\ l1[n][p].ttl > 1 /\ l1'[n][p].ver = l1[n][p].ver
        /\ l1'[n][p].ttl = l1[n][p].ttl - 1
    BY <1>4, <2>1, ReadTypes, Zenon
  <2>3. superseded[p][l1[n][p].ver] + l1[n][p].ttl
           <= 2 * MaxRequestTime + GrantTTL + L1TTL - 1
    BY <1>0, <2>2, ReadTypes DEF L1AgeInv, Present
  <2> QED
    BY <1>0, <1>1, <2>2, <2>3, ReadTypes
<1>7. RequestAgeInv'
  <2> SUFFICES ASSUME NEW r \in Requests,
                      req'[r].pc \in Filling \cup {"decide"}
               PROVE  superseded'[Subject[r]][req'[r].ver]
                         <= Inherited(req'[r].pc) + req'[r].time
    BY Zenon DEF RequestAgeInv
  <2>1. req[r].pc # "idle"
    BY Zenon DEF Tick, Filling
  <2>2. req'[r] = [pc |-> req[r].pc, ver |-> req[r].ver, time |-> req[r].time + 1]
    BY <2>1, Zenon DEF Tick
  <2>3. superseded[Subject[r]][req[r].ver] <= Inherited(req[r].pc) + req[r].time
    BY <1>0, <2>2 DEF RequestAgeInv
  <2>4. Inherited(req[r].pc) \in Int
    BY <2>2 DEF Inherited, Filling
  <2> QED
    BY <1>0, <1>1, <2>2, <2>3, <2>4, ReadTypes, Placement
<1> QED
  BY <1>3, <1>5, <1>6, <1>7, Zenon DEF StaleInv

\* Every step keeps the bounds on the ages.
LEMMA NextStaleInv == TypeOK /\ StaleInv /\ [Next]_vars => StaleInv'
<1> SUFFICES ASSUME TypeOK, StaleInv, [Next]_vars
             PROVE  StaleInv'
  BY Zenon
<1>0. AgeInv /\ L2AgeInv /\ L1AgeInv /\ RequestAgeInv
  BY Zenon DEF StaleInv
<1>1. ASSUME UNCHANGED <<l1, l2, req, superseded>>,
             \A p \in Principals : repo'[p] >= repo[p] /\ repo'[p] \in Nat
      PROVE  StaleInv'
  <2>1. AgeInv'
    BY <1>0, <1>1, ReadTypes DEF AgeInv
  <2> QED
    BY <1>0, <1>1, <2>1, Zenon
    DEF StaleInv, L2AgeInv, L1AgeInv, RequestAgeInv
<1>2. ASSUME UNCHANGED <<repo, superseded>>,
             \A n \in Nodes, p \in Principals :
                l1'[n][p] = l1[n][p] \/ l1'[n][p] = Absent,
             \A p \in Principals : l2'[p] = l2[p] \/ l2'[p] = Absent,
             \A r \in Requests : req'[r] = req[r] \/ req'[r] = IdleRequest
      PROVE  StaleInv'
  <2>1. AgeInv'
    BY <1>0, <1>2, Zenon DEF AgeInv
  <2> QED
    BY <1>0, <1>2, <2>1, L1ClearAge, L2ClearAge, RequestDoneAge, Zenon DEF StaleInv
<1>3. ASSUME NEW p \in Principals, GrantPermission(p)
      PROVE  StaleInv'
  <2>1. repo' = [repo EXCEPT ![p] = @ + 1] /\ UNCHANGED <<l1, l2, req, superseded>>
    BY <1>3, Zenon DEF GrantPermission, history
  <2>2. \A q \in Principals : repo'[q] >= repo[q] /\ repo'[q] \in Nat
    <3>1. repo \in [Principals -> 0..MaxChanges]
      BY Zenon DEF TypeOK
    <3> QED
      BY <2>1, <3>1
  <2> QED
    BY <1>1, <2>1, <2>2, Zenon
<1>4. ASSUME NEW p \in Principals, L2Evict(p)
      PROVE  StaleInv'
  BY <1>2, <1>4, Zenon DEF L2Evict, history, TypeOK
<1>5. ASSUME NEW a \in Admins, RevokeAll(a)
      PROVE  StaleInv'
  <2>1. /\ repo' = [repo EXCEPT ![Subject[a]] = @ + 1]
        /\ UNCHANGED <<l1, l2, req, superseded>>
    BY <1>5, Zenon DEF RevokeAll
  <2>2. \A q \in Principals : repo'[q] >= repo[q] /\ repo'[q] \in Nat
    <3>1. repo \in [Principals -> 0..MaxChanges]
      BY Zenon DEF TypeOK
    <3> QED
      BY <2>1, <3>1, Placement
  <2> QED
    BY <1>1, <2>1, <2>2, Zenon
<1>6. ASSUME NEW a \in Admins, StartDelete(a) \/ Publish(a)
      PROVE  StaleInv'
  BY <1>2, <1>6, Zenon DEF StartDelete, Publish, history
<1>7. ASSUME NEW a \in Admins, AdminL1Delete(a)
      PROVE  StaleInv'
  BY <1>2, <1>7, Placement, Zenon DEF AdminL1Delete, history, TypeOK
<1>8. ASSUME NEW a \in Admins, AdminL2Delete(a)
      PROVE  StaleInv'
  BY Zenon, <1>2, <1>8, Placement DEF AdminL2Delete, history, TypeOK
<1>9. ASSUME NEW r \in Requests, StartRequest(r) \/ RequestStep(r)
      PROVE  StaleInv'
  BY <1>9, RequestStepStaleInv, Zenon
<1>10. ASSUME NEW n \in Nodes, Listen(n)
       PROVE  StaleInv'
  BY <1>2, <1>10, Zenon DEF Listen, history, TypeOK
<1>11. ASSUME NEW n \in Nodes, Restart(n)
       PROVE  StaleInv'
  BY <1>2, <1>11, Zenon DEF Restart, history, TypeOK
<1>12. ASSUME NEW n \in Nodes, NEW p \in Principals, L1Evict(n, p)
       PROVE  StaleInv'
  BY <1>2, <1>12, Zenon DEF L1Evict, history, TypeOK
<1>13. CASE Tick
  BY <1>13, TickStaleInv, Zenon
<1>14. CASE UNCHANGED vars
  BY <1>2, <1>14, Zenon DEF vars
<1> QED
  BY <1>3, <1>4, <1>5, <1>6, <1>7, <1>8, <1>9, <1>10, <1>11, <1>12, <1>13, <1>14, Zenon
  DEF Next

\* The bound on what a request holds is the bound on what it decides by.
LEMMA StaleInvImplies == TypeOK /\ StaleInv => StaleServeBound
<1> SUFFICES ASSUME TypeOK, StaleInv, NEW r \in Requests, req[r].pc = "decide"
             PROVE  superseded[Subject[r]][req[r].ver] <= MaxStale
  BY Zenon DEF StaleServeBound
<1>1. superseded[Subject[r]][req[r].ver]
         <= 2 * MaxRequestTime + GrantTTL + L1TTL - 2 + req[r].time
  BY InheritedValues, Zenon DEF StaleInv, RequestAgeInv
<1>2. \A p \in Principals, v \in 0..MaxChanges : superseded[p][v] \in Nat
  BY DEF TypeOK
<1> QED
  BY <1>1, <1>2, ReadTypes, Placement DEF MaxStale

\* No decision is made on a permission bundle that the repository replaced more
\* than GrantTTL + L1TTL + 3 * MaxRequestTime - 2 ticks before, for any number
\* of nodes, principals and requests, whatever the bus loses and whatever fails.
THEOREM BoundedStaleness == Spec => []StaleServeBound
<1>1. Init => TypeOK /\ StaleInv
  BY InitTypeOK, InitStaleInv, Zenon
<1>2. TypeOK /\ StaleInv /\ [Next]_vars => (TypeOK /\ StaleInv)'
  BY NextTypeOK, NextStaleInv, Zenon
<1>3. TypeOK /\ StaleInv => StaleServeBound
  BY StaleInvImplies, Zenon
<1> QED
  BY <1>1, <1>2, <1>3, PTL DEF Spec

-----------------------------------------------------------------------------
(* The effect of a revocation                                              *)

\* What the effect of a revocation rests on.
RevokeOrder == \A p \in Principals : lastRevoke[p] <= repo[p]

\* No admin call is between RevokeAll and the L2 delete for p.
L2Purged(p) ==
    \A a \in Admins : Subject[a] = p => admin[a] \notin {"revL1", "revL2"}

\* From the L2 delete on, L2 is free of revoked bundles and no request is about
\* to store one.
PurgeInv ==
    \A p \in Principals :
        p \notin disturbed /\ L2Purged(p) =>
            /\ Present(l2[p]) => ~Revoked(p, l2[p].ver)
            /\ ~StaleFiller(p)

\* From the broadcast on, an L1 that still holds a revoked bundle has the
\* principal on its node's channel.
BroadcastInv ==
    \A p \in Principals :
        p \notin disturbed /\ RevocationOver(p) =>
            \A n \in Nodes :
                Present(l1[n][p]) /\ Revoked(p, l1[n][p].ver) => Pending(n, p)

RevocationInv == RevokeOrder /\ PurgeInv /\ BroadcastInv

\* At first nothing is revoked.
LEMMA InitRevocationInv == Init => RevocationInv
  BY DEF Init, RevocationInv, RevokeOrder, PurgeInv, BroadcastInv, Absent,
         Present, StaleFiller, IdleRequest, Filling

\* When a revocation is over the second level was purged.
LEMMA OverIsPurged ==
  ASSUME NEW p \in Principals, RevocationOver(p)
  PROVE  L2Purged(p)
  BY Zenon DEF RevocationOver, L2Purged, Revoking

\* A request moves on; it becomes no stale filler of p if the version it holds
\* next is not revoked.
LEMMA FillerGoto ==
  ASSUME TypeOK, UNCHANGED lastRevoke, NEW p \in Principals, ~StaleFiller(p),
         NEW r \in Requests, NEW pc \in RequestPC, NEW v \in 0..MaxChanges,
         Goto(r, pc, v),
         Subject[r] = p /\ pc \in Filling => ~Revoked(p, v)
  PROVE  ~StaleFiller(p)'
<1> SUFFICES ASSUME NEW q \in Requests, Subject[q] = p,
                    req'[q].pc \in Filling, Revoked(p, req'[q].ver)
             PROVE  FALSE
  BY Zenon DEF StaleFiller, Revoked
<1>1. CASE q = r
  <2>1. req'[r] = [pc |-> pc, ver |-> v, time |-> req[r].time]
    BY Zenon DEF Goto, TypeOK
  <2> QED
    BY <1>1, <2>1
<1>2. CASE q # r
  <2>1. req'[q] = req[q]
    BY <1>2, Zenon DEF Goto, TypeOK
  <2> QED
    BY <2>1, Zenon DEF StaleFiller
<1> QED
  BY <1>1, <1>2, Zenon

\* A request that ends fills nothing.
LEMMA FillerDone ==
  ASSUME UNCHANGED lastRevoke, NEW p \in Principals, ~StaleFiller(p),
         \A r \in Requests : req'[r] = req[r] \/ req'[r] = IdleRequest
  PROVE  ~StaleFiller(p)'
  BY DEF StaleFiller, Revoked, IdleRequest, Filling

\* The steps that only move a request on and leave L1 and L2 as they are.
LEMMA MoveRevocationInv ==
  ASSUME RevocationInv, UNCHANGED <<repo, l1, l2, chan, admin, lastRevoke, disturbed>>,
         \A p \in Principals :
             p \notin disturbed /\ L2Purged(p) => ~StaleFiller(p)'
  PROVE  RevocationInv'
<1>1. RevokeOrder'
  BY Zenon DEF RevocationInv, RevokeOrder
<1>2. PurgeInv'
  BY Zenon DEF RevocationInv, PurgeInv, L2Purged, Revoked
<1>3. BroadcastInv'
  BY Zenon DEF RevocationInv, BroadcastInv, RevocationOver, Revoked, Pending
<1> QED
  BY <1>1, <1>2, <1>3, Zenon DEF RevocationInv

\* A request stores in L1 what it holds and moves on with it.
LEMMA L1StoreRevocationInv ==
  ASSUME TypeOK, RevocationInv, NEW r \in Requests, NEW pc \in RequestPC,
         NEW ttl \in Nat, req[r].pc \in Filling,
         L1Store(Host[r], Subject[r], req[r].ver, ttl),
         Goto(r, pc, req[r].ver),
         UNCHANGED <<repo, l2, chan, admin, lastRevoke, disturbed>>
  PROVE  RevocationInv'
<1>0. Host[r] \in Nodes /\ Subject[r] \in Principals /\ req[r].ver \in 0..MaxChanges
  BY Placement, ReadTypes, Zenon
<1>1. RevokeOrder'
  BY Zenon DEF RevocationInv, RevokeOrder
<1>2. ASSUME NEW p \in Principals, p \notin disturbed, L2Purged(p)
      PROVE  /\ Present(l2[p]) => ~Revoked(p, l2[p].ver)
             /\ ~StaleFiller(p)
             /\ Subject[r] = p => ~Revoked(p, req[r].ver)
  BY <1>2, Zenon DEF RevocationInv, PurgeInv, StaleFiller
<1>3. PurgeInv'
  <2> SUFFICES ASSUME NEW p \in Principals, p \notin disturbed, L2Purged(p)
               PROVE  /\ Present(l2[p]) => ~Revoked(p, l2[p].ver)
                      /\ ~StaleFiller(p)'
    BY Zenon DEF PurgeInv, L2Purged, Revoked
  <2> QED
    BY <1>0, <1>2, FillerGoto, Zenon
<1>4. BroadcastInv'
  <2> SUFFICES ASSUME NEW p \in Principals, p \notin disturbed,
                      RevocationOver(p), NEW n \in Nodes,
                      Present(l1'[n][p]), Revoked(p, l1'[n][p].ver)
               PROVE  Pending(n, p)
    BY Zenon DEF BroadcastInv, RevocationOver, Revoked, Pending
  <2>1. \/ l1'[n][p] = l1[n][p]
        \/ p = Subject[r] /\ l1'[n][p] = [ver |-> req[r].ver, ttl |-> ttl]
    <3>1. CASE l1' = [l1 EXCEPT ![Host[r]][Subject[r]] =
                                    [ver |-> req[r].ver, ttl |-> ttl]]
      BY <1>0, <3>1, Zenon DEF TypeOK
    <3>2. CASE UNCHANGED l1
      BY <3>2, Zenon
    <3> QED
      BY <3>1, <3>2, Zenon DEF L1Store
  <2>2. CASE l1'[n][p] = l1[n][p]
    BY <2>2, Zenon DEF RevocationInv, BroadcastInv
  <2>3. CASE p = Subject[r] /\ l1'[n][p] = [ver |-> req[r].ver, ttl |-> ttl]
    BY <1>2, <2>3, OverIsPurged
  <2> QED
    BY <2>1, <2>2, <2>3, Zenon
<1> QED
  BY <1>1, <1>3, <1>4, Zenon DEF RevocationInv

\* A step of a request keeps the invariant of a revocation.
LEMMA RequestStepRevocationInv ==
  ASSUME TypeOK, RevocationInv, NEW r \in Requests,
         StartRequest(r) \/ RequestStep(r)
  PROVE  RevocationInv'
<1>0. /\ Subject[r] \in Principals /\ Host[r] \in Nodes
      /\ req[r].ver \in 0..MaxChanges
      /\ RevokeOrder /\ PurgeInv /\ BroadcastInv
  BY Placement, ReadTypes, Zenon DEF RevocationInv
<1>1. ASSUME NEW p \in Principals, p \notin disturbed, L2Purged(p)
      PROVE  ~StaleFiller(p) /\ (Present(l2[p]) => ~Revoked(p, l2[p].ver))
  BY <1>0, <1>1, Zenon DEF PurgeInv
<1>2. UNCHANGED <<repo, chan, admin, lastRevoke, disturbed>>
  BY Zenon DEF StartRequest, RequestStep, TieredL1Get, TieredL2Get, TieredL1Fill,
     RepoGet, TieredL1Set, TieredL2Set, Decide, history
<1>3. ASSUME UNCHANGED <<l1, l2>>, NEW pc \in RequestPC, pc \notin Filling,
             NEW v \in 0..MaxChanges, Goto(r, pc, v)
      PROVE  RevocationInv'
  <2>1. ASSUME NEW p \in Principals, p \notin disturbed, L2Purged(p)
        PROVE  ~StaleFiller(p)'
    BY <1>1, <1>2, <1>3, <2>1, FillerGoto, Zenon
  <2> QED
    BY <1>2, <1>3, <2>1, MoveRevocationInv, Zenon
<1>4. ASSUME UNCHANGED <<l1, l2>>, req' = [req EXCEPT ![r] = IdleRequest]
      PROVE  RevocationInv'
  <2>1. \A q \in Requests : req'[q] = req[q] \/ req'[q] = IdleRequest
    BY <1>4, Zenon DEF TypeOK
  <2>2. ASSUME NEW p \in Principals, p \notin disturbed, L2Purged(p)
        PROVE  ~StaleFiller(p)'
    BY <1>1, <1>2, <2>1, <2>2, FillerDone, Zenon
  <2> QED
    BY <1>2, <1>4, <2>2, MoveRevocationInv, Zenon
<1>5. /\ "l1get" \notin Filling /\ "l2get" \notin Filling
      /\ "repo" \notin Filling /\ "decide" \notin Filling
      /\ "l1fill" \in Filling /\ "l1set" \in Filling /\ "l2set" \in Filling
  BY Zenon DEF Filling
<1>6. CASE StartRequest(r)
  <2>1. UNCHANGED <<l1, l2>> /\ Goto(r, "l1get", 0)
    BY <1>6, Zenon DEF StartRequest
  <2> QED
    BY <1>3, <1>5, <2>1, ProgramCounters, Zenon
<1>7. CASE TieredL1Get(r)
  <2>1. /\ UNCHANGED <<l1, l2>>
        /\ \/ Goto(r, "decide", l1[Host[r]][Subject[r]].ver)
           \/ Goto(r, "l2get", 0)
    BY <1>7, Zenon DEF TieredL1Get
  <2> QED
    BY <1>0, <1>3, <1>5, <2>1, ProgramCounters, ReadTypes, Zenon
<1>8. CASE TieredL2Get(r)
  <2>1. UNCHANGED <<l1, l2>>
    BY <1>8, Zenon DEF TieredL2Get
  <2>2. CASE Goto(r, "repo", 0)
    BY <1>3, <1>5, <2>1, <2>2, ProgramCounters, Zenon
  <2>3. CASE Present(l2[Subject[r]]) /\ Goto(r, "l1fill", l2[Subject[r]].ver)
    <3>1. l2[Subject[r]].ver \in 0..MaxChanges
      BY <1>0, ReadTypes, Zenon
    <3>2. ASSUME NEW p \in Principals, p \notin disturbed, L2Purged(p)
          PROVE  ~StaleFiller(p)'
      BY <1>1, <1>2, <2>3, <3>1, <3>2, FillerGoto, ProgramCounters, Zenon
    <3> QED
      BY <1>2, <2>1, <3>2, MoveRevocationInv, Zenon
  <2> QED
    BY <1>8, <2>2, <2>3, Zenon DEF TieredL2Get
<1>9. CASE TieredL1Fill(r)
  <2>1. /\ req[r].pc = "l1fill" /\ UNCHANGED l2
        /\ L1Store(Host[r], Subject[r], req[r].ver, L1TTL)
        /\ Goto(r, "decide", req[r].ver)
    BY <1>9, Zenon DEF TieredL1Fill
  <2> QED
    BY <1>2, <1>5, <2>1, L1StoreRevocationInv, ProgramCounters, Zenon
<1>10. CASE RepoGet(r)
  <2>1. UNCHANGED <<l1, l2>>
    BY <1>10, Zenon DEF RepoGet
  <2>2. CASE Goto(r, "l1set", repo[Subject[r]])
    <3>1. /\ repo[Subject[r]] \in 0..MaxChanges
          /\ lastRevoke[Subject[r]] \in 0..MaxChanges
      BY <1>0, ReadTypes, Zenon DEF TypeOK
    <3>2. ~Revoked(Subject[r], repo[Subject[r]])
      BY <1>0, <3>1 DEF Revoked, RevokeOrder
    <3>3. ASSUME NEW p \in Principals, p \notin disturbed, L2Purged(p)
          PROVE  ~StaleFiller(p)'
      BY <1>1, <1>2, <2>2, <3>1, <3>2, <3>3, FillerGoto, ProgramCounters, Zenon
    <3> QED
      BY <1>2, <2>1, <3>3, MoveRevocationInv, Zenon
  <2>3. CASE req' = [req EXCEPT ![r] = IdleRequest]
    BY <1>4, <2>1, <2>3, Zenon
  <2> QED
    BY <1>10, <2>2, <2>3, Zenon DEF RepoGet
<1>11. CASE TieredL1Set(r)
  <2> DEFINE ttl == IF GrantTTL < L1TTL THEN GrantTTL ELSE L1TTL
  <2>1. /\ req[r].pc = "l1set" /\ UNCHANGED l2 /\ ttl \in Nat
        /\ L1Store(Host[r], Subject[r], req[r].ver, ttl)
        /\ Goto(r, "l2set", req[r].ver)
    BY <1>11, Zenon DEF TieredL1Set
  <2> QED
    BY <1>2, <1>5, <2>1, L1StoreRevocationInv, ProgramCounters, Zenon
<1>12. CASE TieredL2Set(r)
  <2>1. /\ req[r].pc = "l2set" /\ UNCHANGED l1
        /\ \/ l2' = [l2 EXCEPT ![Subject[r]] =
                                  [ver |-> req[r].ver, ttl |-> GrantTTL]]
           \/ UNCHANGED l2
        /\ Goto(r, "decide", req[r].ver)
    BY <1>12, Zenon DEF TieredL2Set
  <2>2. RevokeOrder'
    BY <1>0, <1>2, Zenon DEF RevokeOrder
  <2>3. BroadcastInv'
    BY <1>0, <1>2, <2>1, Zenon DEF BroadcastInv, RevocationOver, Revoked, Pending
  <2>4. PurgeInv'
    <3> SUFFICES ASSUME NEW p \in Principals, p \notin disturbed, L2Purged(p)
                 PROVE  /\ Present(l2'[p]) => ~Revoked(p, l2'[p].ver)
                        /\ ~StaleFiller(p)'
      BY <1>2, Zenon DEF PurgeInv, L2Purged, Revoked
    <3>1. ~StaleFiller(p)'
      BY <1>0, <1>1, <1>2, <1>5, <2>1, FillerGoto, ProgramCounters, Zenon
    <3>2. Subject[r] = p => ~Revoked(p, req[r].ver)
      BY <1>1, <1>5, <2>1, Zenon DEF StaleFiller
    <3>3. \/ l2'[p] = l2[p]
          \/ p = Subject[r] /\ l2'[p] = [ver |-> req[r].ver, ttl |-> GrantTTL]
      BY Zenon, <2>1 DEF TypeOK
    <3> QED
      BY <1>1, <3>1, <3>2, <3>3
  <2> QED
    BY <2>2, <2>3, <2>4, Zenon DEF RevocationInv
<1>13. CASE Decide(r)
  BY <1>4, <1>13, Zenon DEF Decide
<1> QED
  BY <1>6, <1>7, <1>8, <1>9, <1>10, <1>11, <1>12, <1>13, Zenon DEF RequestStep

\* The steps that take entries out of L1 or L2, or only age them, and otherwise
\* leave what RevocationInv speaks of as it is.
LEMMA DropRevocationInv ==
  ASSUME RevocationInv,
         UNCHANGED <<repo, chan, lastRevoke, disturbed>>,
         \A p \in Principals : Present(l2'[p]) => /\ Present(l2[p])
                                                  /\ l2'[p].ver = l2[p].ver,
         \A n \in Nodes, p \in Principals :
             Present(l1'[n][p]) => Present(l1[n][p]) /\ l1'[n][p].ver = l1[n][p].ver,
         \A r \in Requests : req'[r].pc = req[r].pc /\ req'[r].ver = req[r].ver,
         \A a \in Admins : admin[a] \in Revoking => admin'[a] \in Revoking,
         \A a \in Admins : admin[a] \in {"revL1", "revL2"}
                               => admin'[a] \in {"revL1", "revL2"}
  PROVE  RevocationInv'
<1>1. RevokeOrder'
  BY Zenon DEF RevocationInv, RevokeOrder
<1>2. PurgeInv'
  <2> SUFFICES ASSUME NEW p \in Principals, p \notin disturbed, L2Purged(p)'
               PROVE  /\ Present(l2'[p]) => ~Revoked(p, l2'[p].ver)
                      /\ ~StaleFiller(p)'
    BY Zenon DEF PurgeInv, Revoked
  <2>1. L2Purged(p)
    BY Zenon DEF L2Purged
  <2>2. (Present(l2[p]) => ~Revoked(p, l2[p].ver)) /\ ~StaleFiller(p)
    BY <2>1, Zenon DEF RevocationInv, PurgeInv
  <2>3. ~StaleFiller(p)'
    BY <2>2, Zenon DEF StaleFiller, Revoked
  <2> QED
    BY <2>2, <2>3, Zenon
<1>3. BroadcastInv'
  <2> SUFFICES ASSUME NEW p \in Principals, p \notin disturbed, RevocationOver(p)',
                      NEW n \in Nodes,
                      Present(l1'[n][p]), Revoked(p, l1'[n][p].ver)
               PROVE  Pending(n, p)
    BY DEF BroadcastInv, Revoked, Pending
  <2>1. RevocationOver(p)
    BY Zenon DEF RevocationOver
  <2> QED
    BY <2>1, Zenon DEF RevocationInv, BroadcastInv
<1> QED
  BY <1>1, <1>2, <1>3, Zenon DEF RevocationInv

\* A grant keeps the invariant of a revocation.
LEMMA GrantRevocationInv ==
  ASSUME TypeOK, RevocationInv, NEW p \in Principals, GrantPermission(p)
  PROVE  RevocationInv'
<1>1. RevokeOrder'
  <2>1. /\ repo \in [Principals -> 0..MaxChanges]
        /\ lastRevoke \in [Principals -> 0..MaxChanges]
    BY Zenon DEF TypeOK
  <2>2. \A q \in Principals : repo'[q] >= repo[q]
    BY <2>1 DEF GrantPermission
  <2>3. \A q \in Principals : repo'[q] \in Int /\ lastRevoke[q] <= repo[q]
    BY <2>1 DEF GrantPermission, RevocationInv, RevokeOrder
  <2> QED
    BY <2>1, <2>2, <2>3 DEF GrantPermission, history, RevokeOrder
<1>2. PurgeInv'
  BY Zenon DEF GrantPermission, history, RevocationInv, PurgeInv, L2Purged, StaleFiller,
         Revoked
<1>3. BroadcastInv'
  BY Zenon DEF GrantPermission, history, RevocationInv, BroadcastInv, RevocationOver,
         Revoked, Pending
<1> QED
  BY <1>1, <1>2, <1>3, Zenon DEF RevocationInv

\* The admin call that made the revocation is on its way, so nothing is claimed
\* of its principal.
LEMMA RevokeAllRevocationInv ==
  ASSUME TypeOK, RevocationInv, NEW a \in Admins, RevokeAll(a)
  PROVE  RevocationInv'
<1> DEFINE s == Subject[a]
<1>0. /\ s \in Principals
      /\ admin'[a] = "revL1"
      /\ \A b \in Admins : b # a => admin'[b] = admin[b]
      /\ admin[a] = "idle"
      /\ UNCHANGED <<l1, l2, chan, req>>
  BY Placement, Zenon DEF RevokeAll, TypeOK
<1>1. /\ repo \in [Principals -> 0..MaxChanges]
      /\ lastRevoke \in [Principals -> 0..MaxChanges]
      /\ disturbed \subseteq Principals
  BY Zenon DEF TypeOK
<1>2. /\ repo'[s] = repo[s] + 1 /\ lastRevoke'[s] = repo[s] + 1
      /\ disturbed' = disturbed \ {s}
      /\ \A q \in Principals : q # s => /\ repo'[q] = repo[q]
                                        /\ lastRevoke'[q] = lastRevoke[q]
  BY <1>0, <1>1, Zenon DEF RevokeAll
<1>3. RevokeOrder'
  BY <1>0, <1>1, <1>2 DEF RevocationInv, RevokeOrder
<1>4. ~L2Purged(s)' /\ ~RevocationOver(s)'
  BY <1>0, Zenon DEF L2Purged, RevocationOver, Revoking
<1>5. PurgeInv'
  <2> SUFFICES ASSUME NEW p \in Principals, p \notin disturbed', L2Purged(p)'
               PROVE  /\ (Present(l2[p]) => ~Revoked(p, l2[p].ver))'
                      /\ ~StaleFiller(p)'
    BY Zenon DEF PurgeInv
  <2>1. p # s /\ p \notin disturbed
    BY <1>2, <1>4, Zenon
  <2>2. L2Purged(p)
    BY <1>0, <2>1, Zenon DEF L2Purged
  <2> QED
    BY <1>0, <1>2, <2>1, <2>2, Zenon DEF RevocationInv, PurgeInv, StaleFiller, Revoked
<1>6. BroadcastInv'
  <2> SUFFICES ASSUME NEW p \in Principals, p \notin disturbed', RevocationOver(p)',
                      NEW n \in Nodes,
                      (Present(l1[n][p]) /\ Revoked(p, l1[n][p].ver))'
               PROVE  Pending(n, p)'
    BY Zenon DEF BroadcastInv
  <2>1. p # s /\ p \notin disturbed
    BY <1>2, <1>4, Zenon
  <2>2. RevocationOver(p)
    BY <1>0, <2>1, Zenon DEF RevocationOver
  <2> QED
    BY <1>0, <1>2, <2>1, <2>2, Zenon DEF RevocationInv, BroadcastInv, Revoked, Pending
<1> QED
  BY <1>3, <1>5, <1>6, Zenon DEF RevocationInv

\* The L2 delete of a revocation is where L2 becomes clean, unless it fails or a
\* request is about to store what was revoked.
LEMMA L2DeleteRevocationInv ==
  ASSUME TypeOK, RevocationInv, NEW a \in Admins, AdminL2Delete(a)
  PROVE  RevocationInv'
<1> DEFINE s == Subject[a]
<1>0. /\ s \in Principals
      /\ \A b \in Admins : b # a => admin'[b] = admin[b]
      /\ admin[a] = "revL2" => admin'[a] = "revPublish"
      /\ admin[a] = "delL2" => admin'[a] = "idle"
      /\ admin[a] \in {"revL2", "delL2"}
      /\ UNCHANGED <<repo, l1, chan, req, lastRevoke>>
  BY Placement, Zenon DEF AdminL2Delete, TypeOK
<1>1. /\ disturbed \subseteq disturbed'
      /\ \/ l2' = [l2 EXCEPT ![s] = Absent]
         \/ UNCHANGED l2
      /\ admin[a] = "revL2" /\ s \notin disturbed' =>
             l2' = [l2 EXCEPT ![s] = Absent] /\ ~StaleFiller(s)
  BY Zenon DEF AdminL2Delete, Disturb
<1>2. \A p \in Principals : l2'[p] = l2[p] \/ l2'[p] = Absent
  BY Zenon, <1>0, <1>1 DEF TypeOK
<1>3. RevokeOrder'
  BY <1>0, Zenon DEF RevocationInv, RevokeOrder
<1>4. PurgeInv'
  <2> SUFFICES ASSUME NEW p \in Principals, p \notin disturbed', L2Purged(p)'
               PROVE  /\ (Present(l2[p]) => ~Revoked(p, l2[p].ver))'
                      /\ ~StaleFiller(p)'
    BY Zenon DEF PurgeInv
  <2>1. CASE admin[a] = "revL2" /\ p = s
    <3>1. l2'[s] = Absent /\ ~StaleFiller(s)
      BY <1>0, <1>1, <2>1, Zenon DEF TypeOK
    <3> QED
      BY <1>0, <2>1, <3>1 DEF StaleFiller, Revoked, Absent, Present
  <2>2. CASE admin[a] = "delL2" \/ p # s
    <3>1. L2Purged(p)
      BY <1>0, <2>2, Zenon DEF L2Purged
    <3>2. (Present(l2[p]) => ~Revoked(p, l2[p].ver)) /\ ~StaleFiller(p)
      BY <1>1, <3>1, Zenon DEF RevocationInv, PurgeInv
    <3> QED
      BY <1>0, <1>2, <3>2 DEF StaleFiller, Revoked, Absent, Present
  <2> QED
    BY <1>0, <2>1, <2>2, Zenon
<1>5. BroadcastInv'
  <2> SUFFICES ASSUME NEW p \in Principals, p \notin disturbed', RevocationOver(p)',
                      NEW n \in Nodes,
                      (Present(l1[n][p]) /\ Revoked(p, l1[n][p].ver))'
               PROVE  Pending(n, p)'
    BY Zenon DEF BroadcastInv
  <2>1. RevocationOver(p)
    BY <1>0, Zenon DEF RevocationOver, Revoking
  <2> QED
    BY <1>0, <1>1, <2>1 DEF RevocationInv, BroadcastInv, Revoked, Pending
<1> QED
  BY <1>3, <1>4, <1>5, Zenon DEF RevocationInv

\* A broadcast that is queued is pending, and no other is lost.
LEMMA PendingAppend ==
  ASSUME TypeOK, NEW n \in Nodes, NEW p \in Principals, NEW s \in Principals,
         \/ chan'[n] = chan[n]
         \/ chan'[n] = Append(chan[n], s)
  PROVE  /\ Pending(n, p) => Pending(n, p)'
         /\ chan'[n] = Append(chan[n], s) => Pending(n, s)'
<1>1. chan[n] \in Seq(Principals)
  BY Zenon DEF TypeOK
<1>2. CASE chan'[n] = chan[n] /\ chan'[n] # Append(chan[n], s)
  BY <1>2, Zenon DEF Pending
<1>3. CASE chan'[n] = Append(chan[n], s)
  <2>1. /\ Len(chan'[n]) = Len(chan[n]) + 1
        /\ chan'[n][Len(chan[n]) + 1] = s
        /\ \A i \in 1..Len(chan[n]) : chan'[n][i] = chan[n][i]
        /\ Len(chan[n]) \in Nat
    BY <1>1, <1>3
  <2> QED
    BY <2>1 DEF Pending
<1> QED
  BY <1>2, <1>3, Zenon

\* The broadcast keeps the invariant of a revocation.
LEMMA PublishRevocationInv ==
  ASSUME TypeOK, RevocationInv, NEW a \in Admins, Publish(a)
  PROVE  RevocationInv'
<1> DEFINE s == Subject[a]
<1>0. /\ s \in Principals
      /\ \A b \in Admins : b # a => admin'[b] = admin[b]
      /\ admin[a] = "revPublish" /\ admin'[a] = "idle"
      /\ UNCHANGED <<repo, l1, l2, req, lastRevoke>>
  BY Placement, Zenon DEF Publish, TypeOK
<1>1. PICK lost \in SUBSET Nodes :
          /\ chan' = [n \in Nodes |-> IF n \in lost THEN chan[n]
                                                    ELSE Append(chan[n], s)]
          /\ IF \E n \in lost : ~Pending(n, s) THEN Disturb({s})
                                                ELSE Disturb({})
  BY Zenon DEF Publish
<1>2. /\ disturbed \subseteq disturbed'
      /\ s \notin disturbed' => \A n \in lost : Pending(n, s)
  BY <1>1, Zenon DEF Disturb
<1>3. /\ \A n \in Nodes : /\ n \in lost => chan'[n] = chan[n]
                          /\ n \notin lost => chan'[n] = Append(chan[n], s)
  BY <1>1, Zenon
<1>4. RevokeOrder'
  BY <1>0, Zenon DEF RevocationInv, RevokeOrder
<1>5. PurgeInv'
  <2> SUFFICES ASSUME NEW p \in Principals, p \notin disturbed', L2Purged(p)'
               PROVE  /\ (Present(l2[p]) => ~Revoked(p, l2[p].ver))'
                      /\ ~StaleFiller(p)'
    BY Zenon DEF PurgeInv
  <2>1. L2Purged(p)
    BY <1>0, Zenon DEF L2Purged
  <2> QED
    BY <1>0, <1>2, <2>1, Zenon DEF RevocationInv, PurgeInv, StaleFiller, Revoked
<1>6. BroadcastInv'
  <2> SUFFICES ASSUME NEW p \in Principals, p \notin disturbed', RevocationOver(p)',
                      NEW n \in Nodes,
                      (Present(l1[n][p]) /\ Revoked(p, l1[n][p].ver))'
               PROVE  Pending(n, p)'
    BY Zenon DEF BroadcastInv
  <2>1. CASE p = s
    BY <1>0, <1>2, <1>3, <2>1, PendingAppend, Zenon
  <2>2. CASE p # s
    <3>1. RevocationOver(p)
      BY <1>0, <2>2, Zenon DEF RevocationOver
    <3>2. Pending(n, p)
      BY <1>0, <1>2, <3>1, Zenon DEF RevocationInv, BroadcastInv, Revoked
    <3> QED
      BY <1>0, <1>3, <3>2, PendingAppend, Zenon
  <2> QED
    BY <2>1, <2>2, Zenon
<1> QED
  BY <1>4, <1>5, <1>6, Zenon DEF RevocationInv

\* The listener takes the head off the channel and evicts that principal, so
\* every other principal that was pending still is.
LEMMA ListenRevocationInv ==
  ASSUME TypeOK, RevocationInv, NEW n \in Nodes, Listen(n)
  PROVE  RevocationInv'
<1> DEFINE h == Head(chan[n])
<1>0. /\ chan[n] \in Seq(Principals) /\ chan[n] # << >>
      /\ chan \in [Nodes -> Seq(Principals)]
      /\ l1 \in [Nodes -> [Principals -> Entry]]
      /\ l1' = [l1 EXCEPT ![n][h] = Absent]
      /\ chan' = [chan EXCEPT ![n] = Tail(@)]
      /\ UNCHANGED <<repo, l2, req, admin, lastRevoke, disturbed>>
  BY Zenon DEF Listen, TypeOK, history
<1>1. h \in Principals
  BY <1>0
<1>2. /\ l1'[n][h] = Absent
      /\ \A m \in Nodes, p \in Principals :
             m # n \/ p # h => l1'[m][p] = l1[m][p]
  BY <1>0, <1>1, Zenon
<1>3. \A m \in Nodes : m # n => chan'[m] = chan[m]
  BY <1>0, Zenon
<1>4. ASSUME NEW p \in Principals, p # h, Pending(n, p)
      PROVE  Pending(n, p)'
  <2>1. PICK i \in 1..Len(chan[n]) : chan[n][i] = p
    BY <1>4, Zenon DEF Pending
  <2>2. /\ chan'[n] = Tail(chan[n])
        /\ Len(chan'[n]) = Len(chan[n]) - 1 /\ Len(chan[n]) \in Nat
        /\ \A j \in 1..(Len(chan[n]) - 1) : chan'[n][j] = chan[n][j + 1]
    BY <1>0
  <2>3. i # 1
    BY <1>0, <1>4, <2>1
  <2>4. i - 1 \in 1..Len(chan'[n]) /\ chan'[n][i - 1] = p
    BY <2>1, <2>2, <2>3
  <2> QED
    BY <2>4, Zenon DEF Pending
<1>5. RevokeOrder'
  BY <1>0, Zenon DEF RevocationInv, RevokeOrder
<1>6. PurgeInv'
  BY <1>0, Zenon DEF RevocationInv, PurgeInv, L2Purged, StaleFiller, Revoked
<1>7. BroadcastInv'
  <2> SUFFICES ASSUME NEW p \in Principals, p \notin disturbed, RevocationOver(p),
                      NEW m \in Nodes,
                      (Present(l1[m][p]) /\ Revoked(p, l1[m][p].ver))'
               PROVE  Pending(m, p)'
    BY <1>0, Zenon DEF BroadcastInv, RevocationOver
  <2>1. m # n \/ p # h
    BY <1>2 DEF Absent, Present
  <2>2. Pending(m, p)
    BY <1>0, <1>2, <2>1, Zenon DEF RevocationInv, BroadcastInv, Revoked
  <2> QED
    BY <1>3, <1>4, <2>1, <2>2, Zenon DEF Pending
<1> QED
  BY <1>5, <1>6, <1>7, Zenon DEF RevocationInv

\* A crash of a node takes its L1, its channel, its requests and its admin calls
\* with it; a revocation it was making counts as disturbed.
LEMMA RestartRevocationInv ==
  ASSUME TypeOK, RevocationInv, NEW n \in Nodes, Restart(n)
  PROVE  RevocationInv'
<1>0. /\ UNCHANGED <<repo, l2, lastRevoke>>
      /\ disturbed \subseteq disturbed'
      /\ \A a \in Admins : Host[a] = n /\ admin[a] \in Revoking =>
                               Subject[a] \in disturbed'
      /\ \A a \in Admins : Host[a] # n => admin'[a] = admin[a]
  BY Placement, Zenon DEF Restart, Disturb
<1>1. /\ \A p \in Principals : l1'[n][p] = Absent
      /\ \A m \in Nodes : m # n => l1'[m] = l1[m] /\ chan'[m] = chan[m]
  BY Zenon DEF Restart, TypeOK
<1>2. \A r \in Requests : req'[r] = req[r] \/ req'[r] = IdleRequest
  BY Zenon DEF Restart
<1>3. RevokeOrder'
  BY <1>0, Zenon DEF RevocationInv, RevokeOrder
<1>4. PurgeInv'
  <2> SUFFICES ASSUME NEW p \in Principals, p \notin disturbed', L2Purged(p)'
               PROVE  /\ (Present(l2[p]) => ~Revoked(p, l2[p].ver))'
                      /\ ~StaleFiller(p)'
    BY Zenon DEF PurgeInv
  <2>1. L2Purged(p) /\ p \notin disturbed
    BY <1>0, Zenon DEF L2Purged, Revoking
  <2>2. (Present(l2[p]) => ~Revoked(p, l2[p].ver)) /\ ~StaleFiller(p)
    BY <2>1, Zenon DEF RevocationInv, PurgeInv
  <2>3. ~StaleFiller(p)'
    BY <1>0, <1>2, <2>2, FillerDone, Zenon
  <2> QED
    BY <1>0, <2>2, <2>3, Zenon DEF Revoked
<1>5. BroadcastInv'
  <2> SUFFICES ASSUME NEW p \in Principals, p \notin disturbed', RevocationOver(p)',
                      NEW m \in Nodes,
                      (Present(l1[m][p]) /\ Revoked(p, l1[m][p].ver))'
               PROVE  Pending(m, p)'
    BY Zenon DEF BroadcastInv
  <2>1. RevocationOver(p) /\ p \notin disturbed
    BY <1>0, Zenon DEF RevocationOver
  <2>2. m # n
    BY <1>1 DEF Absent, Present
  <2> QED
    BY <1>0, <1>1, <2>1, <2>2 DEF RevocationInv, BroadcastInv, Revoked, Pending
<1> QED
  BY <1>3, <1>4, <1>5, Zenon DEF RevocationInv

\* Time keeps the invariant of a revocation.
LEMMA TickRevocationInv ==
  ASSUME TypeOK, RevocationInv, Tick
  PROVE  RevocationInv'
<1>1. \A e \in Entry : Present(Older(e)) => Present(e) /\ Older(e).ver = e.ver
  BY DEF Entry, Present, Older, Absent
<1>2. /\ \A p \in Principals : l2[p] \in Entry /\ l2'[p] = Older(l2[p])
      /\ \A n \in Nodes, p \in Principals : /\ l1[n][p] \in Entry
                                            /\ l1'[n][p] = Older(l1[n][p])
  BY ReadTypes, Zenon DEF Tick
<1>3. \A r \in Requests : req'[r].pc = req[r].pc /\ req'[r].ver = req[r].ver
  BY Zenon DEF Tick
<1>4. UNCHANGED <<repo, chan, admin, lastRevoke, disturbed>>
  BY Zenon DEF Tick
<1> QED
  BY <1>1, <1>2, <1>3, <1>4, DropRevocationInv

\* Every step keeps the invariant of a revocation.
LEMMA NextRevocationInv ==
  TypeOK /\ RevocationInv /\ [Next]_vars => RevocationInv'
<1> SUFFICES ASSUME TypeOK, RevocationInv, [Next]_vars
             PROVE  RevocationInv'
  BY Zenon
<1>1. ASSUME UNCHANGED <<repo, chan, req, lastRevoke, disturbed>>,
             \A n \in Nodes, p \in Principals :
                l1'[n][p] = l1[n][p] \/ l1'[n][p] = Absent,
             \A p \in Principals : l2'[p] = l2[p] \/ l2'[p] = Absent,
             \A a \in Admins : admin[a] \in Revoking => admin'[a] \in Revoking,
             \A a \in Admins : admin[a] \in {"revL1", "revL2"}
                                   => admin'[a] \in {"revL1", "revL2"}
      PROVE  RevocationInv'
  <2>1. ~Present(Absent)
    BY DEF Absent, Present
  <2> QED
    BY <1>1, <2>1, DropRevocationInv, Zenon
<1>2. ASSUME NEW p \in Principals, GrantPermission(p)
      PROVE  RevocationInv'
  BY <1>2, GrantRevocationInv, Zenon
<1>3. ASSUME NEW p \in Principals, L2Evict(p)
      PROVE  RevocationInv'
  BY <1>1, <1>3, Zenon DEF L2Evict, history, TypeOK
<1>4. ASSUME NEW a \in Admins, RevokeAll(a)
      PROVE  RevocationInv'
  BY <1>4, RevokeAllRevocationInv, Zenon
<1>5. ASSUME NEW a \in Admins, StartDelete(a)
      PROVE  RevocationInv'
  BY <1>1, <1>5, Zenon DEF StartDelete, history, TypeOK, Revoking
<1>6. ASSUME NEW a \in Admins, AdminL1Delete(a)
      PROVE  RevocationInv'
  BY <1>1, <1>6, Placement, Zenon DEF AdminL1Delete, history, TypeOK, Revoking
<1>7. ASSUME NEW a \in Admins, AdminL2Delete(a)
      PROVE  RevocationInv'
  BY <1>7, L2DeleteRevocationInv, Zenon
<1>8. ASSUME NEW a \in Admins, Publish(a)
      PROVE  RevocationInv'
  BY <1>8, PublishRevocationInv, Zenon
<1>9. ASSUME NEW r \in Requests, StartRequest(r) \/ RequestStep(r)
      PROVE  RevocationInv'
  BY <1>9, RequestStepRevocationInv, Zenon
<1>10. ASSUME NEW n \in Nodes, Listen(n)
       PROVE  RevocationInv'
  BY <1>10, ListenRevocationInv, Zenon
<1>11. ASSUME NEW n \in Nodes, Restart(n)
       PROVE  RevocationInv'
  BY <1>11, RestartRevocationInv, Zenon
<1>12. ASSUME NEW n \in Nodes, NEW p \in Principals, L1Evict(n, p)
       PROVE  RevocationInv'
  BY Zenon, <1>1, <1>12 DEF L1Evict, history, TypeOK
<1>13. CASE Tick
  BY <1>13, TickRevocationInv, Zenon
<1>14. CASE UNCHANGED vars
  BY <1>1, <1>14, Zenon DEF vars
<1> QED
  BY <1>2, <1>3, <1>4, <1>5, <1>6, <1>7, <1>8, <1>9, <1>10, <1>11, <1>12, <1>13,
     <1>14, Zenon
  DEF Next

\* After PublishRevocation an undisturbed revocation has left no revoked bundle
\* in L2, and each node's L1 gives its copy up no later than its listener takes
\* the principal off the channel, for any number of nodes and concurrent calls.
THEOREM RevocationTakesEffect == Spec => []RevocationEffective
<1>1. Init => TypeOK /\ RevocationInv
  BY InitTypeOK, InitRevocationInv, Zenon
<1>2. TypeOK /\ RevocationInv /\ [Next]_vars => (TypeOK /\ RevocationInv)'
  BY NextTypeOK, NextRevocationInv, Zenon
<1>3. RevocationInv => RevocationEffective
  BY OverIsPurged, Zenon DEF RevocationInv, PurgeInv, BroadcastInv, RevocationEffective
<1> QED
  BY <1>1, <1>2, <1>3, PTL DEF Spec

=============================================================================
