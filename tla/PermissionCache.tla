---------------------------- MODULE PermissionCache ----------------------------
(***************************************************************************)
(* The permission path of package authz: API nodes that answer             *)
(* authorization requests (PARCHandler.Handle) from a two-tier cache       *)
(* (TieredCacheProvider: an L1 in each node's memory over one shared L2),  *)
(* the repository the bundles come from, and the revocation broadcast that *)
(* evicts a principal from every L1.                                       *)
(*                                                                         *)
(* A permission bundle is abstracted to the version of the principal's     *)
(* repository record it was read from: every GrantPermission and RevokeAll *)
(* makes the next version.  Time is discrete; an entry carries the ticks   *)
(* it has left to live.  Every cache or repository call is one atomic      *)
(* step, so a request is interrupted between any two of its calls.         *)
(***************************************************************************)
EXTENDS Integers, Sequences

CONSTANTS
    Nodes,           \* API processes, each with its own L1 and listener
    Principals,      \* principals whose bundles are cached
    Requests,        \* request slots: requests that may be in flight at once
    Admins,          \* callers of RevokeAll + PublishRevocation, or of Delete
    Host,            \* the node a request or an admin call runs on
    Subject,         \* the principal a request or an admin call is about
    GrantTTL,        \* PARCHandlerConfig.GrantTTL, in ticks
    L1TTL,           \* TieredCacheConfig.L1TTL, in ticks
    MaxRequestTime,  \* ticks a request may take from its first to its last call
    ChanCap,         \* capacity of a subscriber channel (100 in the code)
    MaxChanges,      \* bound: repository changes per principal
    Faults           \* whether L2, repository, bus and nodes may fail

ASSUME ConstantsAssumption ==
    /\ Host \in [Requests \cup Admins -> Nodes]
    /\ Subject \in [Requests \cup Admins -> Principals]
    /\ GrantTTL \in Nat \ {0}
    /\ L1TTL \in Nat \ {0}
    /\ MaxRequestTime \in Nat
    /\ ChanCap \in Nat \ {0}
    /\ MaxChanges \in Nat
    /\ Faults \in BOOLEAN

VARIABLES
    repo,        \* repo[p]: the version of p's record in the repository
    l1,          \* l1[n][p]: the entry of key "perm:p" in node n's memory
    l2,          \* l2[p]: the entry of key "perm:p" in the distributed cache
    chan,        \* chan[n]: the subscriber channel node n's listener reads
    req,         \* req[r]: where request r is, the version it holds, its age
    admin,       \* admin[a]: the next call of admin a
    superseded,  \* history: ticks since p's record left version v, 0 before that
    lastRevoke,  \* history: the version p's latest RevokeAll made
    disturbed    \* history: principals whose latest revocation met a fault

vars == <<repo, l1, l2, chan, req, admin, superseded, lastRevoke, disturbed>>

history == <<superseded, lastRevoke, disturbed>>

-----------------------------------------------------------------------------
(* State                                                                   *)

\* A cache entry; one with no time left is one the cache does not return.
Entry == [ver : 0..MaxChanges, ttl : Nat]

Absent == [ver |-> 0, ttl |-> 0]

Present(e) == e.ttl > 0

\* The calls of PARCHandler.Handle, named by the next one to make.
RequestPC == {"idle", "l1get", "l2get", "l1fill", "repo", "l1set", "l2set",
              "decide"}

Request == [pc : RequestPC, ver : 0..MaxChanges, time : 0..MaxRequestTime]

\* Where a request still has to store the version it holds.
Filling == {"l1fill", "l1set", "l2set"}

IdleRequest == [pc |-> "idle", ver |-> 0, time |-> 0]

\* The calls of PublishRevocation (rev) and of Delete (del).
AdminPC == {"idle", "revL1", "revL2", "revPublish", "delL1", "delL2"}

Revoking == {"revL1", "revL2", "revPublish"}

\* The longest a replaced bundle is still used: what StaleServeBound promises.
MaxStale == GrantTTL + L1TTL + 3 * MaxRequestTime - 2

Pending(n, p) == \E i \in 1..Len(chan[n]) : chan[n][i] = p

\* Version v of p's record dates from before p's latest RevokeAll.
Revoked(p, v) == v < lastRevoke[p]

StaleFiller(p) ==
    \E r \in Requests : /\ Subject[r] = p
                        /\ req[r].pc \in Filling
                        /\ Revoked(p, req[r].ver)

Disturb(P) == disturbed' = disturbed \cup P

Init ==
    /\ repo = [p \in Principals |-> 0]
    /\ l1 = [n \in Nodes |-> [p \in Principals |-> Absent]]
    /\ l2 = [p \in Principals |-> Absent]
    /\ chan = [n \in Nodes |-> << >>]
    /\ req = [r \in Requests |-> IdleRequest]
    /\ admin = [a \in Admins |-> "idle"]
    /\ superseded = [p \in Principals |-> [v \in 0..MaxChanges |-> 0]]
    /\ lastRevoke = [p \in Principals |-> 0]
    /\ disturbed = {}

-----------------------------------------------------------------------------
(* The repository                                                          *)

\* GrantPermission appends a rule; nothing is broadcast.
GrantPermission(p) ==
    /\ repo[p] < MaxChanges
    /\ repo' = [repo EXCEPT ![p] = @ + 1]
    /\ UNCHANGED <<l1, l2, chan, req, admin, history>>

\* RevokeAll deletes the record; the caller goes on to PublishRevocation.
RevokeAll(a) ==
    LET p == Subject[a] IN
    /\ admin[a] = "idle"
    /\ repo[p] < MaxChanges
    /\ repo' = [repo EXCEPT ![p] = @ + 1]
    /\ admin' = [admin EXCEPT ![a] = "revL1"]
    /\ lastRevoke' = [lastRevoke EXCEPT ![p] = repo[p] + 1]
    /\ disturbed' = disturbed \ {p}
    /\ UNCHANGED <<l1, l2, chan, req, superseded>>

-----------------------------------------------------------------------------
(* PublishRevocation and Delete of the tiered cache                        *)

StartDelete(a) ==
    /\ admin[a] = "idle"
    /\ admin' = [admin EXCEPT ![a] = "delL1"]
    /\ UNCHANGED <<repo, l1, l2, chan, req, history>>

\* Mutant: PublishRevocation forgets the shared tier.
AdminL1DeleteOnly(a) ==
    /\ admin[a] \in {"revL1", "delL1"}
    /\ l1' = [l1 EXCEPT ![Host[a]][Subject[a]] = Absent]
    /\ admin' = [admin EXCEPT ![a] = IF @ = "revL1" THEN "revPublish" ELSE "delL2"]
    /\ UNCHANGED <<repo, l2, chan, req, history>>

AdminL1Delete(a) ==
    /\ admin[a] \in {"revL1", "delL1"}
    /\ l1' = [l1 EXCEPT ![Host[a]][Subject[a]] = Absent]
    /\ admin' = [admin EXCEPT ![a] = IF @ = "revL1" THEN "revL2" ELSE "delL2"]
    /\ UNCHANGED <<repo, l2, chan, req, history>>

\* The L2 call may fail, and PublishRevocation ignores that it did.
AdminL2Delete(a) ==
    LET p == Subject[a] IN
    /\ admin[a] \in {"revL2", "delL2"}
    /\ \/ /\ l2' = [l2 EXCEPT ![p] = Absent]
          /\ IF admin[a] = "revL2" /\ StaleFiller(p) THEN Disturb({p})
                                                     ELSE Disturb({})
       \/ /\ Faults
          /\ IF admin[a] = "revL2" THEN Disturb({p}) ELSE Disturb({})
          /\ UNCHANGED l2
    /\ admin' = [admin EXCEPT ![a] = IF @ = "revL2" THEN "revPublish" ELSE "idle"]
    /\ UNCHANGED <<repo, l1, chan, req, superseded, lastRevoke>>

\* Mutant: the send does not look at the channel's capacity.
PublishUnbounded(a) ==
    /\ admin[a] = "revPublish"
    /\ chan' = [n \in Nodes |-> Append(chan[n], Subject[a])]
    /\ admin' = [admin EXCEPT ![a] = "idle"]
    /\ UNCHANGED <<repo, l1, l2, req, history>>

\* The bus offers the principal to every subscriber without waiting: a full
\* channel misses it, and a bus over the network may lose it for any node.
Publish(a) ==
    LET p == Subject[a]
        full == {n \in Nodes : Len(chan[n]) >= ChanCap}
    IN
    /\ admin[a] = "revPublish"
    /\ \E lost \in SUBSET Nodes :
          /\ full \subseteq lost
          /\ Faults \/ lost = full
          /\ chan' = [n \in Nodes |-> IF n \in lost THEN chan[n]
                                                    ELSE Append(chan[n], p)]
          /\ IF \E n \in lost : ~Pending(n, p) THEN Disturb({p})
                                                ELSE Disturb({})
    /\ admin' = [admin EXCEPT ![a] = "idle"]
    /\ UNCHANGED <<repo, l1, l2, req, superseded, lastRevoke>>

\* startRevocationListener: take one principal from the channel, evict it.  The
\* one the listener has in hand counts as still on the channel.
Listen(n) ==
    /\ chan[n] # << >>
    /\ l1' = [l1 EXCEPT ![n][Head(chan[n])] = Absent]
    /\ chan' = [chan EXCEPT ![n] = Tail(@)]
    /\ UNCHANGED <<repo, l2, req, admin, history>>

-----------------------------------------------------------------------------
(* PARCHandler.Handle over TieredCacheProvider.Get and Set                 *)

Goto(r, pc, v) ==
    req' = [req EXCEPT ![r] = [pc |-> pc, ver |-> v, time |-> @.time]]

\* An L1 store always replaces an entry that is there; the memory cache may
\* refuse a key it does not hold.
L1Store(n, p, v, ttl) ==
    \/ l1' = [l1 EXCEPT ![n][p] = [ver |-> v, ttl |-> ttl]]
    \/ ~Present(l1[n][p]) /\ UNCHANGED l1

StartRequest(r) ==
    /\ req[r].pc = "idle"
    /\ Goto(r, "l1get", 0)
    /\ UNCHANGED <<repo, l1, l2, chan, admin, history>>

TieredL1Get(r) ==
    LET e == l1[Host[r]][Subject[r]] IN
    /\ req[r].pc = "l1get"
    /\ IF Present(e) THEN Goto(r, "decide", e.ver) ELSE Goto(r, "l2get", 0)
    /\ UNCHANGED <<repo, l1, l2, chan, admin, history>>

\* An L2 miss and an L2 error both send the handler to the repository.
TieredL2Get(r) ==
    LET e == l2[Subject[r]] IN
    /\ req[r].pc = "l2get"
    /\ \/ Present(e) /\ Goto(r, "l1fill", e.ver)
       \/ (~Present(e) \/ Faults) /\ Goto(r, "repo", 0)
    /\ UNCHANGED <<repo, l1, l2, chan, admin, history>>

\* Mutant: the value read from L2 goes through Set, which stores it in L2 again.
TieredL1FillWriteBack(r) ==
    /\ req[r].pc = "l1fill"
    /\ L1Store(Host[r], Subject[r], req[r].ver, L1TTL)
    /\ Goto(r, "l2set", req[r].ver)
    /\ UNCHANGED <<repo, l2, chan, admin, history>>

\* The rest of Get: L1 receives the L2 value for the whole of L1TTL.
TieredL1Fill(r) ==
    /\ req[r].pc = "l1fill"
    /\ L1Store(Host[r], Subject[r], req[r].ver, L1TTL)
    /\ Goto(r, "decide", req[r].ver)
    /\ UNCHANGED <<repo, l2, chan, admin, history>>

\* GetPermissions: an error ends the request, denied.
RepoGet(r) ==
    /\ req[r].pc = "repo"
    /\ \/ Goto(r, "l1set", repo[Subject[r]])
       \/ Faults /\ req' = [req EXCEPT ![r] = IdleRequest]
    /\ UNCHANGED <<repo, l1, l2, chan, admin, history>>

TieredL1Set(r) ==
    LET ttl == IF GrantTTL < L1TTL THEN GrantTTL ELSE L1TTL IN
    /\ req[r].pc = "l1set"
    /\ L1Store(Host[r], Subject[r], req[r].ver, ttl)
    /\ Goto(r, "l2set", req[r].ver)
    /\ UNCHANGED <<repo, l2, chan, admin, history>>

\* Mutant: a Set that failed is started again, and no one counts how often.
TieredL2SetRetried(r) ==
    /\ req[r].pc = "l2set"
    /\ \/ /\ l2' = [l2 EXCEPT ![Subject[r]] = [ver |-> req[r].ver, ttl |-> GrantTTL]]
          /\ Goto(r, "decide", req[r].ver)
       \/ Faults /\ Goto(r, "l1set", req[r].ver) /\ UNCHANGED l2
    /\ UNCHANGED <<repo, l1, chan, admin, history>>

\* The handler ignores an error of Set.
TieredL2Set(r) ==
    /\ req[r].pc = "l2set"
    /\ \/ l2' = [l2 EXCEPT ![Subject[r]] = [ver |-> req[r].ver, ttl |-> GrantTTL]]
       \/ Faults /\ UNCHANGED l2
    /\ Goto(r, "decide", req[r].ver)
    /\ UNCHANGED <<repo, l1, chan, admin, history>>

\* perms.Evaluate on the version in hand; the request is answered.
Decide(r) ==
    /\ req[r].pc = "decide"
    /\ req' = [req EXCEPT ![r] = IdleRequest]
    /\ UNCHANGED <<repo, l1, l2, chan, admin, history>>

RequestStep(r) ==
    \/ TieredL1Get(r)
    \/ TieredL2Get(r)
    \/ TieredL1Fill(r)
    \/ RepoGet(r)
    \/ TieredL1Set(r)
    \/ TieredL2Set(r)
    \/ Decide(r)

-----------------------------------------------------------------------------
(* The environment                                                         *)

\* The memory cache evicts under memory pressure.
L1Evict(n, p) ==
    /\ Present(l1[n][p])
    /\ l1' = [l1 EXCEPT ![n][p] = Absent]
    /\ UNCHANGED <<repo, l2, chan, req, admin, history>>

\* So does the distributed cache.
L2Evict(p) ==
    /\ Present(l2[p])
    /\ l2' = [l2 EXCEPT ![p] = Absent]
    /\ UNCHANGED <<repo, l1, chan, req, admin, history>>

\* A node dies and comes back with an empty L1 and a new subscription; its
\* requests and admin calls are gone, half-way or not.
Restart(n) ==
    /\ Faults
    /\ l1' = [l1 EXCEPT ![n] = [p \in Principals |-> Absent]]
    /\ chan' = [chan EXCEPT ![n] = << >>]
    /\ req' = [r \in Requests |-> IF Host[r] = n THEN IdleRequest ELSE req[r]]
    /\ admin' = [a \in Admins |-> IF Host[a] = n THEN "idle" ELSE admin[a]]
    /\ Disturb({p \in Principals : \E a \in Admins :
                    Host[a] = n /\ Subject[a] = p /\ admin[a] \in Revoking})
    /\ UNCHANGED <<repo, l2, superseded, lastRevoke>>

Older(e) == IF e.ttl > 1 THEN [ver |-> e.ver, ttl |-> e.ttl - 1] ELSE Absent

\* One tick.  No request outlives MaxRequestTime.
Tick ==
    /\ \A r \in Requests : req[r].pc # "idle" => req[r].time < MaxRequestTime
    /\ l1' = [n \in Nodes |-> [p \in Principals |-> Older(l1[n][p])]]
    /\ l2' = [p \in Principals |-> Older(l2[p])]
    /\ req' = [r \in Requests |->
           IF req[r].pc = "idle" THEN req[r]
           ELSE [pc |-> req[r].pc, ver |-> req[r].ver, time |-> req[r].time + 1]]
    /\ superseded' = [p \in Principals |-> [v \in 0..MaxChanges |->
           IF v < repo[p] /\ superseded[p][v] <= MaxStale
           THEN superseded[p][v] + 1 ELSE superseded[p][v]]]
    /\ UNCHANGED <<repo, chan, admin, lastRevoke, disturbed>>

Next ==
    \/ \E p \in Principals : GrantPermission(p) \/ L2Evict(p)
    \/ \E a \in Admins : \/ RevokeAll(a) \/ StartDelete(a)
                         \/ AdminL1Delete(a) \/ AdminL2Delete(a) \/ Publish(a)
    \/ \E r \in Requests : StartRequest(r) \/ RequestStep(r)
    \/ \E n \in Nodes : Listen(n) \/ Restart(n)
    \/ \E n \in Nodes, p \in Principals : L1Evict(n, p)
    \/ Tick

Spec == Init /\ [][Next]_vars

\* Requests run to their end and time passes.  Nothing is assumed of the
\* listeners and of the admin calls.
FairSpec ==
    /\ Spec
    /\ WF_vars(Tick)
    /\ \A r \in Requests : WF_vars(RequestStep(r))

-----------------------------------------------------------------------------
(* Properties                                                              *)

TypeOK ==
    /\ repo \in [Principals -> 0..MaxChanges]
    /\ l1 \in [Nodes -> [Principals -> Entry]]
    /\ l2 \in [Principals -> Entry]
    /\ chan \in [Nodes -> Seq(Principals)]
    /\ \A n \in Nodes : Len(chan[n]) <= ChanCap
    /\ req \in [Requests -> Request]
    /\ admin \in [Admins -> AdminPC]
    /\ superseded \in [Principals -> [0..MaxChanges -> Nat]]
    /\ lastRevoke \in [Principals -> 0..MaxChanges]
    /\ disturbed \subseteq Principals

\* No request is decided on a bundle the repository replaced more than
\* MaxStale ticks before, whatever is lost, fails or crashes: the bundle ages
\* at most GrantTTL in L2, then at most L1TTL in an L1 filled from L2, and
\* three requests (the one that read the repository, the one that read L2 and
\* the one that read L1) each hold it for at most MaxRequestTime.
StaleServeBound ==
    \A r \in Requests :
        req[r].pc = "decide" => superseded[Subject[r]][req[r].ver] <= MaxStale

\* No admin call is between RevokeAll and the end of PublishRevocation for p.
RevocationOver(p) ==
    \A a \in Admins :
        Subject[a] = p => admin[a] \notin Revoking

\* Once PublishRevocation has returned and a node's listener has taken the
\* principal off its channel, neither that node's L1 nor L2 holds a bundle from
\* before the revocation, unless the revocation was disturbed: an L2 delete
\* failed, a broadcast was lost, the admin's node crashed, or a request held
\* a revoked bundle it still had to store when L2 was deleted.
RevocationEffective ==
    \A p \in Principals :
        RevocationOver(p) /\ p \notin disturbed =>
            /\ Present(l2[p]) => ~Revoked(p, l2[p].ver)
            /\ \A n \in Nodes :
                  Present(l1[n][p]) /\ Revoked(p, l1[n][p].ver) => Pending(n, p)

\* All copies of p's bundle, cached or in the hands of a request that has read
\* one, are of the repository's current version.
AllCurrent(p) ==
    /\ Present(l2[p]) => l2[p].ver = repo[p]
    /\ \A n \in Nodes : Present(l1[n][p]) => l1[n][p].ver = repo[p]
    /\ \A r \in Requests :
          Subject[r] = p /\ req[r].pc \in Filling \cup {"decide"}
              => req[r].ver = repo[p]

\* After the last change of the repository every cache and every request comes
\* to the current version and stays there, even if no broadcast ever arrives.
EventuallyCurrent == \A p \in Principals : <>[]AllCurrent(p)

-----------------------------------------------------------------------------
(* Claims of the documentation that the code does not keep                 *)

\* authz/README.md: a revocation purges every copy at once.  As stated for the
\* state in which PublishRevocation has returned and every listener has handled
\* what it received: no tier holds a revoked bundle.
InstantRevocation ==
    \A p \in Principals :
        RevocationOver(p) /\ (\A n \in Nodes : chan[n] = << >>) =>
            /\ Present(l2[p]) => ~Revoked(p, l2[p].ver)
            /\ \A n \in Nodes : Present(l1[n][p]) => ~Revoked(p, l1[n][p].ver)

\* engine.go and tiered.go: GrantTTL is the window in which a change of the
\* permissions reaches every decision (up to the time requests themselves take).
GrantWindow ==
    \A r \in Requests :
        req[r].pc = "decide" =>
            superseded[Subject[r]][req[r].ver] <= GrantTTL + 3 * MaxRequestTime

=============================================================================
