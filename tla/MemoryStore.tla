-------------------------------- MODULE MemoryStore --------------------------------
(***************************************************************************)
(* The generic cache in memory: entries that stay until they are purged, a  *)
(* janitor goroutine, and concurrent calls of Dispose.                      *)
(***************************************************************************)
EXTENDS Integers

CONSTANTS
    Keys, None, Ttls, MaxTime,
    Values,     \* without the nil of an interface type: Get's type assertion makes that one a miss
    Callers,    \* of Dispose
    Cleanup     \* cleanupInterval > 0

ASSUME StoreAssumption ==
    Ttls \subseteq Int /\ MaxTime \in Nat /\ Cleanup \in BOOLEAN /\ None \notin [v : Values, exp : Nat]

VARIABLES
    entries, \* underlying: [v, exp] or None; exp = 0 is NoExpiration
    now, answer, \* as in CacheContract
    janitor, \* its goroutine: "none", "running" or "stopped"
    once,    \* stopOnce: "new", "busy" or "done"
    pc,      \* callers of Dispose: "idle", "close", "flush" or "returned"
    closes   \* how often stopCh was closed: a second time panics

vars == <<entries, now, answer, janitor, once, pc, closes>>

disposal == <<janitor, once, pc, closes>>

Answer(call, got, v) == [call |-> call, got |-> got, v |-> v]

Init ==
    /\ entries = [k \in Keys |-> None] /\ now = 1 /\ answer = Answer(<<>>, "ok", None)
    /\ janitor = IF Cleanup THEN "running" ELSE "none"
    /\ once = "new" /\ pc = [c \in Callers |-> "idle"] /\ closes = 0

\* go-cache: an item is expired once the time is past its expiration.
Expired(e) == e.exp > 0 /\ now > e.exp

\* Mutant: an expiration of zero is taken as it is.
DurationRaw(ttl) == now + ttl

Duration(ttl) == IF ttl <= 0 THEN 0 ELSE now + ttl

Set(k, v, ttl) ==
    /\ entries' = [entries EXCEPT ![k] = [v |-> v, exp |-> Duration(ttl)]]
    /\ answer' = Answer(<<"set", k, v, ttl>>, "ok", None) /\ UNCHANGED <<now, disposal>>

\* An expired entry is a miss; go-cache leaves it where it is.
Get(k) ==
    /\ answer' = IF entries[k] = None \/ Expired(entries[k]) THEN Answer(<<"get", k>>, "miss", None)
                 ELSE Answer(<<"get", k>>, "hit", entries[k].v)
    /\ UNCHANGED <<entries, now, disposal>>

Delete(k) ==
    /\ entries' = [entries EXCEPT ![k] = None]
    /\ answer' = Answer(<<"delete", k>>, "ok", None) /\ UNCHANGED <<now, disposal>>

\* The janitor's ticker fires; it may also be chosen once stopCh is closed.
Purge ==
    /\ janitor = "running"
    /\ entries' = [k \in Keys |-> IF entries[k] # None /\ Expired(entries[k]) THEN None ELSE entries[k]]
    /\ UNCHANGED <<now, answer, disposal>>

JanitorStops ==
    /\ janitor = "running" /\ closes > 0
    /\ janitor' = "stopped"
    /\ UNCHANGED <<entries, now, answer, once, pc, closes>>

\* Mutant: the caller looks whether another one has finished.
EnterUnlocked(c) ==
    /\ once' = once
    /\ pc' = [pc EXCEPT ![c] = IF once = "done" THEN "returned" ELSE "close"]

\* stopOnce.Do: the first caller runs the function, later ones wait for its end.
Enter(c) ==
    \/ once = "new" /\ once' = "busy" /\ pc' = [pc EXCEPT ![c] = "close"]
    \/ once = "done" /\ once' = once /\ pc' = [pc EXCEPT ![c] = "returned"]

Dispose(c) ==
    /\ pc[c] = "idle" /\ Enter(c)
    /\ UNCHANGED <<entries, now, answer, janitor, closes>>

DisposeClose(c) ==
    /\ pc[c] = "close"
    /\ closes' = IF Cleanup THEN closes + 1 ELSE closes
    /\ pc' = [pc EXCEPT ![c] = "flush"]
    /\ UNCHANGED <<entries, now, answer, janitor, once>>

DisposeFlush(c) ==
    /\ pc[c] = "flush"
    /\ entries' = [k \in Keys |-> None]
    /\ pc' = [pc EXCEPT ![c] = "returned"] /\ once' = "done"
    /\ UNCHANGED <<now, answer, janitor, closes>>

Tick ==
    /\ now < MaxTime /\ now' = now + 1
    /\ UNCHANGED <<entries, answer, disposal>>

Next ==
    \/ \E k \in Keys : Get(k) \/ Delete(k) \/ \E v \in Values, ttl \in Ttls : Set(k, v, ttl)
    \/ Purge \/ JanitorStops \/ Tick
    \/ \E c \in Callers : Dispose(c) \/ DisposeClose(c) \/ DisposeFlush(c)

Spec == Init /\ [][Next]_vars

-----------------------------------------------------------------------------
(* Properties                                                              *)

TypeOK ==
    /\ entries \in [Keys -> [v : Values, exp : Nat] \cup {None}]
    /\ now \in Nat \ {0}
    /\ answer.got \in {"ok", "hit", "miss"} /\ answer.v \in Values \cup {None}
    /\ janitor \in {"none", "running", "stopped"} /\ once \in {"new", "busy", "done"}
    /\ pc \in [Callers -> {"idle", "close", "flush", "returned"}] /\ closes \in Nat

\* What a caller can see of the entries.
Visible == [k \in Keys |-> IF entries[k] # None /\ ~Expired(entries[k]) THEN entries[k] ELSE None]

Contract == INSTANCE CacheContract WITH content <- Visible

\* The store keeps the contract of the generic cache: the entries that are expired and not
\* yet purged, the janitor and Dispose never show but as the contract allows.
KeepsContract == Contract!Spec

\* However many callers dispose of the store at once, stopCh is closed at most once, and
\* no Dispose returns before the entries have been dropped.
DisposeOnce ==
    /\ closes <= 1
    /\ \A c \in Callers : pc[c] = "returned" => once = "done"

=============================================================================
