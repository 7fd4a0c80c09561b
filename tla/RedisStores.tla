-------------------------------- MODULE RedisStores --------------------------------
(***************************************************************************)
(* The caches over Redis: the generic store and the cache provider of       *)
(* authorization, with commands and replies that get lost.                  *)
(***************************************************************************)
EXTENDS Integers

CONSTANTS
    Keys, Values, None, Ttls, MaxTime,
    Generic,     \* the generic store, not the provider
    Owned,       \* the generic store was built with NewFromOptions
    Unencodable  \* the values that JSON cannot encode

VARIABLES
    db,          \* the keys in Redis: [v, exp] or None; exp = 0 for no expiration
    now, answer, \* as in CacheContract
    open         \* the client is not closed

vars == <<db, now, answer, open>>

Answer(call, got, v) == [call |-> call, got |-> got, v |-> v]

Init == db = [k \in Keys |-> None] /\ now = 1 /\ answer = Answer(<<>>, "ok", None) /\ open = TRUE

\* go-redis: a positive expiration is sent, -1 is KeepTTL, any other means none.
SetExp(k, d) == IF d > 0 THEN now + d ELSE IF d = -1 /\ db[k] # None THEN db[k].exp ELSE 0

\* Mutant: the generic store passes its expiration on.
DurationRaw(ttl) == ttl

Duration(ttl) == IF Generic /\ ttl <= 0 THEN 0 ELSE ttl

\* A command that has its effect is answered, or its answer is lost.
Applied(call) == open /\ answer' \in {Answer(call, got, None) : got \in {"ok", "error"}}

Lost(call) == answer' = Answer(call, "error", None) /\ UNCHANGED <<db, now, open>>

\* Mutant: the old value is deleted by a command of its own, which may be the only one to arrive.
SetDeletesFirst(k, v, ttl) ==
    \/ /\ ~(Generic /\ v \in Unencodable) /\ Applied(<<"set", k, v, ttl>>)
       /\ \E e \in {[v |-> v, exp |-> SetExp(k, Duration(ttl))], None} :
            db' = [db EXCEPT ![k] = IF answer'.got = "ok" THEN [v |-> v, exp |-> SetExp(k, Duration(ttl))] ELSE e]
       /\ UNCHANGED <<now, open>>
    \/ Lost(<<"set", k, v, ttl>>)

Set(k, v, ttl) ==
    \/ /\ ~(Generic /\ v \in Unencodable) /\ Applied(<<"set", k, v, ttl>>)
       /\ db' = [db EXCEPT ![k] = [v |-> v, exp |-> SetExp(k, Duration(ttl))]]
       /\ UNCHANGED <<now, open>>
    \/ Lost(<<"set", k, v, ttl>>)

Get(k) ==
    \/ /\ open
       /\ answer' = IF db[k] = None THEN Answer(<<"get", k>>, "miss", None)
                    ELSE Answer(<<"get", k>>, "hit", db[k].v)
       /\ UNCHANGED <<db, now, open>>
    \/ Lost(<<"get", k>>)

Delete(k) ==
    \/ /\ Applied(<<"delete", k>>)
       /\ db' = [db EXCEPT ![k] = None]
       /\ UNCHANGED <<now, open>>
    \/ Lost(<<"delete", k>>)

\* Dispose of the store closes the client it owns; Close of the provider closes its client.
Dispose ==
    /\ open' = (open /\ Generic /\ ~Owned)
    /\ UNCHANGED <<db, now, answer>>

\* Redis expires keys.
Tick ==
    /\ now < MaxTime /\ now' = now + 1
    /\ db' = [k \in Keys |-> IF db[k] # None /\ db[k].exp # 0 /\ db[k].exp <= now' THEN None ELSE db[k]]
    /\ UNCHANGED <<answer, open>>

Next ==
    \/ \E k \in Keys : Get(k) \/ Delete(k) \/ \E v \in Values, ttl \in Ttls : Set(k, v, ttl)
    \/ Dispose \/ Tick

Spec == Init /\ [][Next]_vars

-----------------------------------------------------------------------------
(* Properties                                                              *)

Contract == INSTANCE CacheContract WITH content <- db

\* The cache over Redis keeps the contract, with calls that fail and nevertheless had
\* their effect. The provider does for every ttl but -1, which go-redis takes for KeepTTL.
KeepsContract == Contract!Spec

=============================================================================
