-------------------------------- MODULE MemoryStoreProofs --------------------------------
(***************************************************************************)
(* The store in memory and the caches over Redis implement the contract of  *)
(* the generic cache, for every set of keys, values, expirations and        *)
(* callers.                                                                 *)
(***************************************************************************)
EXTENDS MCCaches, TLAPS

\* The variables keep their types.
THEOREM StoreTypes == Spec => []TypeOK
  <1>1. Init => TypeOK
    BY StoreAssumption DEF Init, TypeOK, Answer
  <1>2. TypeOK /\ [Next]_vars => TypeOK'
    <2> SUFFICES ASSUME TypeOK, [Next]_vars PROVE TypeOK'
      BY Zenon
    <2>1. ASSUME NEW k \in Keys, NEW v \in Values, NEW ttl \in Ttls, Set(k, v, ttl) PROVE TypeOK'
      <3>1. Duration(ttl) \in Nat
        BY StoreAssumption DEF Duration, TypeOK
      <3>2. [v |-> v, exp |-> Duration(ttl)] \in [v : Values, exp : Nat]
        BY <3>1, Zenon
      <3> QED
        BY <2>1, <3>2, Zenon DEF TypeOK, Set, disposal, Answer
    <2>2. ASSUME NEW k \in Keys, Get(k) PROVE TypeOK'
      BY <2>2, Zenon DEF TypeOK, Get, disposal, Answer
    <2>3. ASSUME NEW k \in Keys, Delete(k) PROVE TypeOK'
      BY <2>3, Zenon DEF TypeOK, Delete, disposal, Answer
    <2>4. CASE Purge
      BY <2>4, Zenon DEF TypeOK, Purge, disposal
    <2>5. CASE JanitorStops
      BY <2>5, Zenon DEF TypeOK, JanitorStops
    <2>6. CASE Tick
      BY <2>6 DEF TypeOK, Tick, disposal
    <2>7. ASSUME NEW c \in Callers, Dispose(c) PROVE TypeOK'
      BY <2>7, Zenon DEF TypeOK, Dispose, Enter
    <2>8. ASSUME NEW c \in Callers, DisposeClose(c) PROVE TypeOK'
      BY <2>8 DEF TypeOK, DisposeClose
    <2>9. ASSUME NEW c \in Callers, DisposeFlush(c) PROVE TypeOK'
      BY <2>9, Zenon DEF TypeOK, DisposeFlush
    <2>10. CASE UNCHANGED vars
      BY <2>10, Zenon DEF TypeOK, vars
    <2> QED
      BY <2>1, <2>2, <2>3, <2>4, <2>5, <2>6, <2>7, <2>8, <2>9, <2>10, Zenon DEF Next
  <1> QED
    BY <1>1, <1>2, PTL DEF Spec

\* What a caller sees of an entry.
LEMMA VisibleEntry ==
    ASSUME TypeOK, NEW k \in Keys
    PROVE  /\ Visible[k] = IF entries[k] # None /\ ~Expired(entries[k]) THEN entries[k] ELSE None
           /\ Visible[k] # None => Visible[k] = entries[k]
  BY Zenon DEF Visible

\* A step that leaves the time alone and the visible entries and the answer too is no step
\* of the contract.
LEMMA SameView ==
    ASSUME UNCHANGED <<entries, now, answer>>
    PROVE  UNCHANGED Contract!vars
  BY Zenon DEF Contract!vars, Visible, Expired

\* Set, with the expiration of the contract.
LEMMA SetStep ==
    ASSUME TypeOK, NEW k \in Keys, NEW v \in Values, NEW ttl \in Ttls, Set(k, v, ttl)
    PROVE  Contract!Set(k, v, ttl)
  <1> DEFINE e == [v |-> v, exp |-> Duration(ttl)]
  <1>1. e = Contract!Entry(v, ttl)
    BY Zenon DEF Duration, Contract!Entry
  <1>2. now' = now /\ answer' = Contract!Answer(<<"set", k, v, ttl>>, "ok", None)
    BY Zenon DEF Set, Answer, Contract!Answer
  <1>3. e # None /\ ~(e.exp > 0 /\ now' > e.exp)
    <2>1. Duration(ttl) \in Nat /\ (Duration(ttl) > 0 => Duration(ttl) >= now)
      BY StoreAssumption DEF Duration, TypeOK
    <2>2. e \in [v : Values, exp : Nat] /\ e.exp = Duration(ttl)
      BY <2>1, Zenon
    <2>3. e # None
      BY <2>2, StoreAssumption, Zenon
    <2>4. ~(e.exp > 0 /\ now' > e.exp)
      BY <1>2, <2>1, <2>2 DEF TypeOK
    <2> QED
      BY <2>3, <2>4, Zenon
  <1>4. \A j \in Keys : Visible'[j] = IF j = k THEN e ELSE Visible[j]
    <2> SUFFICES ASSUME NEW j \in Keys PROVE Visible'[j] = IF j = k THEN e ELSE Visible[j]
      BY Zenon
    <2>1. entries'[j] = IF j = k THEN e ELSE entries[j]
      BY Zenon DEF Set, TypeOK
    <2>2. Visible'[j] = IF entries'[j] # None /\ ~(entries'[j].exp > 0 /\ now' > entries'[j].exp)
                        THEN entries'[j] ELSE None
      BY Zenon DEF Visible, Expired
    <2> HIDE DEF e
    <2>3. CASE j = k
      BY <1>3, <2>1, <2>2, <2>3, Zenon
    <2>4. CASE j # k
      BY <1>2, <2>1, <2>2, <2>4, Zenon DEF Visible, Expired
    <2> QED
      BY <2>3, <2>4, Zenon
  <1>5. Visible' = [Visible EXCEPT ![k] = e]
    BY <1>4, Zenon DEF Visible
  <1> QED
    BY <1>1, <1>2, <1>5, Zenon DEF Contract!Set

\* Get answers with what is visible.
LEMMA GetStep ==
    ASSUME TypeOK, NEW k \in Keys, Get(k)
    PROVE  Contract!Get(k)
  <1>1. UNCHANGED <<entries, now>>
    BY Zenon DEF Get
  <1>2. Visible' = Visible
    BY <1>1, Zenon DEF Visible, Expired
  <1>3. Visible[k] = None <=> entries[k] = None \/ Expired(entries[k])
    BY Zenon DEF Visible
  <1>4. Visible[k] # None => Visible[k].v = entries[k].v
    BY VisibleEntry, Zenon
  <1> QED
    BY <1>1, <1>2, <1>3, <1>4, Zenon DEF Get, Contract!Get, Answer, Contract!Answer

\* Delete removes what is visible.
LEMMA DeleteStep ==
    ASSUME TypeOK, NEW k \in Keys, Delete(k)
    PROVE  Contract!Delete(k)
  <1>1. now' = now /\ answer' = Contract!Answer(<<"delete", k>>, "ok", None)
    BY Zenon DEF Delete, Answer, Contract!Answer
  <1>2. \A j \in Keys : entries'[j] = IF j = k THEN None ELSE entries[j]
    BY Zenon DEF Delete, TypeOK
  <1>3. Visible' = [Visible EXCEPT ![k] = None]
    BY <1>1, <1>2, Zenon DEF Visible, Expired
  <1> QED
    BY <1>1, <1>3, Zenon DEF Contract!Delete

\* The janitor removes only what is not visible.
LEMMA PurgeStep ==
    ASSUME TypeOK, Purge
    PROVE  UNCHANGED Contract!vars
  <1>1. now' = now /\ answer' = answer
    BY Zenon DEF Purge
  <1>2. \A j \in Keys : entries'[j] = IF entries[j] # None /\ Expired(entries[j]) THEN None ELSE entries[j]
    BY Zenon DEF Purge
  <1>3. Visible' = Visible
    BY <1>1, <1>2, Zenon DEF Visible, Expired
  <1> QED
    BY <1>1, <1>3, Zenon DEF Contract!vars

\* Dispose drops everything.
LEMMA FlushStep ==
    ASSUME NEW c \in Callers, DisposeFlush(c)
    PROVE  Contract!Drop
  <1>1. Visible' = [k \in Keys |-> None]
    BY Zenon DEF DisposeFlush, Visible
  <1> QED
    BY <1>1, Zenon DEF DisposeFlush, Contract!Drop, Contract!Empty

\* Time takes from the view exactly the entries whose expiration it passes.
LEMMA TickStep ==
    ASSUME TypeOK, Tick
    PROVE  Contract!Tick
  <1> DEFINE gone == {k \in Keys : Visible[k] # None /\ Visible[k].exp # 0 /\ Visible[k].exp < now + 1}
  <1>1. now' = now + 1 /\ entries' = entries /\ answer' = answer
    BY Zenon DEF Tick
  <1>2. \A k \in Keys : Visible[k] # None => Visible[k].exp \in Nat
    BY VisibleEntry, Zenon DEF TypeOK
  <1>3. \A k \in Keys : Visible'[k] = IF k \in gone THEN None ELSE Visible[k]
    <2> SUFFICES ASSUME NEW k \in Keys PROVE Visible'[k] = IF k \in gone THEN None ELSE Visible[k]
      BY Zenon
    <2>1. CASE entries[k] = None
      BY <2>1, <1>1, Zenon DEF Visible
    <2>2. CASE entries[k] # None
      <3>1. entries[k].exp \in Nat /\ now \in Nat
        BY <2>2, Zenon DEF TypeOK
      <3>2. Expired(entries[k]) => Expired(entries[k])'
        BY <1>1, <3>1 DEF Expired
      <3>3. ~Expired(entries[k]) => (Expired(entries[k])' <=> entries[k].exp # 0 /\ entries[k].exp < now + 1)
        BY <1>1, <3>1 DEF Expired
      <3>4. Visible'[k] = IF Expired(entries[k])' THEN None ELSE entries[k]
        BY <1>1, <2>2, Zenon DEF Visible
      <3>5. Visible[k] = IF Expired(entries[k]) THEN None ELSE entries[k]
        BY <2>2, Zenon DEF Visible
      <3> QED
        BY <2>2, <3>2, <3>3, <3>4, <3>5, Zenon
    <2> QED
      BY <2>1, <2>2, Zenon
  <1>4. Visible' = [k \in Keys |-> IF k \in gone THEN None ELSE Visible[k]]
    BY <1>3, Zenon DEF Visible
  <1>5. \A k \in Keys : Visible[k] # None /\ Visible[k].exp # 0 =>
          (Visible[k].exp < now' => k \in gone) /\ (k \in gone => Visible[k].exp <= now')
    BY <1>1, <1>2 DEF TypeOK
  <1>6. gone \in SUBSET Keys /\ \A k \in gone : Visible[k] # None => Visible[k].exp # 0
    BY Zenon
  <1> HIDE DEF gone
  <1> QED
    BY <1>1, <1>4, <1>5, <1>6, Zenon DEF Contract!Tick

\* The store keeps the contract: every behaviour of it, seen through Visible, is one of
\* the generic cache.
THEOREM StoreKeepsContract == Spec => KeepsContract
  <1>1. Init => Contract!Init
    BY Zenon DEF Init, Contract!Init, Contract!Empty, Visible, Answer, Contract!Answer
  <1>2. TypeOK /\ [Next]_vars => [Contract!Next]_(Contract!vars)
    <2> SUFFICES ASSUME TypeOK, [Next]_vars PROVE Contract!Next \/ UNCHANGED Contract!vars
      BY Zenon
    <2>1. ASSUME NEW k \in Keys, NEW v \in Values, NEW ttl \in Ttls, Set(k, v, ttl) PROVE Contract!Next
      BY <2>1, SetStep, Zenon DEF Contract!Next
    <2>2. ASSUME NEW k \in Keys, Get(k) PROVE Contract!Next
      BY <2>2, GetStep, Zenon DEF Contract!Next
    <2>3. ASSUME NEW k \in Keys, Delete(k) PROVE Contract!Next
      BY <2>3, DeleteStep, Zenon DEF Contract!Next
    <2>4. CASE Purge
      BY <2>4, PurgeStep, Zenon
    <2>5. CASE JanitorStops
      BY <2>5, SameView, Zenon DEF JanitorStops
    <2>6. CASE Tick
      BY <2>6, TickStep, Zenon DEF Contract!Next
    <2>7. ASSUME NEW c \in Callers, Dispose(c) \/ DisposeClose(c) PROVE UNCHANGED Contract!vars
      BY <2>7, SameView, Zenon DEF Dispose, DisposeClose
    <2>8. ASSUME NEW c \in Callers, DisposeFlush(c) PROVE Contract!Next
      BY <2>8, FlushStep, Zenon DEF Contract!Next
    <2>9. CASE UNCHANGED vars
      BY <2>9, SameView, Zenon DEF vars
    <2> QED
      BY <2>1, <2>2, <2>3, <2>4, <2>5, <2>6, <2>7, <2>8, <2>9, Zenon DEF Next
  <1> QED
    BY <1>1, <1>2, StoreTypes, PTL DEF Spec, KeepsContract, Contract!Spec

-----------------------------------------------------------------------------
(* Concurrent calls of Dispose                                             *)

\* The caller that runs the function of stopOnce.
Inside(c) == pc[c] \in {"close", "flush"}

\* One caller at most is inside, and only while stopOnce is busy; the channel is open until
\* that caller has closed it.
OnceInv ==
    /\ once = "new" => closes = 0
    /\ \A c \in Callers : Inside(c) => once = "busy" /\ \A d \in Callers : Inside(d) => c = d
    /\ \A c \in Callers : pc[c] = "close" => closes = 0
    /\ \A c \in Callers : pc[c] = "returned" => once = "done"
    /\ closes <= 1

\* A step of one caller, or of none, keeps it.
LEMMA NextOnce == TypeOK /\ OnceInv /\ [Next]_vars => OnceInv'
  <1> SUFFICES ASSUME TypeOK, OnceInv, [Next]_vars PROVE OnceInv'
    BY Zenon
  <1>1. CASE UNCHANGED <<once, pc, closes>>
    BY <1>1, Zenon DEF OnceInv, Inside
  <1>2. ASSUME NEW c \in Callers, Dispose(c) PROVE OnceInv'
    BY <1>2 DEF TypeOK, OnceInv, Inside, Dispose, Enter
  <1>3. ASSUME NEW c \in Callers, DisposeClose(c) PROVE OnceInv'
    BY <1>3 DEF TypeOK, OnceInv, Inside, DisposeClose
  <1>4. ASSUME NEW c \in Callers, DisposeFlush(c) PROVE OnceInv'
    BY <1>4, Zenon DEF TypeOK, OnceInv, Inside, DisposeFlush
  <1> QED
    BY <1>1, <1>2, <1>3, <1>4, Zenon
    DEF Next, vars, disposal, Set, Get, Delete, Purge, JanitorStops, Tick

\* However many callers dispose of the store at once, stopCh is closed at most once, and
\* no Dispose returns before the entries were dropped (sync.Once in Dispose).
THEOREM DisposalIsOnce == Spec => []DisposeOnce
  <1>1. Init => OnceInv
    BY DEF Init, OnceInv, Inside
  <1>2. OnceInv => DisposeOnce
    BY Zenon DEF OnceInv, DisposeOnce
  <1> QED
    BY <1>1, <1>2, NextOnce, StoreTypes, PTL DEF Spec

-----------------------------------------------------------------------------
(* The caches over Redis: the generic store with its own client or the      *)
(* caller's, and the provider                                               *)

\* What Redis holds.
RedisInv == db \in [Keys -> [v : Values, exp : Nat] \cup {None}] /\ redisNow \in Nat

\* The expiration that a Set of each of the three leaves in Redis is the contract's.
LEMMA RedisExpiration ==
    ASSUME RedisInv, NEW k \in Keys, NEW v \in Values
    PROVE  /\ \A ttl \in Ttls \cup {-2} :
                [v |-> v, exp |-> Owner!SetExp(k, Owner!Duration(ttl))] = Owner!Contract!Entry(v, ttl)
           /\ \A ttl \in Ttls :
                [v |-> v, exp |-> Guest!SetExp(k, Guest!Duration(ttl))] = Owner!Contract!Entry(v, ttl)
           /\ \A ttl \in (Ttls \cup {-2}) \ {-1} :
                [v |-> v, exp |-> Provider!SetExp(k, Provider!Duration(ttl))] = Owner!Contract!Entry(v, ttl)
           /\ \A ttl \in Ttls \cup {-2} : Owner!Contract!Entry(v, ttl) \in [v : Values, exp : Nat]
  <1>1. Ttls \subseteq Int
    BY StoreAssumption, Zenon
  <1>2. ASSUME NEW ttl \in Ttls \cup {-2}
        PROVE  [v |-> v, exp |-> Owner!SetExp(k, Owner!Duration(ttl))] = Owner!Contract!Entry(v, ttl)
    <2>1. ttl \in Int
      BY <1>1
    <2>2. Owner!Duration(ttl) = IF ttl <= 0 THEN 0 ELSE ttl
      BY Zenon DEF Owner!Duration
    <2>3. Owner!SetExp(k, Owner!Duration(ttl)) = IF ttl <= 0 THEN 0 ELSE redisNow + ttl
      BY <2>1, <2>2 DEF Owner!SetExp
    <2> QED
      BY <2>3, Zenon DEF Owner!Contract!Entry
  <1>3. ASSUME NEW ttl \in Ttls
        PROVE  [v |-> v, exp |-> Guest!SetExp(k, Guest!Duration(ttl))] = Owner!Contract!Entry(v, ttl)
    BY <1>1 DEF Guest!SetExp, Guest!Duration, Owner!Contract!Entry
  <1>4. ASSUME NEW ttl \in (Ttls \cup {-2}) \ {-1}
        PROVE  [v |-> v, exp |-> Provider!SetExp(k, Provider!Duration(ttl))] = Owner!Contract!Entry(v, ttl)
    BY <1>1 DEF Provider!SetExp, Provider!Duration, Owner!Contract!Entry
  <1>5. ASSUME NEW ttl \in Ttls \cup {-2}
        PROVE  Owner!Contract!Entry(v, ttl) \in [v : Values, exp : Nat]
    BY <1>1 DEF RedisInv, Owner!Contract!Entry
  <1> QED
    BY <1>2, <1>3, <1>4, <1>5, Zenon

\* Set: of the contract, or a failure with or without its effect.
LEMMA RedisSet ==
    ASSUME RedisInv, NEW k \in Keys, NEW v \in Values, NEW ttl \in Ttls \cup {-2},
           \/ Owner!Set(k, v, ttl)
           \/ ttl \in Ttls /\ Guest!Set(k, v, ttl)
           \/ ttl # -1 /\ Provider!Set(k, v, ttl)
    PROVE  Owner!Contract!Next /\ RedisInv'
  <1> DEFINE e == Owner!Contract!Entry(v, ttl)
  <1> DEFINE Reply(got) == [call |-> <<"set", k, v, ttl>>, got |-> got, v |-> None]
  <1>1. CASE reply' = Reply("error") /\ UNCHANGED <<db, redisNow>>
    BY <1>1, Zenon DEF Owner!Contract!Next, Owner!Contract!FailSet, Owner!Contract!Fail,
       Owner!Contract!Answer, RedisInv
  <1>2. CASE /\ db' = [db EXCEPT ![k] = e] /\ UNCHANGED redisNow
             /\ \E got \in {"ok", "error"} : reply' = Reply(got)
    <2>1. Owner!Contract!Set(k, v, ttl) \/ Owner!Contract!FailSet(k, v, ttl)
      <3>1. CASE reply' = Reply("ok")
        BY <1>2, <3>1, Zenon DEF Owner!Contract!Set, Owner!Contract!Answer
      <3>2. CASE reply' = Reply("error")
        BY <1>2, <3>2, Zenon DEF Owner!Contract!FailSet, Owner!Contract!Fail, Owner!Contract!Answer
      <3> QED
        BY <1>2, <3>1, <3>2, Zenon
    <2>2. e \in [v : Values, exp : Nat]
      BY RedisExpiration, Zenon
    <2> HIDE DEF e
    <2>3. RedisInv'
      BY <1>2, <2>2, Zenon DEF RedisInv
    <2> QED
      BY <2>1, <2>3, Zenon DEF Owner!Contract!Next
  <1>3. CASE Owner!Set(k, v, ttl)
    BY <1>1, <1>2, <1>3, RedisExpiration DEF Owner!Set, Owner!Applied, Owner!Lost, Owner!Answer
  <1>4. CASE ttl \in Ttls /\ Guest!Set(k, v, ttl)
    BY <1>1, <1>2, <1>4, RedisExpiration DEF Guest!Set, Guest!Applied, Guest!Lost, Guest!Answer
  <1>5. CASE ttl # -1 /\ Provider!Set(k, v, ttl)
    BY <1>1, <1>2, <1>5, RedisExpiration
    DEF Provider!Set, Provider!Applied, Provider!Lost, Provider!Answer
  <1> QED
    BY <1>3, <1>4, <1>5, Zenon

\* Get and Delete.
LEMMA RedisGetDelete ==
    ASSUME RedisInv, NEW k \in Keys,
           \/ Owner!Get(k) \/ Guest!Get(k) \/ Provider!Get(k)
           \/ Owner!Delete(k) \/ Guest!Delete(k) \/ Provider!Delete(k)
    PROVE  Owner!Contract!Next /\ RedisInv'
  <1> DEFINE Reply(call, got) == [call |-> <<call, k>>, got |-> got, v |-> None]
  <1>1. CASE reply' = Reply("get", "error") /\ UNCHANGED <<db, redisNow>>
    BY <1>1, Zenon DEF Owner!Contract!Next, Owner!Contract!FailGet, Owner!Contract!Fail,
       Owner!Contract!Answer, RedisInv
  <1>2. CASE Owner!Contract!Get(k)
    BY <1>2, Zenon DEF Owner!Contract!Next, Owner!Contract!Get, RedisInv
  <1>3. CASE reply' = Reply("delete", "error") /\ UNCHANGED <<db, redisNow>>
    BY <1>3, Zenon DEF Owner!Contract!Next, Owner!Contract!FailDelete, Owner!Contract!Fail,
       Owner!Contract!Answer, RedisInv
  <1>4. CASE /\ db' = [db EXCEPT ![k] = None] /\ UNCHANGED redisNow
             /\ \E got \in {"ok", "error"} : reply' = Reply("delete", got)
    <2>1. Owner!Contract!Delete(k) \/ Owner!Contract!FailDelete(k)
      BY <1>4, Zenon DEF Owner!Contract!Delete, Owner!Contract!FailDelete, Owner!Contract!Fail,
         Owner!Contract!Answer
    <2>2. RedisInv'
      BY <1>4, Zenon DEF RedisInv
    <2> QED
      BY <2>1, <2>2, Zenon DEF Owner!Contract!Next
  <1>5. CASE Owner!Get(k) \/ Guest!Get(k) \/ Provider!Get(k)
    <2>1. Owner!Contract!Get(k) \/ (reply' = Reply("get", "error") /\ UNCHANGED <<db, redisNow>>)
      BY <1>5 DEF Owner!Get, Guest!Get, Provider!Get, Owner!Lost, Guest!Lost, Provider!Lost,
         Owner!Answer, Guest!Answer, Provider!Answer, Owner!Contract!Get, Owner!Contract!Answer
    <2> QED
      BY <1>1, <1>2, <2>1, Zenon
  <1>6. CASE Owner!Delete(k) \/ Guest!Delete(k) \/ Provider!Delete(k)
    BY <1>3, <1>4, <1>6 DEF Owner!Delete, Guest!Delete, Provider!Delete,
       Owner!Applied, Guest!Applied, Provider!Applied, Owner!Lost, Guest!Lost, Provider!Lost,
       Owner!Answer, Guest!Answer, Provider!Answer
  <1> QED
    BY <1>5, <1>6, Zenon

\* Redis expires a key at its expiration, as early as the contract allows.
LEMMA RedisTick ==
    ASSUME RedisInv, Owner!Tick \/ Guest!Tick \/ Provider!Tick
    PROVE  Owner!Contract!Tick /\ RedisInv'
  <1> DEFINE gone == {k \in Keys : db[k] # None /\ db[k].exp # 0 /\ db[k].exp <= redisNow'}
  <1>1. /\ redisNow' = redisNow + 1 /\ UNCHANGED reply
        /\ db' = [k \in Keys |-> IF db[k] # None /\ db[k].exp # 0 /\ db[k].exp <= redisNow'
                                 THEN None ELSE db[k]]
    BY Zenon DEF Owner!Tick, Guest!Tick, Provider!Tick
  <1>2. db' = [k \in Keys |-> IF k \in gone THEN None ELSE db[k]]
    BY <1>1, Zenon
  <1>3. redisNow' \in Nat /\ \A k \in Keys : db[k] # None => db[k].exp \in Nat
    BY <1>1 DEF RedisInv
  <1>4. \A k \in Keys : db[k] # None /\ db[k].exp # 0 =>
          (db[k].exp < redisNow' => k \in gone) /\ (k \in gone => db[k].exp <= redisNow')
    BY <1>3
  <1>5. gone \in SUBSET Keys /\ \A k \in gone : db[k] # None => db[k].exp # 0
    BY Zenon
  <1>6. RedisInv'
    BY <1>1, <1>3, Zenon DEF RedisInv
  <1> HIDE DEF gone
  <1> QED
    BY <1>1, <1>2, <1>4, <1>5, <1>6, Zenon DEF Owner!Contract!Tick

\* A step of one of the three caches is a step of the contract.
LEMMA RedisStep ==
    ASSUME RedisInv, Owner!Next \/ Guest!Next \/ Provider!Next
    PROVE  RedisInv' /\ (Owner!Contract!Next \/ UNCHANGED Owner!Contract!vars)
  <1>1. CASE Owner!Dispose \/ Guest!Dispose \/ Provider!Dispose
    BY <1>1, Zenon DEF Owner!Dispose, Guest!Dispose, Provider!Dispose, Owner!Contract!vars, RedisInv
  <1>2. CASE Owner!Tick \/ Guest!Tick \/ Provider!Tick
    BY <1>2, RedisTick, Zenon DEF Owner!Contract!Next
  <1>3. CASE Owner!Next
    BY <1>1, <1>2, <1>3, RedisSet, RedisGetDelete, Zenon DEF Owner!Next
  <1>4. CASE Guest!Next
    BY <1>1, <1>2, <1>4, RedisSet, RedisGetDelete, Zenon DEF Guest!Next
  <1>5. CASE Provider!Next
    BY <1>1, <1>2, <1>5, RedisSet, RedisGetDelete, Zenon DEF Provider!Next
  <1> QED
    BY <1>3, <1>4, <1>5, Zenon

\* The three caches over Redis keep the contract, with commands and replies that get lost
\* and for every expiration, but the one that go-redis takes for KeepTTL in the provider.
THEOREM RedisStoresKeepContract == CachesSpec => RedisKeepsContract
  <1>1. CachesInit => RedisInv /\ Owner!Contract!Init
    BY DEF CachesInit, Owner!Init, RedisInv, Owner!Contract!Init, Owner!Contract!Empty,
       Owner!Answer, Owner!Contract!Answer
  <1>2. RedisInv /\ [CachesNext]_<<part, vars, redis>>
          => RedisInv' /\ [Owner!Contract!Next]_(Owner!Contract!vars)
    <2> SUFFICES ASSUME RedisInv, [CachesNext]_<<part, vars, redis>>
                 PROVE  RedisInv' /\ (Owner!Contract!Next \/ UNCHANGED Owner!Contract!vars)
      BY Zenon
    <2>1. CASE UNCHANGED redis
      BY <2>1, Zenon DEF redis, RedisInv, Owner!Contract!vars
    <2>2. CASE Owner!Next \/ Guest!Next \/ Provider!Next
      BY <2>2, RedisStep, Zenon
    <2> QED
      BY <2>1, <2>2, Zenon DEF CachesNext
  <1> QED
    BY <1>1, <1>2, PTL DEF CachesSpec, RedisKeepsContract, Owner!KeepsContract, Owner!Contract!Spec

=============================================================================
