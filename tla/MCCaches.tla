--------------------------------- MODULE MCCaches ---------------------------------
(***************************************************************************)
(* The caches: a behaviour of this module is one of the store in memory, of *)
(* the generic store over Redis, with a client of its own or the caller's,  *)
(* or of the cache provider over Redis, while the others rest.              *)
(***************************************************************************)
EXTENDS MemoryStore

MCTtls == {-1, 0, 1, 2}
Encodable == CHOOSE v \in Values : TRUE

VARIABLES part, db, redisNow, reply, open

redis == <<db, redisNow, reply, open>>

Owner == INSTANCE RedisStores WITH now <- redisNow, answer <- reply, Ttls <- Ttls \cup {-2},
             Generic <- TRUE, Owned <- TRUE, Unencodable <- Values \ {Encodable}
Guest == INSTANCE RedisStores WITH now <- redisNow, answer <- reply,
             Generic <- TRUE, Owned <- FALSE, Unencodable <- {}
Provider == INSTANCE RedisStores WITH now <- redisNow, answer <- reply, Ttls <- (Ttls \cup {-2}) \ {-1},
             Generic <- FALSE, Owned <- TRUE, Unencodable <- {}

CachesInit == part \in {"memory", "owner", "guest", "provider"} /\ Init /\ Owner!Init

CachesNext ==
    \/ part = "memory" /\ Next /\ UNCHANGED <<part, redis>>
    \/ part = "owner" /\ Owner!Next /\ UNCHANGED <<part, vars>>
    \/ part = "guest" /\ Guest!Next /\ UNCHANGED <<part, vars>>
    \/ part = "provider" /\ Provider!Next /\ UNCHANGED <<part, vars>>

CachesSpec == CachesInit /\ [][CachesNext]_<<part, vars, redis>>

\* The caches over Redis keep the contract of the generic cache, see RedisStores.
RedisKeepsContract == Owner!KeepsContract

=============================================================================
