---------------------------- MODULE MCRevocationBus ----------------------------
(***************************************************************************)
(* The two buses: a behaviour of this module is one of the bus in memory    *)
(* with the providers that share it, or of a subscription over Redis, while *)
(* the other rests.                                                         *)
(***************************************************************************)
EXTENDS RevocationBus

CONSTANTS MaxSent, ChanSize, OutSize  \* of the subscription over Redis, see RedisBus

VARIABLES part, sent, sub, msgChan, held, out, fwd, ctxDone, outClosed, reading, received, kept

redis == <<sent, sub, msgChan, held, out, fwd, ctxDone, outClosed, reading, received, kept>>

Redis == INSTANCE RedisBus

BusesInit == part \in {"memory", "redis"} /\ Init /\ Redis!Init

BusesNext ==
    \/ part = "memory" /\ Next /\ UNCHANGED <<part, redis>>
    \/ part = "redis" /\ Redis!Next /\ UNCHANGED <<part, vars>>

BusesSpec ==
    BusesInit /\ [][BusesNext]_<<part, vars, redis>> /\ Fairness /\ Redis!Fairness

\* A subscription over Redis loses nothing that reached it, see RedisBus.
NothingLost == Redis!NothingLost

\* It implements the stream of revocations, see RedisBus.
ImplementsStream == Redis!ImplementsStream

\* Its goroutine ends with the context, see RedisBus.
ForwarderEnds == Redis!ForwarderEnds

=============================================================================
