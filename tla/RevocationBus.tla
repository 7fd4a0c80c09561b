------------------------------ MODULE RevocationBus ------------------------------
(***************************************************************************)
(* The in-process InvalidationBus (MemoryCacheProvider) and the life of    *)
(* the tiered caches that listen on it.  A tiered provider subscribes when *)
(* it is made; a goroutine of the bus (the reaper) takes the subscription  *)
(* back once the provider's context is done; a goroutine of the provider   *)
(* (the listener) evicts what it receives; the provider's Close cancels    *)
(* the context and waits for the listener.  Both the reaper and the bus's  *)
(* own Close close subscriber channels, while others publish.              *)
(*                                                                         *)
(* Whatever runs under subMu is one step.  A channel is abstracted to how  *)
(* many principals are buffered in it.                                     *)
(***************************************************************************)
EXTENDS Integers

CONSTANTS
    Providers,     \* tiered providers sharing the bus
    Cap,           \* capacity of a subscriber channel (100 in the code)
    MaxPublishes,  \* bound: calls of PublishRevocation
    BusIsL2        \* whether the bus is the providers' L2, which Close closes

ASSUME BusAssumption ==
    /\ Cap \in Nat \ {0}
    /\ MaxPublishes \in Nat
    /\ BusIsL2 \in BOOLEAN

VARIABLES
    subscribers,  \* providers whose channel is in the bus's map
    closedCh,     \* providers whose channel has been closed
    queue,        \* queue[p]: principals buffered in p's channel
    reaper,       \* reaper[p]: the goroutine of SubscribeRevocations
    listener,     \* listener[p]: the goroutine of startRevocationListener
    provider,     \* provider[p]: how far the life of p has come
    busClosed,    \* the closeOnce of the bus has run
    publishes,    \* calls of PublishRevocation so far
    panicked      \* a closed channel was closed again, or sent to

vars == <<subscribers, closedCh, queue, reaper, listener, provider, busClosed,
          publishes, panicked>>

Goroutine == {"none", "running", "done"}

\* "closing": Close has cancelled the context and waits for the listener.
Life == {"none", "subscribed", "open", "closing", "closed"}

\* Mutant: Close waits for the listener before it cancels the context.
CancelledAfterWait(p) == provider[p] = "closed"

\* The context made by NewTieredCacheProvider is done.
Cancelled(p) == provider[p] \in {"closing", "closed"}

Init ==
    /\ subscribers = {}
    /\ closedCh = {}
    /\ queue = [p \in Providers |-> 0]
    /\ reaper = [p \in Providers |-> "none"]
    /\ listener = [p \in Providers |-> "none"]
    /\ provider = [p \in Providers |-> "none"]
    /\ busClosed = FALSE
    /\ publishes = 0
    /\ panicked = FALSE

\* Go's close(ch) for each channel of P: closing a closed channel panics.
CloseChannels(P) ==
    /\ closedCh' = closedCh \cup P
    /\ panicked' = (panicked \/ P \cap closedCh # {})

-----------------------------------------------------------------------------
(* The bus                                                                 *)

\* SubscribeRevocations registers a channel, even with a bus already closed.
SubscribeRevocations(p) ==
    /\ provider[p] = "none"
    /\ provider' = [provider EXCEPT ![p] = "subscribed"]
    /\ subscribers' = subscribers \cup {p}
    /\ reaper' = [reaper EXCEPT ![p] = "running"]
    /\ UNCHANGED <<closedCh, queue, listener, busClosed, publishes, panicked>>

\* Mutant: the goroutine closes the channel without looking it up.
ReapUnchecked(p) ==
    /\ reaper[p] = "running"
    /\ Cancelled(p)
    /\ subscribers' = subscribers \ {p}
    /\ CloseChannels({p})
    /\ reaper' = [reaper EXCEPT ![p] = "done"]
    /\ UNCHANGED <<queue, listener, provider, busClosed, publishes>>

\* Mutant: the goroutine does not wait for the context.
ReapAtOnce(p) ==
    /\ reaper[p] = "running"
    /\ subscribers' = subscribers \ {p}
    /\ CloseChannels(subscribers \cap {p})
    /\ reaper' = [reaper EXCEPT ![p] = "done"]
    /\ UNCHANGED <<queue, listener, provider, busClosed, publishes>>

\* Mutant: the goroutine only closes a channel of a bus that is still open.
ReapOpenBus(p) ==
    /\ reaper[p] = "running"
    /\ Cancelled(p)
    /\ IF busClosed THEN UNCHANGED <<subscribers, closedCh, panicked>>
       ELSE subscribers' = subscribers \ {p} /\ CloseChannels(subscribers \cap {p})
    /\ reaper' = [reaper EXCEPT ![p] = "done"]
    /\ UNCHANGED <<queue, listener, provider, busClosed, publishes>>

\* Its goroutine, once the context is done: the channel may be gone already.
Reap(p) ==
    /\ reaper[p] = "running"
    /\ Cancelled(p)
    /\ subscribers' = subscribers \ {p}
    /\ CloseChannels(subscribers \cap {p})
    /\ reaper' = [reaper EXCEPT ![p] = "done"]
    /\ UNCHANGED <<queue, listener, provider, busClosed, publishes>>

\* PublishRevocation never blocks: a full channel misses the principal.
PublishRevocation ==
    /\ publishes < MaxPublishes
    /\ publishes' = publishes + 1
    /\ queue' = [p \in Providers |->
           IF p \in subscribers /\ queue[p] < Cap THEN queue[p] + 1 ELSE queue[p]]
    /\ panicked' = (panicked \/ subscribers \cap closedCh # {})
    /\ UNCHANGED <<subscribers, closedCh, reaper, listener, provider, busClosed>>

\* The body of the bus's Close, under its closeOnce.
CloseSubscribers ==
    IF busClosed
    THEN UNCHANGED <<subscribers, closedCh, busClosed, panicked>>
    ELSE /\ busClosed' = TRUE
         /\ subscribers' = {}
         /\ CloseChannels(subscribers)

CloseBus ==
    /\ ~busClosed
    /\ CloseSubscribers
    /\ UNCHANGED <<queue, reaper, listener, provider, publishes>>

-----------------------------------------------------------------------------
(* A tiered provider                                                       *)

\* The rest of startRevocationListener: the goroutine starts.
StartListener(p) ==
    /\ provider[p] = "subscribed"
    /\ provider' = [provider EXCEPT ![p] = "open"]
    /\ listener' = [listener EXCEPT ![p] = "running"]
    /\ UNCHANGED <<subscribers, closedCh, queue, reaper, busClosed, publishes,
                   panicked>>

\* One turn of the listener's loop.  A closed channel still delivers what is
\* buffered; with the context done, select may choose either case.
ListenerReceive(p) ==
    /\ listener[p] = "running"
    /\ queue[p] > 0
    /\ queue' = [queue EXCEPT ![p] = @ - 1]
    /\ UNCHANGED <<subscribers, closedCh, reaper, listener, provider, busClosed,
                   publishes, panicked>>

\* Mutant: the listener stops when the channel is closed, buffered or not.
ListenerReturnEarly(p) ==
    /\ listener[p] = "running"
    /\ Cancelled(p) \/ p \in closedCh
    /\ listener' = [listener EXCEPT ![p] = "done"]
    /\ UNCHANGED <<subscribers, closedCh, queue, reaper, provider, busClosed,
                   publishes, panicked>>

ListenerReturn(p) ==
    /\ listener[p] = "running"
    /\ Cancelled(p) \/ (p \in closedCh /\ queue[p] = 0)
    /\ listener' = [listener EXCEPT ![p] = "done"]
    /\ UNCHANGED <<subscribers, closedCh, queue, reaper, provider, busClosed,
                   publishes, panicked>>

Listener(p) == ListenerReceive(p) \/ ListenerReturn(p)

\* Close up to wg.Wait.
BeginClose(p) ==
    /\ provider[p] = "open"
    /\ provider' = [provider EXCEPT ![p] = "closing"]
    /\ UNCHANGED <<subscribers, closedCh, queue, reaper, listener, busClosed,
                   publishes, panicked>>

\* wg.Wait returns and Close closes L1 and L2.
FinishClose(p) ==
    /\ provider[p] = "closing"
    /\ listener[p] = "done"
    /\ provider' = [provider EXCEPT ![p] = "closed"]
    /\ IF BusIsL2 THEN CloseSubscribers
                  ELSE UNCHANGED <<subscribers, closedCh, busClosed, panicked>>
    /\ UNCHANGED <<queue, reaper, listener, publishes>>

Next ==
    \/ PublishRevocation
    \/ CloseBus
    \/ \E p \in Providers : \/ SubscribeRevocations(p) \/ Reap(p)
                            \/ StartListener(p) \/ Listener(p)
                            \/ BeginClose(p) \/ FinishClose(p)

Spec == Init /\ [][Next]_vars

\* The scheduler runs every goroutine that can run, and a constructor or a
\* Close that has begun.
Fairness ==
    \A p \in Providers : /\ WF_vars(StartListener(p))
                         /\ WF_vars(Reap(p))
                         /\ WF_vars(Listener(p))
                         /\ WF_vars(FinishClose(p))

-----------------------------------------------------------------------------
(* Properties                                                              *)

TypeOK ==
    /\ subscribers \subseteq Providers
    /\ closedCh \subseteq Providers
    /\ queue \in [Providers -> 0..Cap]
    /\ reaper \in [Providers -> Goroutine]
    /\ listener \in [Providers -> Goroutine]
    /\ provider \in [Providers -> Life]
    /\ busClosed \in BOOLEAN
    /\ publishes \in 0..MaxPublishes
    /\ panicked \in BOOLEAN

\* Although the reaper goroutine and the bus's Close both close channels while
\* PublishRevocation sends to them, no channel is closed twice and nothing is
\* sent on a closed one.
NoPanic == ~panicked

\* A provider that has not been closed keeps its listener, and so keeps evicting,
\* unless somebody closed the bus under it.
DeafOnlyAfterBusClose ==
    \A p \in Providers :
        listener[p] = "done" /\ provider[p] = "open" => busClosed

\* What a channel accepted is taken off it by the listener, also when the bus is
\* closed in between, unless the provider itself is closed.
AcceptedHandled ==
    \A p \in Providers : queue[p] > 0 ~> (queue[p] = 0 \/ Cancelled(p))

\* The provider's Close gets past wg.Wait and returns.
CloseReturns ==
    \A p \in Providers : provider[p] = "closing" ~> provider[p] = "closed"

\* The subscription of a closed provider is taken back for good and its channel
\* closed, also when it subscribed to a bus that was closed before.
SubscriptionReclaimed ==
    \A p \in Providers :
        Cancelled(p) ~> [](p \notin subscribers /\ p \in closedCh)

=============================================================================
