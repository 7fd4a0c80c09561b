--------------------------- MODULE RevocationBusProofs ---------------------------
(***************************************************************************)
(* Proofs about RevocationBus for every number of providers, every channel *)
(* capacity and every number of publications, and about a subscription     *)
(* over Redis (RedisBus) for every size of its two channels.               *)
(***************************************************************************)
EXTENDS MCRevocationBus, SequenceTheorems, TLAPS

\* A registered channel is open, and only a provider that has subscribed has a
\* channel.  This is why the look-up under subMu is enough.
ChannelInv ==
    /\ ~panicked
    /\ subscribers \cap closedCh = {}
    /\ \A p \in Providers : provider[p] = "none" => p \notin closedCh

\* Channels are closed, and listeners return, for a reason.
ReasonInv ==
    /\ \A p \in closedCh : busClosed \/ Cancelled(p)
    /\ \A p \in Providers :
          listener[p] = "done" => Cancelled(p) \/ p \in closedCh
    /\ \A p \in subscribers : provider[p] # "none"

BusInv == TypeOK /\ ChannelInv /\ ReasonInv

-----------------------------------------------------------------------------

USE BusAssumption

\* A bus starts without subscribers.
LEMMA InitBusInv == Init => BusInv
<1> SUFFICES ASSUME Init
             PROVE  BusInv
  BY Zenon
<1>1. TypeOK
  <2>1. queue \in [Providers -> 0..Cap] /\ publishes \in 0..MaxPublishes
    BY DEF Init
  <2>2. /\ reaper \in [Providers -> Goroutine] /\ listener \in [Providers -> Goroutine]
        /\ provider \in [Providers -> Life]
    BY Zenon DEF Init, Goroutine, Life
  <2>3. busClosed \in BOOLEAN /\ panicked \in BOOLEAN
    BY Zenon DEF Init
  <2> QED
    BY <2>1, <2>2, <2>3, Zenon DEF Init, TypeOK
<1>2. ChannelInv
  BY Zenon DEF Init, ChannelInv
<1>3. ReasonInv
  BY Zenon DEF Init, ReasonInv
<1> QED
  BY <1>1, <1>2, <1>3, Zenon DEF BusInv

\* Every step keeps the types.
LEMMA NextTypeOK == TypeOK /\ [Next]_vars => TypeOK'
<1> SUFFICES ASSUME TypeOK, [Next]_vars
             PROVE  TypeOK'
  BY Zenon
<1> USE DEF TypeOK, Goroutine, Life
<1>1. CASE PublishRevocation
  BY <1>1 DEF PublishRevocation
<1>2. CASE CloseBus
  BY <1>2, Zenon DEF CloseBus, CloseSubscribers, CloseChannels
<1>3. ASSUME NEW p \in Providers, SubscribeRevocations(p)
      PROVE  TypeOK'
  BY <1>3, Zenon DEF SubscribeRevocations
<1>4. ASSUME NEW p \in Providers, Reap(p)
      PROVE  TypeOK'
  BY <1>4, Zenon DEF Reap, CloseChannels
<1>5. ASSUME NEW p \in Providers, StartListener(p)
      PROVE  TypeOK'
  BY <1>5, Zenon DEF StartListener
<1>6. ASSUME NEW p \in Providers, ListenerReceive(p)
      PROVE  TypeOK'
  BY <1>6 DEF ListenerReceive
<1>7. ASSUME NEW p \in Providers, ListenerReturn(p)
      PROVE  TypeOK'
  BY <1>7, Zenon DEF ListenerReturn
<1>8. ASSUME NEW p \in Providers, BeginClose(p)
      PROVE  TypeOK'
  BY <1>8, Zenon DEF BeginClose
<1>9. ASSUME NEW p \in Providers, FinishClose(p)
      PROVE  TypeOK'
  BY <1>9, Zenon DEF FinishClose, CloseSubscribers, CloseChannels
<1>10. CASE UNCHANGED vars
  BY <1>10, Zenon DEF vars
<1> QED
  BY <1>1, <1>2, <1>3, <1>4, <1>5, <1>6, <1>7, <1>8, <1>9, <1>10, Zenon DEF Next, Listener

\* The bus's Close closes exactly the channels that are still registered.
LEMMA CloseSubscribersInv ==
  ASSUME BusInv, CloseSubscribers,
         \A p \in Providers : provider'[p] = "none" => provider[p] = "none"
  PROVE  ChannelInv'
<1>1. CASE busClosed
  BY <1>1, Zenon DEF CloseSubscribers, BusInv, ChannelInv
<1>2. CASE ~busClosed
  BY <1>2, Zenon DEF CloseSubscribers, CloseChannels, BusInv, ChannelInv, ReasonInv, TypeOK
<1> QED
  BY <1>1, <1>2, Zenon DEF BusInv, TypeOK

\* Every step keeps what is known of a channel: who closes it, and when.
LEMMA NextChannelInv == BusInv /\ [Next]_vars => ChannelInv'
<1> SUFFICES ASSUME BusInv, [Next]_vars
             PROVE  ChannelInv'
  BY Zenon
<1>0. TypeOK /\ ChannelInv /\ ReasonInv
  BY Zenon DEF BusInv
<1>1. CASE PublishRevocation
  BY <1>0, <1>1, Zenon DEF PublishRevocation, ChannelInv
<1>2. CASE CloseBus
  BY <1>2, CloseSubscribersInv, Zenon DEF CloseBus
<1>3. ASSUME NEW p \in Providers, SubscribeRevocations(p)
      PROVE  ChannelInv'
  BY <1>0, <1>3, Zenon DEF SubscribeRevocations, ChannelInv, TypeOK
<1>4. ASSUME NEW p \in Providers, Reap(p)
      PROVE  ChannelInv'
  BY <1>0, <1>4, Zenon DEF Reap, CloseChannels, Cancelled, ChannelInv
<1>5. ASSUME NEW p \in Providers, StartListener(p) \/ BeginClose(p)
      PROVE  ChannelInv'
  BY <1>0, <1>5 DEF StartListener, BeginClose, ChannelInv, TypeOK
<1>6. ASSUME NEW p \in Providers, Listener(p)
      PROVE  ChannelInv'
  BY <1>0, <1>6 DEF Listener, ListenerReceive, ListenerReturn, ChannelInv
<1>7. ASSUME NEW p \in Providers, FinishClose(p)
      PROVE  ChannelInv'
  <2>1. \A q \in Providers : provider'[q] = "none" => provider[q] = "none"
    BY <1>0, <1>7, Zenon DEF FinishClose, TypeOK
  <2>2. CASE CloseSubscribers
    BY <2>1, <2>2, CloseSubscribersInv, Zenon
  <2>3. CASE UNCHANGED <<subscribers, closedCh, busClosed, panicked>>
    BY <1>0, <2>1, <2>3, Zenon DEF ChannelInv
  <2> QED
    BY <1>7, <2>2, <2>3, Zenon DEF FinishClose
<1>8. CASE UNCHANGED vars
  BY <1>0, <1>8, Zenon DEF vars, ChannelInv
<1> QED
  BY <1>1, <1>2, <1>3, <1>4, <1>5, <1>6, <1>7, <1>8, Zenon DEF Next

\* Every step keeps the reason why a subscription ended.
LEMMA NextReasonInv == BusInv /\ [Next]_vars => ReasonInv'
<1> SUFFICES ASSUME BusInv, [Next]_vars
             PROVE  ReasonInv'
  BY Zenon
<1>0. TypeOK /\ ReasonInv
  BY Zenon DEF BusInv
<1> USE DEF ReasonInv, Cancelled
<1>1. CASE PublishRevocation
  BY <1>0, <1>1, Zenon DEF PublishRevocation
<1>2. CASE CloseBus
  BY <1>0, <1>2, Zenon DEF CloseBus, CloseSubscribers, CloseChannels
<1>3. ASSUME NEW p \in Providers, SubscribeRevocations(p)
      PROVE  ReasonInv'
  BY <1>0, <1>3, Zenon DEF SubscribeRevocations, TypeOK
<1>4. ASSUME NEW p \in Providers, Reap(p)
      PROVE  ReasonInv'
  BY <1>0, <1>4, Zenon DEF Reap, CloseChannels
<1>5. ASSUME NEW p \in Providers, StartListener(p) \/ BeginClose(p)
      PROVE  ReasonInv'
  BY <1>0, <1>5, Zenon DEF StartListener, BeginClose, TypeOK
<1>6. ASSUME NEW p \in Providers, Listener(p)
      PROVE  ReasonInv'
  BY <1>0, <1>6, Zenon DEF Listener, ListenerReceive, ListenerReturn, TypeOK
<1>7. ASSUME NEW p \in Providers, FinishClose(p)
      PROVE  ReasonInv'
  BY <1>0, <1>7, Zenon DEF FinishClose, CloseSubscribers, CloseChannels, TypeOK
<1>8. CASE UNCHANGED vars
  BY <1>0, <1>8, Zenon DEF vars
<1> QED
  BY <1>1, <1>2, <1>3, <1>4, <1>5, <1>6, <1>7, <1>8, Zenon DEF Next

\* The invariant of the bus holds in every state.
LEMMA BusInvariant == Spec => []BusInv
<1>1. BusInv /\ [Next]_vars => BusInv'
  BY NextTypeOK, NextChannelInv, NextReasonInv, Zenon DEF BusInv
<1> QED
  BY <1>1, InitBusInv, PTL DEF Spec

\* The variables of the bus keep their types, and no subscriber channel holds more than
\* its capacity: PublishRevocation sends only where there is room.
THEOREM BusTypes == Spec => []TypeOK
<1>1. BusInv => TypeOK
  BY Zenon DEF BusInv
<1> QED
  BY <1>1, BusInvariant, PTL

\* No interleaving of subscriptions, cancellations, publications and Close calls
\* closes a subscriber channel twice or sends on a closed one, for any number of
\* providers.
THEOREM BusNeverPanics == Spec => []NoPanic
<1>1. BusInv => NoPanic
  BY Zenon DEF BusInv, ChannelInv, NoPanic
<1> QED
  BY <1>1, BusInvariant, PTL

\* As long as nobody closes the bus, a provider that is open has its listener.
THEOREM OpenProviderListens == Spec => []DeafOnlyAfterBusClose
<1>1. BusInv => DeafOnlyAfterBusClose
  BY Zenon DEF BusInv, ReasonInv, Cancelled, DeafOnlyAfterBusClose
<1> QED
  BY <1>1, BusInvariant, PTL

-----------------------------------------------------------------------------
(* A subscription over Redis                                               *)

HIDE BusAssumption

\* The channels of a subscription over Redis hold messages, the forwarder has one in its
\* hands exactly while it sends, it runs before an open subscription is closed, and
\* before it was started there was nothing to lose.
SubscriptionInv ==
    /\ sent \in Nat
    /\ msgChan \in Seq(Nat) /\ held \in Seq(Nat) /\ out \in Seq(Nat)
    /\ received \in Seq(Nat) /\ kept \in Seq(Nat)
    /\ fwd \in {"none", "select", "send", "close", "gone"}
    /\ fwd = "send" => \E m \in Nat : held = <<m>>
    /\ fwd # "send" => held = <<>>
    /\ sub = "none" => fwd = "none"
    /\ sub = "open" => fwd \in {"select", "send", "close"}
    /\ fwd = "none" => msgChan = <<>> /\ out = <<>> /\ received = <<>> /\ kept = <<>>

\* A message that moves from the front of one sequence to the end of the one before it.
LEMMA ConcatOne ==
  ASSUME NEW S, NEW s \in Seq(S), NEW t \in Seq(S), NEW e \in S
  PROVE  /\ Append(s, e) \o t = s \o (<<e>> \o t)
         /\ s \o Append(t, e) = Append(s \o t, e)
<1>1. Append(s, e) = s \o <<e>> /\ Append(t, e) = t \o <<e>> /\ Append(s \o t, e) = (s \o t) \o <<e>>
  BY AppendIsConcat, ConcatProperties, Zenon
<1>2. <<e>> \in Seq(S)
  OBVIOUS
<1> QED
  BY <1>1, <1>2, ConcatAssociative

\* The first message of two channels in a row.
LEMMA ConcatHead ==
  ASSUME NEW S, NEW s \in Seq(S), NEW t \in Seq(S), s # <<>>
  PROVE  /\ <<Head(s)>> \o Tail(s) = s
         /\ s \o t # <<>>
         /\ Head(s \o t) = Head(s)
         /\ Tail(s \o t) = Tail(s) \o t
OBVIOUS

\* Every step of a subscription keeps its invariant.
LEMMA NextSubscriptionInv == SubscriptionInv /\ [Redis!Next]_redis => SubscriptionInv'
<1> SUFFICES ASSUME SubscriptionInv, [Redis!Next]_redis
             PROVE  SubscriptionInv'
  BY Zenon
<1> USE DEF SubscriptionInv
<1>1. CASE Redis!PublishRevocation
  <2>1. sent' \in Nat /\ Append(msgChan, sent') \in Seq(Nat) /\ Append(kept, sent') \in Seq(Nat)
    BY <1>1 DEF Redis!PublishRevocation
  <2> QED
    BY <1>1, <2>1, Zenon DEF Redis!PublishRevocation
<1>2. CASE Redis!SubscribeRevocations
  BY <1>2, Zenon DEF Redis!SubscribeRevocations
<1>3. CASE Redis!ForwardReceive
  <2>1. Head(msgChan) \in Nat /\ Tail(msgChan) \in Seq(Nat)
    BY <1>3, HeadTailProperties, Zenon DEF Redis!ForwardReceive
  <2> QED
    BY <1>3, <2>1 DEF Redis!ForwardReceive
<1>4. CASE Redis!ForwardSend
  BY <1>4, AppendProperties DEF Redis!ForwardSend, Redis!Send
<1>5. CASE Redis!ForwardStop
  BY <1>5 DEF Redis!ForwardStop, Redis!Stoppable
<1>6. CASE Redis!ForwardClose
  BY <1>6, Zenon DEF Redis!ForwardClose
<1>7. CASE Redis!ClientClosed \/ Redis!SubscriberStops
  BY <1>7, Zenon DEF Redis!ClientClosed, Redis!SubscriberStops
<1>8. CASE Redis!Receive
  BY <1>8, HeadTailProperties, AppendProperties, Zenon DEF Redis!Receive
<1>9. CASE UNCHANGED redis
  BY <1>9, Zenon DEF redis
<1> QED
  BY <1>1, <1>2, <1>3, <1>4, <1>5, <1>6, <1>7, <1>8, <1>9, Zenon DEF Redis!Next

\* What can still reach the subscriber, see RedisBus.
OnTheWay == Redis!OnTheWay

\* What each step does to the messages that can still reach the subscriber.
LEMMA OnTheWayStep ==
  ASSUME SubscriptionInv
  PROVE  /\ OnTheWay \in Seq(Nat)
         /\ Redis!PublishRevocation =>
               \/ OnTheWay' = OnTheWay /\ (UNCHANGED kept \/ fwd = "close")
               \/ OnTheWay' = Append(OnTheWay, sent') /\ kept' = Append(kept, sent')
         /\ Redis!SubscribeRevocations \/ Redis!ForwardReceive \/ Redis!ForwardSend
               \/ Redis!ForwardClose \/ Redis!ClientClosed \/ Redis!SubscriberStops
               \/ UNCHANGED redis => OnTheWay' = OnTheWay
         /\ Redis!ForwardStop =>
               Len(out) \in 0..Len(OnTheWay) /\ OnTheWay' = SubSeq(OnTheWay, 1, Len(out))
         /\ Redis!Receive =>
               /\ OnTheWay # <<>> /\ OnTheWay' = Tail(OnTheWay)
               /\ received' = Append(received, Head(OnTheWay))
<1> USE DEF OnTheWay, Redis!OnTheWay
<1> DEFINE rest == IF fwd \in {"close", "gone"} THEN <<>> ELSE held \o msgChan
<1>t. /\ msgChan \in Seq(Nat) /\ held \in Seq(Nat) /\ out \in Seq(Nat) /\ sent \in Nat
      /\ held \o msgChan \in Seq(Nat) /\ rest \in Seq(Nat) /\ out \o rest \in Seq(Nat)
  BY DEF SubscriptionInv
<1>0. OnTheWay \in Seq(Nat)
  BY <1>t, Zenon
<1>1. ASSUME Redis!PublishRevocation
      PROVE  \/ OnTheWay' = OnTheWay /\ (UNCHANGED kept \/ fwd = "close")
             \/ OnTheWay' = Append(OnTheWay, sent') /\ kept' = Append(kept, sent')
  <2>1. CASE UNCHANGED <<msgChan, kept>>
    BY <1>1, <2>1, Zenon DEF Redis!PublishRevocation
  <2>2. CASE sub = "open" /\ msgChan' = Append(msgChan, sent') /\ kept' = Append(kept, sent')
    <3>1. sent' \in Nat /\ fwd' = fwd /\ held' = held /\ out' = out
      BY <1>1, <1>t DEF Redis!PublishRevocation
    <3>2. held \o Append(msgChan, sent') = Append(held \o msgChan, sent')
      BY ONLY <1>t, <3>1, ConcatOne
    <3>3. out \o Append(held \o msgChan, sent') = Append(out \o (held \o msgChan), sent')
      BY ONLY <1>t, <3>1, ConcatOne
    <3>4. fwd \in {"select", "send", "close"}
      BY <2>2, Zenon DEF SubscriptionInv
    <3> QED
      BY <2>2, <3>1, <3>2, <3>3, <3>4, Zenon
  <2> QED
    BY <1>1, <2>1, <2>2, Zenon DEF Redis!PublishRevocation
<1>2. ASSUME \/ Redis!SubscribeRevocations \/ Redis!ForwardClose \/ Redis!ClientClosed
             \/ Redis!SubscriberStops \/ UNCHANGED redis
      PROVE  OnTheWay' = OnTheWay
  BY <1>2, Zenon DEF SubscriptionInv, Redis!SubscribeRevocations, Redis!ForwardClose,
              Redis!ClientClosed, Redis!SubscriberStops, redis
<1>3. ASSUME Redis!ForwardReceive
      PROVE  OnTheWay' = OnTheWay
  <2>1. held = <<>> /\ msgChan # <<>>
    BY <1>3, Zenon DEF SubscriptionInv, Redis!ForwardReceive
  <2>2. <<Head(msgChan)>> \o Tail(msgChan) = held \o msgChan
    BY <1>t, <2>1, ConcatHead, ConcatEmptySeq, Zenon
  <2> QED
    BY <1>3, <2>2, Zenon DEF Redis!ForwardReceive
<1>4. ASSUME Redis!ForwardSend
      PROVE  OnTheWay' = OnTheWay
  <2>1. PICK m \in Nat : held = <<m>>
    BY <1>4, Zenon DEF SubscriptionInv, Redis!ForwardSend
  <2>2. <<>> \o msgChan = msgChan
    BY <1>t
  <2>3. Append(out, m) \o msgChan = out \o (<<m>> \o msgChan)
    BY <1>t, ConcatOne
  <2> QED
    BY <1>4, <2>1, <2>2, <2>3, Zenon DEF Redis!ForwardSend, Redis!Send
<1>5. ASSUME Redis!ForwardStop
      PROVE  Len(out) \in 0..Len(OnTheWay) /\ OnTheWay' = SubSeq(OnTheWay, 1, Len(out))
  <2>1. OnTheWay' = out
    BY <1>t, <1>5 DEF Redis!ForwardStop
  <2>2. Len(out) \in 0..Len(out \o rest) /\ SubSeq(out \o rest, 1, Len(out)) = out
    <3> HIDE DEF rest
    <3> QED BY <1>t, ConcatProperties
  <2> QED
    BY <2>1, <2>2, Zenon
<1>6. ASSUME Redis!Receive
      PROVE  /\ OnTheWay # <<>> /\ OnTheWay' = Tail(OnTheWay)
             /\ received' = Append(received, Head(OnTheWay))
  <2>1. out # <<>>
    BY <1>6, Zenon DEF Redis!Receive
  <2>2. out \o rest # <<>> /\ Head(out \o rest) = Head(out) /\ Tail(out \o rest) = Tail(out) \o rest
    <3> HIDE DEF rest
    <3> QED BY <1>t, <2>1, ConcatHead
  <2> QED
    BY <1>6, <2>2, Zenon DEF Redis!Receive
<1> QED
  BY <1>0, <1>1, <1>2, <1>3, <1>4, <1>5, <1>6, Zenon

\* What the subscriber took and what can still reach it.
Line == received \o OnTheWay

\* The line only grows by the message that is published and shrinks when the forwarder
\* gives up; passing a message on leaves it as it is.
LEMMA LineStep ==
  ASSUME SubscriptionInv
  PROVE  /\ Line \in Seq(Nat)
         /\ Redis!PublishRevocation =>
               \/ Line' = Line /\ (UNCHANGED kept \/ fwd = "close")
               \/ Line' = Append(Line, sent') /\ kept' = Append(kept, sent')
         /\ Redis!SubscribeRevocations \/ Redis!ForwardReceive \/ Redis!ForwardSend
               \/ Redis!ForwardClose \/ Redis!ClientClosed \/ Redis!SubscriberStops
               \/ Redis!Receive \/ UNCHANGED redis => Line' = Line
         /\ Redis!ForwardStop =>
               /\ Len(Line') \in 0..Len(Line)
               /\ \A i \in 1..Len(Line') : Line'[i] = Line[i]
<1> USE DEF Line
<1>t. OnTheWay \in Seq(Nat) /\ received \in Seq(Nat) /\ sent \in Nat
  BY OnTheWayStep, Zenon DEF SubscriptionInv
<1>0. Line \in Seq(Nat)
  BY <1>t
<1>1. ASSUME Redis!PublishRevocation
      PROVE  \/ Line' = Line /\ (UNCHANGED kept \/ fwd = "close")
             \/ Line' = Append(Line, sent') /\ kept' = Append(kept, sent')
  <2>1. sent' \in Nat /\ received' = received
    BY <1>t, <1>1 DEF Redis!PublishRevocation
  <2>2. received \o Append(OnTheWay, sent') = Append(received \o OnTheWay, sent')
    BY ONLY <1>t, <2>1, ConcatOne
  <2> QED
    BY <1>1, <2>1, <2>2, OnTheWayStep, Zenon
<1>2. ASSUME \/ Redis!SubscribeRevocations \/ Redis!ForwardReceive \/ Redis!ForwardSend
             \/ Redis!ForwardClose \/ Redis!ClientClosed \/ Redis!SubscriberStops
             \/ UNCHANGED redis
      PROVE  Line' = Line
  BY <1>2, OnTheWayStep, Zenon DEF Redis!SubscribeRevocations, Redis!ForwardReceive, Redis!ForwardSend,
       Redis!ForwardClose, Redis!ClientClosed, Redis!SubscriberStops, redis
<1>3. ASSUME Redis!ForwardStop
      PROVE  /\ Len(Line') \in 0..Len(Line)
             /\ \A i \in 1..Len(Line') : Line'[i] = Line[i]
  <2>1. PICK n \in 0..Len(OnTheWay) : OnTheWay' = SubSeq(OnTheWay, 1, n)
    BY <1>3, OnTheWayStep, Zenon
  <2>2. received' = received
    BY <1>3, Zenon DEF Redis!ForwardStop
  <2> QED
    BY <1>t, <2>1, <2>2
<1>4. ASSUME Redis!Receive
      PROVE  Line' = Line
  <2>1. OnTheWay # <<>> /\ received' = Append(received, Head(OnTheWay)) /\ OnTheWay' = Tail(OnTheWay)
    BY <1>4, OnTheWayStep, Zenon
  <2>2. /\ <<Head(OnTheWay)>> \o Tail(OnTheWay) = OnTheWay
        /\ Head(OnTheWay) \in Nat /\ Tail(OnTheWay) \in Seq(Nat)
    BY <1>t, <2>1, ConcatHead
  <2>3. Append(received, Head(OnTheWay)) \o Tail(OnTheWay) = received \o OnTheWay
    BY ONLY <1>t, <2>2, ConcatOne
  <2> QED
    BY <2>1, <2>3, Zenon
<1> QED
  BY <1>0, <1>1, <1>2, <1>3, <1>4, Zenon

\* No step loses a message while the forwarder runs.
LEMMA NextNothingLost ==
  ASSUME SubscriptionInv, NothingLost, [Redis!Next]_redis
  PROVE  NothingLost'
<1>0. NothingLost <=> (fwd \in {"select", "send"} => Line = kept)
  BY Zenon DEF NothingLost, Redis!NothingLost, Line, OnTheWay
<1> SUFFICES ASSUME fwd' \in {"select", "send"}
             PROVE  Line' = kept'
  BY Zenon DEF NothingLost, Redis!NothingLost, Line, OnTheWay
<1>1. CASE Redis!PublishRevocation
  <2>1. fwd' = fwd
    BY <1>1, Zenon DEF Redis!PublishRevocation
  <2>2. \/ Line' = Line /\ (kept' = kept \/ fwd = "close")
        \/ Line' = Append(Line, sent') /\ kept' = Append(kept, sent')
    BY <1>1, LineStep, Zenon
  <2>3. Line = kept /\ fwd # "close"
    BY <1>0, <2>1, Zenon
  <2> QED
    BY <2>2, <2>3, Zenon
<1>2. CASE Redis!SubscribeRevocations
  <2>1. fwd = "none"
    BY <1>2, Zenon DEF SubscriptionInv, Redis!SubscribeRevocations
  <2>2. Line = <<>> /\ kept = <<>>
    BY <2>1 DEF SubscriptionInv, Line, OnTheWay, Redis!OnTheWay
  <2> QED
    BY <1>2, <2>2, LineStep, Zenon DEF Redis!SubscribeRevocations
<1>3. CASE Redis!ForwardReceive \/ Redis!ForwardSend
  BY <1>0, <1>3, LineStep, Zenon DEF Redis!ForwardReceive, Redis!ForwardSend
<1>4. CASE Redis!ForwardStop \/ Redis!ForwardClose
  BY <1>4, Zenon DEF Redis!ForwardStop, Redis!ForwardClose
<1>5. CASE Redis!ClientClosed \/ Redis!SubscriberStops \/ Redis!Receive \/ UNCHANGED redis
  BY <1>0, <1>5, LineStep, Zenon DEF Redis!ClientClosed, Redis!SubscriberStops, Redis!Receive, redis
<1> QED
  BY <1>1, <1>2, <1>3, <1>4, <1>5, Zenon DEF Redis!Next

\* The invariant of a subscription over Redis.
LEMMA SubscriptionInvariant == Redis!Spec => [](SubscriptionInv /\ NothingLost)
<1>1. Redis!Init => SubscriptionInv /\ NothingLost
  BY DEF Redis!Init, SubscriptionInv, NothingLost, Redis!NothingLost
<1>2. SubscriptionInv /\ NothingLost /\ [Redis!Next]_(Redis!vars) => (SubscriptionInv /\ NothingLost)'
  BY NextSubscriptionInv, NextNothingLost, Zenon DEF Redis!vars, redis
<1> QED
  BY <1>1, <1>2, PTL DEF Redis!Spec

\* While the forwarder of RedisCacheProvider.SubscribeRevocations runs, what reached the
\* client was received or is still on its way, for every size of the two channels.
THEOREM NothingIsLost == Redis!Spec => []NothingLost
BY SubscriptionInvariant, PTL

\* Every step of the subscription is a step of the stream, or none.
LEMMA StreamStep ==
  ASSUME SubscriptionInv, [Redis!Next]_redis
  PROVE  [Redis!Stream!Next]_(Redis!Stream!vars)
<1> USE DEF Redis!Stream!vars, OnTheWay
<1>1. CASE Redis!PublishRevocation
  BY <1>1, OnTheWayStep, Zenon DEF Redis!PublishRevocation, Redis!Stream!Next, Redis!Stream!Publish
<1>2. CASE \/ Redis!SubscribeRevocations \/ Redis!ForwardReceive \/ Redis!ForwardSend
           \/ Redis!ForwardClose \/ Redis!ClientClosed \/ Redis!SubscriberStops
           \/ UNCHANGED redis
  BY <1>2, OnTheWayStep, Zenon DEF Redis!SubscribeRevocations, Redis!ForwardReceive, Redis!ForwardSend,
       Redis!ForwardClose, Redis!ClientClosed, Redis!SubscriberStops, redis
<1>3. CASE Redis!ForwardStop
  BY <1>3, OnTheWayStep, Zenon DEF Redis!ForwardStop, Redis!Stream!Next, Redis!Stream!GiveUp
<1>4. CASE Redis!Receive
  BY <1>4, OnTheWayStep, Zenon DEF Redis!Receive, Redis!Stream!Next, Redis!Stream!Deliver
<1> QED
  BY <1>1, <1>2, <1>3, <1>4, Zenon DEF Redis!Next

\* A subscription over Redis implements the stream of revocations: nothing is reordered,
\* repeated or invented, for every size of the two channels.
THEOREM SubscriptionIsStream == Redis!Spec => ImplementsStream
<1>1. Redis!Init => Redis!Stream!Init
  BY DEF Redis!Init, Redis!Stream!Init, Redis!OnTheWay
<1>2. SubscriptionInv /\ [Redis!Next]_(Redis!vars) => [Redis!Stream!Next]_(Redis!Stream!vars)
  BY StreamStep, Zenon DEF Redis!vars, redis
<1> QED
  BY <1>1, <1>2, SubscriptionInvariant, PTL
     DEF Redis!Spec, ImplementsStream, Redis!ImplementsStream, Redis!Stream!Spec

\* The line is made of published messages, the older before the younger.
LineInv ==
    /\ \A i \in 1..Len(Line) : Line[i] \in 1..sent
    /\ \A i, j \in 1..Len(Line) : i < j => Line[i] < Line[j]

\* Nothing is received twice or out of order.
InOrder == \A i, j \in 1..Len(received) : i < j => received[i] < received[j]

\* No step mixes up the line.
LEMMA NextLineInv ==
  ASSUME SubscriptionInv, LineInv, [Redis!Next]_redis
  PROVE  LineInv'
<1>t. Line \in Seq(Nat) /\ sent \in Nat /\ Len(Line) \in Nat
  BY LineStep DEF SubscriptionInv
<1>1. CASE Line' = Line /\ sent' \in {sent, sent + 1}
  BY <1>t, <1>1 DEF LineInv
<1>2. CASE Line' = Append(Line, sent') /\ sent' = sent + 1
  BY <1>t, <1>2 DEF LineInv
<1>3. CASE Redis!ForwardStop
  <2>1. Len(Line') \in 0..Len(Line) /\ \A i \in 1..Len(Line') : Line'[i] = Line[i]
    BY <1>3, LineStep, Zenon
  <2>2. sent' = sent
    BY <1>3, Zenon DEF Redis!ForwardStop
  <2>3. \A i \in 1..Len(Line') : i \in 1..Len(Line)
    BY <1>t, <2>1
  <2> QED
    BY <2>1, <2>2, <2>3, Zenon DEF LineInv
<1> QED
  BY <1>1, <1>2, <1>3, LineStep, Zenon DEF Redis!Next, Redis!PublishRevocation,
     Redis!SubscribeRevocations, Redis!ForwardReceive, Redis!ForwardSend, Redis!ForwardClose,
     Redis!ClientClosed, Redis!SubscriberStops, Redis!Receive, redis

\* A subscriber receives each message at most once and in the order of publication,
\* although one is dropped whenever the client's channel is full.
THEOREM ReceivedInOrder == Redis!Spec => []InOrder
<1>1. Redis!Init => LineInv
  <2>1. Redis!Init => Len(Line) = 0
    BY DEF Redis!Init, Line, OnTheWay, Redis!OnTheWay
  <2> QED
    BY <2>1 DEF LineInv
<1>2. SubscriptionInv /\ LineInv /\ [Redis!Next]_(Redis!vars) => LineInv'
  BY NextLineInv, Zenon DEF Redis!vars, redis
<1>3. SubscriptionInv /\ LineInv => InOrder
  <2> SUFFICES ASSUME SubscriptionInv, LineInv
               PROVE  InOrder
    BY Zenon
  <2>1. OnTheWay \in Seq(Nat) /\ received \in Seq(Nat)
    BY OnTheWayStep, Zenon DEF SubscriptionInv
  <2>2. /\ Len(Line) \in Nat /\ Len(received) \in 0..Len(Line)
        /\ \A i \in 1..Len(received) : Line[i] = received[i]
    BY <2>1 DEF Line
  <2>3. \A i \in 1..Len(received) : i \in 1..Len(Line)
    BY <2>1, <2>2
  <2> QED
    BY <2>2, <2>3, Zenon DEF LineInv, InOrder
<1> QED
  BY <1>1, <1>2, <1>3, SubscriptionInvariant, PTL DEF Redis!Spec

=============================================================================
