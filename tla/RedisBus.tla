-------------------------------- MODULE RedisBus --------------------------------
(***************************************************************************)
(* A subscription to revocations over Redis: the client's channel, the      *)
(* forwarding goroutine, the channel that the subscriber reads.             *)
(***************************************************************************)
EXTENDS Integers, Sequences

CONSTANTS MaxSent, ChanSize, OutSize  \* messages, the buffers of go-redis and of out

VARIABLES
    sent,      \* messages published: 1..sent
    sub,       \* the subscription: "none", "open" or "closed"
    msgChan,   \* pubsub.Channel()
    held,      \* the message in the forwarder's hands: a sequence of at most one
    out,       \* the channel returned to the subscriber
    fwd,       \* the forwarder: "none", "select", "send", "close" or "gone"
    ctxDone,
    outClosed,
    reading,   \* the subscriber still reads
    received,
    kept       \* history: the messages that reached the client

vars == <<sent, sub, msgChan, held, out, fwd, ctxDone, outClosed, reading, received, kept>>

Init ==
    /\ sent = 0 /\ sub = "none" /\ msgChan = <<>> /\ held = <<>> /\ out = <<>> /\ fwd = "none"
    /\ ctxDone = FALSE /\ outClosed = FALSE /\ reading = TRUE /\ received = <<>> /\ kept = <<>>

\* Redis delivers to subscribers that are connected. A message for a full channel is
\* dropped by go-redis in the end, one sent while it reconnects never arrives.
PublishRevocation ==
    /\ sent < MaxSent /\ sent' = sent + 1
    /\ \/ /\ sub = "open" /\ Len(msgChan) < ChanSize
          /\ msgChan' = Append(msgChan, sent') /\ kept' = Append(kept, sent')
       \/ UNCHANGED <<msgChan, kept>>
    /\ UNCHANGED <<sub, held, out, fwd, ctxDone, outClosed, reading, received>>

\* The subscription is confirmed and the forwarder starts, or pubsub is closed.
SubscribeRevocations ==
    /\ sub = "none"
    /\ \/ sub' = "open" /\ fwd' = "select"
       \/ sub' = "closed" /\ fwd' = fwd
    /\ UNCHANGED <<sent, msgChan, held, out, ctxDone, outClosed, reading, received, kept>>

\* The outer select: a message, or the end of the channel or of the context.
ForwardReceive ==
    /\ fwd = "select" /\ msgChan # <<>>
    /\ held' = <<Head(msgChan)>> /\ msgChan' = Tail(msgChan) /\ fwd' = "send"
    /\ UNCHANGED <<sent, sub, out, ctxDone, outClosed, reading, received, kept>>

\* Mutant: a message for a subscriber that is slow is dropped.
SendDropping ==
    /\ out' = IF Len(out) < OutSize THEN Append(out, held[1]) ELSE out
    /\ held' = <<>>

\* The inner select: the send, which waits for room.
Send == Len(out) < OutSize /\ out' = Append(out, held[1]) /\ held' = <<>>

ForwardSend ==
    /\ fwd = "send" /\ Send
    /\ fwd' = "select"
    /\ UNCHANGED <<sent, sub, msgChan, ctxDone, outClosed, reading, received, kept>>

\* Mutant: the send does not look at the context.
StoppableOuter == fwd = "select" /\ ctxDone

\* Both selects look at the context.
Stoppable == fwd \in {"select", "send"} /\ ctxDone

ForwardStop ==
    /\ Stoppable \/ (fwd = "select" /\ sub = "closed" /\ msgChan = <<>>)
    /\ fwd' = "close" /\ held' = <<>> /\ outClosed' = TRUE
    /\ UNCHANGED <<sent, sub, msgChan, out, ctxDone, reading, received, kept>>

\* Mutant: what is left in the channel is passed on.
ForwardCloseDrains ==
    /\ fwd = "close"
    /\ fwd' = "gone" /\ sub' = "closed" /\ out' = out \o msgChan /\ msgChan' = <<>>
    /\ UNCHANGED <<sent, held, ctxDone, outClosed, reading, received, kept>>

\* The second deferred call closes pubsub; what is left in its channel is lost.
ForwardClose ==
    /\ fwd = "close"
    /\ fwd' = "gone" /\ sub' = "closed" /\ msgChan' = <<>>
    /\ UNCHANGED <<sent, held, out, ctxDone, outClosed, reading, received, kept>>

\* The client itself is closed (Close), which closes the channel.
ClientClosed ==
    /\ sub = "open" /\ sub' = "closed"
    /\ UNCHANGED <<sent, msgChan, held, out, fwd, ctxDone, outClosed, reading, received, kept>>

Receive ==
    /\ reading /\ out # <<>>
    /\ received' = Append(received, Head(out)) /\ out' = Tail(out)
    /\ UNCHANGED <<sent, sub, msgChan, held, fwd, ctxDone, outClosed, reading, kept>>

\* The subscriber cancels, and stops reading with it or before.
SubscriberStops ==
    /\ ~ctxDone
    /\ \/ ctxDone' = TRUE /\ reading' \in {reading, FALSE}
       \/ reading /\ reading' = FALSE /\ UNCHANGED ctxDone
    /\ UNCHANGED <<sent, sub, msgChan, held, out, fwd, outClosed, received, kept>>

Next ==
    \/ PublishRevocation \/ SubscribeRevocations
    \/ ForwardReceive \/ ForwardSend \/ ForwardStop \/ ForwardClose
    \/ ClientClosed \/ Receive \/ SubscriberStops

Spec == Init /\ [][Next]_vars

\* The forwarder runs whenever it can. Nothing is said of the subscriber.
Fairness == WF_vars(ForwardReceive \/ ForwardSend) /\ WF_vars(ForwardStop) /\ WF_vars(ForwardClose)

-----------------------------------------------------------------------------
(* Properties                                                              *)

\* What can still reach the subscriber.
OnTheWay == out \o (IF fwd \in {"close", "gone"} THEN <<>> ELSE held \o msgChan)

Stream == INSTANCE RevocationStream WITH pending <- OnTheWay

\* The subscription implements the stream: nothing is reordered, repeated or invented.
ImplementsStream == Stream!Spec

\* No message that reached the client is lost while the subscription lasts, however slow
\* the subscriber is: it waits in one of the two channels or in the forwarder's hands.
NothingLost == fwd \in {"select", "send"} => received \o OnTheWay = kept

\* The forwarder ends once the context is done, although nobody reads its channel: the
\* goroutine and the connection are not leaked.
ForwarderEnds == ctxDone /\ fwd # "none" ~> fwd = "gone" /\ outClosed /\ sub = "closed"

=============================================================================
