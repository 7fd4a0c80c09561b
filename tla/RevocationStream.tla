-------------------------------- MODULE RevocationStream --------------------------------
(***************************************************************************)
(* What a subscription to revocations promises: messages in the order they  *)
(* were published, each at most once.                                       *)
(***************************************************************************)
EXTENDS Sequences, Naturals

VARIABLES
    sent,     \* how many messages were published
    pending,  \* the messages on their way to the subscriber
    received  \* the messages that the subscriber took

vars == <<sent, pending, received>>

Init == sent = 0 /\ pending = <<>> /\ received = <<>>

\* Message sent + 1 is published; it may get lost.
Publish ==
    /\ sent' = sent + 1
    /\ pending' \in {Append(pending, sent'), pending}
    /\ UNCHANGED received

Deliver ==
    /\ pending # <<>>
    /\ received' = Append(received, Head(pending)) /\ pending' = Tail(pending)
    /\ UNCHANGED sent

\* The newest of the pending messages are given up.
GiveUp ==
    /\ \E n \in 0..Len(pending) : pending' = SubSeq(pending, 1, n)
    /\ UNCHANGED <<sent, received>>

Next == Publish \/ Deliver \/ GiveUp

Spec == Init /\ [][Next]_vars

=============================================================================
