-------------------------------- MODULE CacheContract --------------------------------
(***************************************************************************)
(* What every generic cache promises its callers: a map whose values are    *)
(* visible until they are overwritten, deleted or expired.                  *)
(***************************************************************************)
EXTENDS Integers

CONSTANTS Keys, Values, None, Ttls

VARIABLES
    content, \* what a key is bound to: [v, exp], exp = 0 for a value that never expires
    now,
    answer   \* the last call and its answer: [call, got, v], got = "ok", "hit", "miss" or "error"

vars == <<content, now, answer>>

Answer(call, got, v) == [call |-> call, got |-> got, v |-> v]

Empty == [k \in Keys |-> None]

Entry(v, ttl) == [v |-> v, exp |-> IF ttl <= 0 THEN 0 ELSE now + ttl]

Init == content = Empty /\ now = 1 /\ answer = Answer(<<>>, "ok", None)

Set(k, v, ttl) ==
    /\ content' = [content EXCEPT ![k] = Entry(v, ttl)]
    /\ answer' = Answer(<<"set", k, v, ttl>>, "ok", None) /\ UNCHANGED now

Get(k) ==
    /\ answer' = IF content[k] = None THEN Answer(<<"get", k>>, "miss", None)
                 ELSE Answer(<<"get", k>>, "hit", content[k].v)
    /\ UNCHANGED <<content, now>>

Delete(k) ==
    /\ content' = [content EXCEPT ![k] = None]
    /\ answer' = Answer(<<"delete", k>>, "ok", None) /\ UNCHANGED now

\* A call that reports a failure has its own effect, whole, or none.
Fail(call) == answer' = Answer(call, "error", None) /\ UNCHANGED now

FailSet(k, v, ttl) ==
    /\ Fail(<<"set", k, v, ttl>>)
    /\ content' = content \/ content' = [content EXCEPT ![k] = Entry(v, ttl)]

FailGet(k) == Fail(<<"get", k>>) /\ UNCHANGED content

FailDelete(k) ==
    /\ Fail(<<"delete", k>>)
    /\ content' = content \/ content' = [content EXCEPT ![k] = None]

\* Dispose may drop what the cache holds.
Drop == content' = Empty /\ UNCHANGED <<now, answer>>

\* Time passes: a value is gone after its expiration, at that moment it may be.
Tick ==
    /\ now' = now + 1
    /\ \E gone \in SUBSET Keys :
         /\ \A k \in Keys : content[k] # None /\ content[k].exp # 0 =>
              (content[k].exp < now' => k \in gone) /\ (k \in gone => content[k].exp <= now')
         /\ \A k \in gone : content[k] # None => content[k].exp # 0
         /\ content' = [k \in Keys |-> IF k \in gone THEN None ELSE content[k]]
    /\ UNCHANGED answer

Next ==
    \/ \E k \in Keys : \/ Get(k) \/ FailGet(k) \/ Delete(k) \/ FailDelete(k)
                       \/ \E v \in Values, ttl \in Ttls : Set(k, v, ttl) \/ FailSet(k, v, ttl)
    \/ Drop \/ Tick

Spec == Init /\ [][Next]_vars

=============================================================================
