------------------------------------ MODULE Lists ------------------------------------
(***************************************************************************)
(* A loop over a slice, as the recursive function that the proofs unfold.   *)
(***************************************************************************)
EXTENDS Naturals, Sequences

\* s is a slice: its elements are numbered from 1.
IsList(s) == s \in Seq({s[i] : i \in DOMAIN s})

\* s without the elements of S: a loop that skips them and appends the others.
Without(s, S) ==
    LET kept[n \in 0..Len(s)] ==
            IF n = 0 THEN <<>>
            ELSE IF s[n] \in S THEN kept[n - 1] ELSE Append(kept[n - 1], s[n])
    IN  kept[Len(s)]

=============================================================================
