--------------------------- MODULE MCPermissionCache ---------------------------
(***************************************************************************)
(* Small instances of PermissionCache: one principal, two request slots    *)
(* and one admin, on one node or on two.                                   *)
(***************************************************************************)
EXTENDS PermissionCache

CONSTANTS n1, n2, p1, r1, r2, a1

TwoNodes == {n1, n2}
OneNode == {n1}
OnePrincipal == {p1}
TwoRequests == {r1, r2}
OneAdmin == {a1}

\* r1 runs on n1; r2 and the admin on n2.
HostTwoNodes == [c \in {r1, r2, a1} |-> IF c = r1 THEN n1 ELSE n2]
HostOneNode == [c \in {r1, r2, a1} |-> n1]
SubjectOne == [c \in {r1, r2, a1} |-> p1]

=============================================================================
