-------------------------------- MODULE SearchPages --------------------------------
(***************************************************************************)
(* A client that pages through a fixed result, from the first page along   *)
(* has_next_page or with a jump to any page.                               *)
(***************************************************************************)
EXTENDS Pagination, Sequences

CONSTANTS Sizes, Maxes, Jumps  \* page sizes asked for, configured maxima, page numbers

\* The pages that the client jumps to have an offset that an int holds.
ASSUME PagesAssumption ==
    /\ Sizes \cup Maxes \cup Jumps \subseteq Int
    /\ \A s \in Sizes, m \in Maxes, n \in Jumps :
           LET p == [size |-> s, number |-> n]
           IN  (Number(p) - 1) * SizeWithMax(p, m) <= MaxInt

VARIABLES
    max, total, \* the resource
    asked,      \* the request, [size, number]
    vm,         \* the envelope of the answer
    start,      \* the page that the client began with
    rows        \* the rows delivered since then, in order

pagesVars == <<max, total, asked, vm, start, rows>>

\* The rows of a page: LIMIT size OFFSET offset over total rows.
Delivered(p) == [i \in 1..RowsOnPage(p, total, max) |-> OffsetWithMax(p, max) + i]

Fetch(p) == asked' = p /\ vm' = NewPagedViewModel(p, total, FALSE, max)

\* A total that the sum in TotalPages can hold.
PagesInit ==
    /\ max \in Maxes
    /\ \E s \in Sizes :
         /\ total \in 0..(MaxInt - SizeWithMax([size |-> s, number |-> 1], max))
         /\ asked = [size |-> s, number |-> 0]
    /\ vm = NewPagedViewModel(asked, total, FALSE, max)
    /\ start = 1
    /\ rows = Delivered(asked)

\* The client asks for the page behind the one it has.
FollowNext ==
    /\ vm.hasNext
    /\ Fetch([asked EXCEPT !.number = vm.number + 1])
    /\ rows' = rows \o Delivered(asked')
    /\ UNCHANGED <<max, total, start>>

\* The client begins again with any page.
Jump(n) ==
    /\ Fetch([asked EXCEPT !.number = n])
    /\ start' = Number(asked')
    /\ rows' = Delivered(asked')
    /\ UNCHANGED <<max, total>>

PagesNext == FollowNext \/ \E n \in Jumps : Jump(n)

PagesSpec == PagesInit /\ [][PagesNext]_pagesVars

-----------------------------------------------------------------------------
(* Properties                                                              *)

\* Following has_next_page loses no row, repeats none, meets no empty page and stops in
\* time: the pages so far delivered the rows from the start of the first page to the end of
\* this one in order, and a page without a next one ends with the last row.
PagesTile ==
    LET before == (start - 1) * vm.size
        end    == IF vm.hasNext THEN vm.number * vm.size ELSE total
    IN  /\ rows = [i \in 1..(end - before) |-> before + i] /\ end <= total
        /\ vm.number > start => Delivered(asked) # <<>>

=============================================================================
