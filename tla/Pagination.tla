-------------------------------- MODULE Pagination --------------------------------
(***************************************************************************)
(* The page arithmetic of the search package, on integers of IntBits bits.  *)
(***************************************************************************)
EXTENDS Integers

CONSTANTS IntBits, DefaultPageSize, DefaultMaxPageSize

\* Half of the values of an int are not negative.
Half == 2^(IntBits - 1)

MaxInt == Half - 1

ASSUME PaginationAssumption ==
    /\ IntBits \in Nat \ {0} /\ Half \in Nat \ {0}
    /\ DefaultPageSize \in Nat \ {0} /\ DefaultMaxPageSize \in Nat \ {0}

\* What an int holds after an operation that may overflow.
Wrap(n) == ((n + Half) % (2 * Half)) - Half

\* Go's division, which rounds towards zero.
Quotient(a, b) == IF a >= 0 THEN a \div b ELSE -((-a) \div b)

SizeWithMax(p, max) ==
    LET cap == IF max <= 0 THEN DefaultMaxPageSize ELSE max
        wanted == IF p.size <= 0 THEN DefaultPageSize ELSE p.size
    IN  IF wanted > cap THEN cap ELSE wanted

Number(p) == IF p.number <= 0 THEN 1 ELSE p.number

OffsetWithMax(p, max) == Wrap((Number(p) - 1) * SizeWithMax(p, max))

\* The number of rows of LIMIT size OFFSET offset, of total rows.
RowsOnPage(p, total, max) ==
    LET left == total - OffsetWithMax(p, max)
        size == SizeWithMax(p, max)
    IN  IF left <= 0 THEN 0 ELSE IF left < size THEN left ELSE size

\* Mutant: a page more than the division gives.
TotalPagesOver(p, total, max) ==
    IF total <= 0 THEN 0 ELSE Quotient(total, SizeWithMax(p, max)) + 1

TotalPagesWithMax(p, total, max) ==
    IF total <= 0 THEN 0
    ELSE LET size == SizeWithMax(p, max)
         IN  Quotient(Wrap(Wrap(total + size) - 1), size)

NewPagedViewModel(p, total, estimated, max) ==
    LET pages == TotalPagesWithMax(p, total, max)
    IN  [size |-> SizeWithMax(p, max), number |-> Number(p), total |-> total, pages |-> pages,
         hasNext |-> Number(p) < pages, hasPrevious |-> Number(p) > 1, estimated |-> estimated]

=============================================================================
