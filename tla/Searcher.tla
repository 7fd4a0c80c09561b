-------------------------------- MODULE Searcher --------------------------------
(***************************************************************************)
(* A search over PostgreSQL: the page and its total are fetched by two     *)
(* goroutines of an errgroup while the table changes, the caller may give   *)
(* up, queries fail, and an exact count that takes too long is replaced by  *)
(* the planner's estimate.                                                  *)
(***************************************************************************)
EXTENDS Pagination

CONSTANTS
    SearchRequests,  \* [size, number, adaptive, slice, tx]: the page, AdaptiveCounter or ExactCounter,
               \* whether dest is a pointer to a slice, and whether the Querier runs its
               \* queries on one connection, as a transaction does
    MaxPageSize, MaxRows, MaxSearches

ASSUME SearcherAssumption == MaxPageSize \in Int /\ \A p \in SearchRequests : p.size \in Int

VARIABLES
    table,       \* the number of rows that match
    caller,      \* the caller: "idle" or "wait"
    page,        \* the request
    gerr, cerr,  \* Err() of the group's context and of the exact count's
    count, sel,  \* the two goroutines, [pc, n, estimated] and [pc, n]
    first,       \* the error that the group keeps
    result,      \* what the last Search returned, [err, rows, vm]
    causes,      \* history: the faults and the caller's own endings of this search
    seen,        \* history: the sizes of the table during this search
    searches

NoErr == ""

searchVars == <<table, caller, page, gerr, cerr, count, sel, first, result, causes, seen, searches>>

Idle == [pc |-> "end", n |-> 0, estimated |-> FALSE]

\* A context that is done keeps its first error; the exact count's context is below the group's.
Cancel(e) ==
    /\ gerr' = IF gerr = NoErr THEN e ELSE gerr
    /\ cerr' = IF cerr = NoErr THEN e ELSE cerr

Running(g) == g.pc \notin {"start", "end"}

\* A query cannot begin on a connection that is busy.
Busy(other) == page.tx /\ Running(other)

\* The errors with which a query may end: the database's, or that of its context, e.
Fail(e) == {"db"} \cup ({e} \ {NoErr})

\* The database's error is a cause of its own.
Blame(err) == causes' = causes \cup ({err} \cap {"db"})

\* Mutant: the group keeps the last error.
GroupErrorLast(e) == first' = e /\ Cancel("canceled")

\* A goroutine of the group returned an error: the first is kept and ends the context.
GroupError(e) ==
    /\ first' = IF first = NoErr THEN e ELSE first
    /\ Cancel("canceled")

SearchInit ==
    /\ table \in 0..MaxRows
    /\ caller = "idle" /\ page \in SearchRequests /\ gerr = NoErr /\ cerr = NoErr /\ count = Idle /\ sel = Idle
    /\ first = NoErr /\ result = [err |-> NoErr, rows |-> 1, vm |-> NewPagedViewModel(page, 1, FALSE, MaxPageSize)]
    /\ causes = {} /\ seen = {} /\ searches = 0

\* Validate or Compile refuses the request: the database is not touched.
SearchRejected ==
    /\ caller = "idle"
    /\ result' = [result EXCEPT !.err = "invalid"]
    /\ causes' = {"invalid"}
    /\ UNCHANGED <<table, caller, page, gerr, cerr, count, sel, first, seen, searches>>

\* Search starts the two goroutines.
Search(p) ==
    /\ caller = "idle" /\ searches < MaxSearches
    /\ caller' = "wait" /\ page' = p /\ searches' = searches + 1
    /\ gerr' = NoErr /\ cerr' = NoErr /\ first' = NoErr /\ causes' = {} /\ seen' = {table}
    /\ count' = [Idle EXCEPT !.pc = "start"] /\ sel' = [Idle EXCEPT !.pc = "start"]
    /\ UNCHANGED <<table, result>>

-----------------------------------------------------------------------------
(* The goroutine that counts                                               *)

CountUnchanged == UNCHANGED <<table, caller, page, sel, result, seen, searches>>

CountReturns(n, estimated) ==
    /\ count' = [pc |-> "end", n |-> n, estimated |-> estimated]
    /\ UNCHANGED <<gerr, cerr, first>>

CountFails(e) == count' = Idle /\ GroupError(e)

\* exact(countCtx) begins.
CountStart ==
    /\ count.pc = "start"
    /\ IF Busy(sel) THEN CountFails("busy") /\ causes' = causes \cup {"busy"}
       ELSE count' = [count EXCEPT !.pc = "exact"] /\ UNCHANGED <<gerr, cerr, first, causes>>
    /\ CountUnchanged

\* COUNT(*) answers.
ExactAnswers ==
    /\ count.pc = "exact"
    /\ CountReturns(table, FALSE)
    /\ UNCHANGED causes /\ CountUnchanged

\* An exact count that ran into the deadline is replaced by an estimate, another error is final.
Judge(e) ==
    IF page.adaptive /\ e = "deadline"
    THEN count' = [count EXCEPT !.pc = "estimate"] /\ UNCHANGED <<gerr, cerr, first>>
    ELSE CountFails(e)

\* COUNT(*) fails.
ExactFails(e) ==
    /\ count.pc = "exact" /\ e \in Fail(cerr)
    /\ Blame(e)
    /\ Judge(e)
    /\ CountUnchanged

\* Mutant: the exact count has no timeout.
TimeoutNever == FALSE /\ UNCHANGED searchVars

\* The timeout of the exact count passes.
Timeout ==
    /\ page.adaptive /\ count.pc = "exact" /\ cerr = NoErr
    /\ cerr' = "deadline"
    /\ UNCHANGED <<table, caller, page, gerr, count, sel, first, result, causes, seen, searches>>

\* EXPLAIN answers with what the planner believes, ParseExplainEstimate reads it.
EstimateAnswers(n) ==
    /\ count.pc = "estimate"
    /\ CountReturns(n, TRUE)
    /\ UNCHANGED causes /\ CountUnchanged

\* EXPLAIN or the parsing of its answer fails.
EstimateFails(e) ==
    /\ count.pc = "estimate" /\ e \in Fail(gerr)
    /\ Blame(e)
    /\ CountFails(e)
    /\ CountUnchanged

-----------------------------------------------------------------------------
(* The goroutine that fetches the page                                     *)

SelUnchanged == UNCHANGED <<table, caller, page, count, result, seen, searches>>

SelectStart ==
    /\ sel.pc = "start"
    /\ IF Busy(count) THEN sel' = Idle /\ GroupError("busy") /\ causes' = causes \cup {"busy"}
       ELSE sel' = [sel EXCEPT !.pc = "query"] /\ UNCHANGED <<gerr, cerr, first, causes>>
    /\ SelUnchanged

SelectAnswers ==
    /\ sel.pc = "query"
    /\ sel' = [Idle EXCEPT !.n = RowsOnPage(page, table, MaxPageSize)]
    /\ UNCHANGED <<gerr, cerr, first, causes>> /\ SelUnchanged

SelectFails(e) ==
    /\ sel.pc = "query" /\ e \in Fail(gerr)
    /\ Blame(e)
    /\ sel' = Idle /\ GroupError(e)
    /\ SelUnchanged

-----------------------------------------------------------------------------
(* The answer                                                              *)

sliceLen(p, n) == IF p.slice THEN n ELSE 1

\* Mutant: any empty page sets the total to zero.
CorrectEmptyAnyPage(c, p, rowsOnPage) ==
    IF c.estimated /\ rowsOnPage = 0 THEN [c EXCEPT !.n = 0, !.estimated = FALSE] ELSE c

CorrectEmptyFirstPage(c, p, rowsOnPage) ==
    IF c.estimated /\ Number(p) = 1 /\ rowsOnPage = 0
    THEN [c EXCEPT !.n = 0, !.estimated = FALSE] ELSE c

Wait == count.pc = "end" /\ sel.pc = "end"

SearchReturns ==
    /\ caller = "wait" /\ Wait
    /\ caller' = "idle"
    /\ LET c == CorrectEmptyFirstPage(count, page, sliceLen(page, sel.n))
       IN  result' = IF first # NoErr THEN [result EXCEPT !.err = first]
                     ELSE [err |-> NoErr, rows |-> sel.n,
                           vm |-> NewPagedViewModel(page, c.n, c.estimated, MaxPageSize)]
    /\ UNCHANGED <<table, page, gerr, cerr, count, sel, first, causes, seen, searches>>

-----------------------------------------------------------------------------
(* The surroundings                                                        *)

\* The caller gives up, or its deadline passes.
CallerEnds(e) ==
    /\ caller = "wait" /\ causes \cap {"canceled", "deadline"} = {}
    /\ causes' = causes \cup {e}
    /\ Cancel(e)
    /\ UNCHANGED <<table, caller, page, count, sel, first, result, seen, searches>>

\* A row comes or goes while a search runs.
TableChanges(n) ==
    /\ caller = "wait" /\ n \in {table - 1, table + 1}
    /\ table' = n /\ seen' = seen \cup {n}
    /\ UNCHANGED <<caller, page, gerr, cerr, count, sel, first, result, causes, searches>>

\* What fails at the hand of the database or the caller.
Failing ==
    \E e \in {"db", "deadline", "canceled"} : ExactFails(e) \/ EstimateFails(e) \/ SelectFails(e)

SearchNext ==
    \/ SearchRejected
    \/ \E p \in SearchRequests : Search(p)
    \/ CountStart \/ ExactAnswers \/ Timeout
    \/ \E n \in 0..MaxRows : EstimateAnswers(n) \/ TableChanges(n)
    \/ Failing
    \/ SelectStart \/ SelectAnswers
    \/ SearchReturns
    \/ \E e \in {"canceled", "deadline"} : CallerEnds(e)

SearchSpec == SearchInit /\ [][SearchNext]_searchVars

\* Goroutines run, timers fire, the page and the plan are answered, and a query whose
\* context is done returns. Nothing says that COUNT(*) is answered.
Fairness ==
    /\ WF_searchVars(CountStart) /\ WF_searchVars(SelectStart) /\ WF_searchVars(Timeout) /\ WF_searchVars(SearchReturns)
    /\ WF_searchVars(SelectAnswers) /\ WF_searchVars(\E n \in 0..MaxRows : EstimateAnswers(n))
    /\ WF_searchVars(cerr # NoErr /\ \E e \in {"deadline", "canceled"} : ExactFails(e))

-----------------------------------------------------------------------------
(* Properties                                                              *)

\* An error that Search returns is one that happened to it: a fault of the database, the
\* end of the caller's own context or, in a transaction, one query in the way of the other.
\* The cancellation with which the errgroup stops the other goroutine never shows, and
\* neither does the timeout of the exact count.
ErrorHasCause == caller = "idle" /\ result.err # NoErr => result.err \in causes

\* A total that is not marked as an estimate was the number of matching rows at some
\* moment of the search, whichever query of the two ran first.
TotalWasTrue ==
    caller = "idle" /\ searches > 0 /\ result.err = NoErr /\ ~result.vm.estimated => result.vm.total \in seen

\* Every search with an AdaptiveCounter returns although COUNT(*) may never answer.
SearchEnds == caller = "wait" /\ page.adaptive ~> caller = "idle"

=============================================================================
